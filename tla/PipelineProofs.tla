--------------------------- MODULE PipelineProofs ---------------------------
(***************************************************************************)
(* Successive runs of the worker, for any number of files, contents, edits  *)
(* and runs, with any failures, kills and late Load Jobs. Types, and that   *)
(* the backends agree, hold for overlapping runs, too. The rest needs one   *)
(* run at a time (OneRun), and what compares versions also that no file     *)
(* returns to an earlier content (~Revert): TLC shows both to be necessary. *)
(***************************************************************************)
EXTENDS PipelineInvariant, TLAPS

-----------------------------------------------------------------------------
(* The two state stores decide alike. PostgreSQL updates the row when the stored or the  *)
(* listed checksum is empty, Firestore only looks at the listed one; the difference is   *)
(* never visible.                                                                        *)

\* An empty stored checksum never equals a listed checksum that is not empty, which
\* is why Firestore need not look at it.
LEMMA EmptyChecksum ==
    ASSUME NEW doc \in Doc, NEW file \in Listing,
           doc.checksum = NoChecksum, file.checksum # NoChecksum
    PROVE  doc.checksum # file.checksum
OBVIOUS

\* For every record, and none, and every listing: the WHERE clause of the ON CONFLICT
\* update and the early return of the transaction write the same record or none.
THEOREM BackendsEquivalent ==
    ASSUME NEW doc \in Doc \cup {NoDoc}, NEW file \in Listing
    PROVE  PostgresUpsert(doc, file) = FirestoreUpsert(doc, file)
<1>1. CASE doc = NoDoc
  BY <1>1 DEF PostgresUpsert, FirestoreUpsert
<1>2. CASE doc # NoDoc
  BY <1>2, EmptyChecksum DEF PostgresUpsert, FirestoreUpsert
<1> QED BY <1>1, <1>2

-----------------------------------------------------------------------------
(* The state store and the listings *)

\* What is registered is a record.
LEMMA RecordType ==
    ASSUME NEW doc \in Doc \cup {NoDoc}, NEW file \in Listing
    PROVE  /\ PendingDoc(file) \in Doc
           /\ FirestoreUpsert(doc, file) \in Doc
BY DEF PendingDoc, FirestoreUpsert, Doc, Listing

\* A new status leaves the registration alone.
LEMMA StatusType ==
    ASSUME NEW doc \in Doc, NEW status \in {"pending", "done", "failed"}
    PROVE  /\ WithStatus(doc, status) \in Doc
           /\ WithStatus(doc, status).path = doc.path
           /\ WithStatus(doc, status).checksum = doc.checksum
           /\ WithStatus(doc, status).status = status
BY DEF WithStatus, Doc

\* ListFiles returns a listing.
LEMMA ListingType ==
    ASSUME TypeOK, NEW f \in Files
    PROVE  ListingOf(f) \in Listing
BY DEF TypeOK, DriveFile, ListingOf, Listing

\* A listing that is worked off file by file stays a listing.
LEMMA ListingShrinks ==
    ASSUME NEW L, L \in UNION {[F -> Listing] : F \in SUBSET Files}, NEW f
    PROVE  /\ DOMAIN L \subseteq Files
           /\ \A g \in DOMAIN L : L[g] \in Listing
           /\ [g \in DOMAIN L \ {f} |-> L[g]] \in UNION {[F -> Listing] : F \in SUBSET Files}
<1>1. PICK F \in SUBSET Files : L \in [F -> Listing]
  OBVIOUS
<1>2. [g \in DOMAIN L \ {f} |-> L[g]] \in [F \ {f} -> Listing]
  BY <1>1
<1>3. F \ {f} \in SUBSET Files
  OBVIOUS
<1> QED BY <1>1, <1>2, <1>3

\* The full listing, and the empty one, are listings.
LEMMA WholeListing ==
    ASSUME TypeOK
    PROVE  /\ [f \in Files |-> ListingOf(f)] \in UNION {[F -> Listing] : F \in SUBSET Files}
           /\ << >> \in UNION {[F -> Listing] : F \in SUBSET Files}
           /\ DOMAIN << >> = {}
<1>1. [f \in Files |-> ListingOf(f)] \in [Files -> Listing]
  BY ListingType
<1>2. << >> \in [{} -> Listing]
  OBVIOUS
<1>3. Files \in SUBSET Files /\ {} \in SUBSET Files
  OBVIOUS
<1> QED BY <1>1, <1>2, <1>3

\* Somebody is in Drive only with a content, so that there is one.
LEMMA SomeContent ==
    ASSUME TypeOK, NEW f \in Files
    PROVE  NoContent \in Checksums
BY DEF TypeOK, DriveFile, NoContent

\* A task in one of the pool's stages has the type of a task.
LEMMA TaskType ==
    /\ NoTask \notin Task
    /\ \A t \in Task : t.stage \in Stage /\ t.doc \in Doc /\ t.content \in Checksums /\ t.at \in Nat
BY TaskAssumption DEF Task

\* What a stamped task loads is a load.
LEMMA LoadType ==
    ASSUME TypeInv, NEW r \in Runs, NEW f \in Files, At(r, f, "chunks")
    PROVE  LoadOf(r, f) \in Load
BY TaskType DEF TypeInv, TypeOK, Tasks, At, Task, Doc, LoadOf, Load

-----------------------------------------------------------------------------
(* Types *)

\* Before the first run there is nothing but Drive.
LEMMA InitTypeInv == Init => TypeInv
<1> SUFFICES ASSUME Init PROVE TypeInv
  OBVIOUS
<1>1. << >> \in UNION {[F -> Listing] : F \in SUBSET Files} /\ DOMAIN << >> = {}
  <2>1. << >> \in [{} -> Listing] /\ {} \in SUBSET Files
    OBVIOUS
  <2> QED BY <2>1
<1>2. drive \in [Files -> DriveFile]
  BY DEF Init
<1>3. /\ store \in [Files -> Doc \cup {NoDoc}]
      /\ phase \in [Runs -> {"off", "register", "pool"}]
      /\ requeue \in [Runs -> Files \cup {NoFile}]
      /\ force \in [Runs -> BOOLEAN] /\ failed \in [Runs -> BOOLEAN]
      /\ disturbed \in [Runs -> BOOLEAN]
      /\ policy \in [Runs -> Policies \cup {NoPolicy}]
  BY DEF Init
<1>4. listing \in [Runs -> UNION {[F -> Listing] : F \in SUBSET Files}]
  BY <1>1 DEF Init
<1>5. task \in [Runs -> [Files -> Task \cup {NoTask}]]
  BY DEF Init
<1>6. loads \subseteq Load /\ late \subseteq Load
  BY DEF Init
<1>7. clock \in Nat /\ edits \in 0..MaxEdits /\ starts \in 0..MaxStarts
  BY PipelineAssumption DEF Init
<1>9. current \in BOOLEAN /\ backfilled \in Policies \cup {NoPolicy}
  BY DEF Init
<1>8. TypeOK
  BY <1>2, <1>3, <1>4, <1>5, <1>6, <1>7, <1>9 DEF TypeOK
<1> QED BY <1>1, <1>8 DEF Init, TypeInv, Tasks, Listed

\* A step outside the pool.
LEMMA OutsideType ==
    ASSUME TypeInv
    PROVE  /\ (\E f \in Files : EditDrive(f)) \/ LateCommit => TypeInv'
           /\ \A r \in Runs : StartRun(r) \/ StartPool(r) \/ Requeue(r)
                              \/ FinishRun(r) \/ StopRun(r) => TypeInv'
           /\ \A r \in Runs, f \in Files : Register(r, f) => TypeInv'
<1> USE DEF TypeInv
<1>1. CASE \E f \in Files : EditDrive(f)
  <2>1. PICK f \in Files, d \in DriveFile : drive' = [drive EXCEPT ![f] = d]
    BY <1>1 DEF EditDrive
  <2>2. edits' \in 0..MaxEdits /\ disturbed' \in [Runs -> BOOLEAN]
    BY <1>1, PipelineAssumption DEF EditDrive, TypeOK
  <2>3. /\ current' = FALSE /\ backfilled' = NoPolicy
        /\ UNCHANGED <<store, clock, starts, loads, late, phase, listing, requeue,
                       force, policy, failed, task>>
    BY <1>1 DEF EditDrive, runVars, bigquery
  <2>4. TypeOK'
    BY <2>1, <2>2, <2>3 DEF TypeOK
  <2> QED BY <2>3, <2>4 DEF Tasks, Listed
<1>2. CASE LateCommit
  BY <1>2 DEF LateCommit, TypeOK, Tasks, Listed, runVars, goals
<1>3. ASSUME NEW r \in Runs, StartRun(r) PROVE TypeInv'
  <2>1. TypeOK'
    BY <1>3, WholeListing, PipelineAssumption DEF StartRun, TypeOK, goals, bigquery
  <2>2. Tasks'
    BY <1>3 DEF StartRun, TypeOK, Tasks
  <2>3. Listed'
    BY <1>3, RepoAssumption DEF StartRun, TypeOK, DriveFile, ListingOf, Listed
  <2> QED BY <2>1, <2>2, <2>3
<1>4. ASSUME NEW r \in Runs, StartPool(r) PROVE TypeInv'
  <2>1. PICK p \in Policies : Begin(r, p)
    BY <1>4 DEF StartPool
  <2>2. [f \in Files |-> IF IsPending(store[f])
                         THEN [stage |-> "queued", doc |-> store[f],
                               content |-> NoContent, at |-> 0]
                         ELSE NoTask] \in [Files -> Task \cup {NoTask}]
    BY SomeContent DEF TypeOK, IsPending, Task, Stage
  <2>3. TypeOK'
    BY <1>4, <2>1, <2>2 DEF StartPool, Begin, TypeOK, bigquery
  <2>4. Tasks'
    BY <1>4, <2>1, TaskType DEF StartPool, Begin, TypeOK, Tasks, IsPending
  <2>5. Listed'
    BY <2>1 DEF Begin, TypeOK, Listed
  <2> QED BY <2>3, <2>4, <2>5
<1>5. ASSUME NEW r \in Runs, Requeue(r) PROVE TypeInv'
  <2>1. WithStatus(store[requeue[r]], "pending") \in Doc /\ requeue[r] \in Files
    BY <1>5, StatusType DEF Requeue, TypeOK, Tasks
  <2>2. TypeOK'
    BY <1>5, <2>1 DEF Requeue, Put, TypeOK, goals, bigquery
  <2>3. Tasks'
    BY <1>5, <2>1, RepoAssumption DEF Requeue, Put, TypeOK, Tasks
  <2>4. Listed'
    BY <1>5 DEF Requeue, TypeOK, Listed
  <2> QED BY <2>2, <2>3, <2>4
<1>6. ASSUME NEW r \in Runs, FinishRun(r) PROVE TypeInv'
  <2>1. TypeOK'
    BY <1>6, WholeListing DEF FinishRun, Off, TypeOK, bigquery
  <2>2. Tasks' /\ Listed'
    BY <1>6, WholeListing DEF FinishRun, Off, TypeOK, Tasks, Listed
  <2> QED BY <2>1, <2>2
<1>7. ASSUME NEW r \in Runs, StopRun(r) PROVE TypeInv'
  <2>1. late' \subseteq Load
    BY <1>7, LoadType DEF StopRun, TypeOK
  <2>2. TypeOK'
    BY <1>7, <2>1, WholeListing DEF StopRun, Off, TypeOK, goals
  <2>3. Tasks' /\ Listed'
    BY <1>7, WholeListing DEF StopRun, Off, TypeOK, Tasks, Listed
  <2> QED BY <2>2, <2>3
<1>8. ASSUME NEW r \in Runs, NEW f \in Files, Register(r, f) PROVE TypeInv'
  <2> DEFINE doc == FirestoreUpsert(store[f], listing[r][f])
             left == [g \in DOMAIN listing[r] \ {f} |-> listing[r][g]]
             next == IF force[r] THEN f ELSE NoFile
  <2>1. /\ left \in UNION {[F -> Listing] : F \in SUBSET Files}
        /\ listing[r][f] \in Listing
    BY <1>8, ListingShrinks DEF TypeOK, Register
  <2>2. doc \in Doc
    BY <2>1, RecordType DEF TypeOK
  <2>3. store' = store \/ store' = [store EXCEPT ![f] = doc]
    BY <1>8 DEF Register, Put
  <2>4. listing' = [listing EXCEPT ![r] = left]
    BY <1>8 DEF Register
  <2>5. \/ requeue' = requeue
        \/ requeue' = [requeue EXCEPT ![r] = next] /\ store' = [store EXCEPT ![f] = doc]
    BY <1>8 DEF Register, Put
  <2>6. /\ failed' = failed \/ failed' = [failed EXCEPT ![r] = TRUE]
        /\ phase[r] = "register"
        /\ UNCHANGED <<drive, loads, late, clock, phase, force, policy, task, edits,
                       starts, disturbed, current, backfilled>>
    BY <1>8 DEF Register, goals, bigquery
  <2>7. next \in {f, NoFile}
    OBVIOUS
  <2> HIDE DEF doc, left, next
  <2>10. requeue' \in [Runs -> Files \cup {NoFile}]
    BY <2>5, <2>7 DEF TypeOK
  <2>14. failed' \in [Runs -> BOOLEAN]
    BY <2>6 DEF TypeOK
  <2>11. /\ store' \in [Files -> Doc \cup {NoDoc}]
         /\ listing' \in [Runs -> UNION {[F -> Listing] : F \in SUBSET Files}]
    BY <2>1, <2>2, <2>3, <2>4 DEF TypeOK
  <2>12. TypeOK'
    BY <2>6, <2>10, <2>11, <2>14 DEF TypeOK
  <2>13. Tasks'
    BY <2>2, <2>3, <2>5, <2>6, <2>7, RepoAssumption DEF TypeOK, Tasks
  <2>8. DOMAIN left \subseteq DOMAIN listing[r] /\ \A g \in DOMAIN left : left[g] = listing[r][g]
    BY DEF left
  <2>9. Listed'
    BY <2>4, <2>6, <2>8 DEF TypeOK, Listed
  <2> QED BY <2>9, <2>12, <2>13
<1> QED BY <1>1, <1>2, <1>3, <1>4, <1>5, <1>6, <1>7, <1>8

\* The task of r on f becomes t, and no other task changes.
Becomes(r, f, t) ==
    /\ task' \in [Runs -> [Files -> Task \cup {NoTask}]]
    /\ task'[r][f] = t
    /\ \A s \in Runs, g \in Files : s # r \/ g # f => task'[s][g] = task[s][g]

\* Its stage, content and timestamp.
Moves(r, f, stage, content, at) ==
    LET t == [stage |-> stage, doc |-> task[r][f].doc, content |-> content, at |-> at] IN
    t \in Task /\ Becomes(r, f, t)

\* The effect on the tasks when the task of one file of one run is replaced.
LEMMA TaskUpdate ==
    ASSUME TypeOK, NEW r \in Runs, NEW f \in Files, NEW t \in Task \cup {NoTask},
           task' = [task EXCEPT ![r] = [task[r] EXCEPT ![f] = t]]
    PROVE  Becomes(r, f, t)
BY DEF TypeOK, Becomes

\* A task that goes on keeps the record, the content and the timestamp it has.
LEMMA AdvanceMoves ==
    ASSUME TypeOK, NEW r \in Runs, NEW f \in Files, NEW x \in Stage,
           task[r][f] # NoTask, Advance(r, f, x)
    PROVE  Moves(r, f, x, task[r][f].content, task[r][f].at)
<1> DEFINE t == [task[r][f] EXCEPT !.stage = x]
<1>1. task[r][f] \in Task
  BY DEF TypeOK
<1>2. t \in Task /\ t = [stage |-> x, doc |-> task[r][f].doc,
                         content |-> task[r][f].content, at |-> task[r][f].at]
  BY <1>1 DEF Task
<1>3. task' = [task EXCEPT ![r] = [task[r] EXCEPT ![f] = t]]
  BY DEF Advance, TypeOK
<1> QED BY <1>2, <1>3, TaskUpdate DEF Moves

\* The fields of a task, one and two at a time.
LEMMA TaskExcept ==
    ASSUME NEW u \in Task, NEW x, NEW c, NEW n
    PROVE  /\ [u EXCEPT !.content = c, !.stage = x] =
                 [stage |-> x, doc |-> u.doc, content |-> c, at |-> u.at]
           /\ [u EXCEPT !.at = n, !.stage = x] =
                 [stage |-> x, doc |-> u.doc, content |-> u.content, at |-> n]
<1>1. DOMAIN u = {"stage", "doc", "content", "at"}
  BY DEF Task
<1> DEFINE v == [u EXCEPT !.content = c, !.stage = x]
           w == [u EXCEPT !.at = n, !.stage = x]
<1>2. /\ v = [k \in DOMAIN u |-> IF k = "stage" THEN x ELSE IF k = "content" THEN c ELSE u[k]]
      /\ w = [k \in DOMAIN u |-> IF k = "stage" THEN x ELSE IF k = "at" THEN n ELSE u[k]]
  BY <1>1
<1> QED BY <1>1, <1>2

\* A download gives a task its content, and a Markdown file its chunks.
LEMMA DownloadMoves ==
    ASSUME TypeOK, NEW r \in Runs, NEW f \in Files, DownloadOk(r, f)
    PROVE  Moves(r, f, IF f \in Markdown THEN "got" ELSE "metadata", drive[f].content,
                 task[r][f].at)
<1> DEFINE x == IF f \in Markdown THEN "got" ELSE "metadata"
           t == [task[r][f] EXCEPT !.content = drive[f].content, !.stage = x]
<1>1. task[r][f] \in Task /\ x \in Stage /\ drive[f].content \in Checksums
  BY DEF TypeOK, DownloadOk, At, Stage, DriveFile
<1>2. task' = [task EXCEPT ![r] = [task[r] EXCEPT ![f] = t]]
  BY DEF DownloadOk, TypeOK
<1> HIDE DEF x
<1>3. t = [stage |-> x, doc |-> task[r][f].doc, content |-> drive[f].content,
           at |-> task[r][f].at]
  BY <1>1, TaskExcept
<1>5. t \in Task
  BY <1>1, <1>3 DEF Task
<1>4. Moves(r, f, x, drive[f].content, task[r][f].at)
  BY <1>2, <1>3, <1>5, TaskUpdate DEF Moves
<1> QED BY <1>4 DEF x

\* A stamp gives a task its timestamp.
LEMMA StampMoves ==
    ASSUME TypeOK, NEW r \in Runs, NEW f \in Files, Stamp(r, f)
    PROVE  Moves(r, f, "chunks", task[r][f].content, clock + 1)
<1> DEFINE t == [task[r][f] EXCEPT !.at = clock + 1, !.stage = "chunks"]
<1>1. task[r][f] \in Task /\ "chunks" \in Stage /\ clock + 1 \in Nat
  BY DEF TypeOK, Stamp, At, Stage
<1>2. t = [stage |-> "chunks", doc |-> task[r][f].doc, content |-> task[r][f].content,
           at |-> clock + 1]
  BY <1>1, TaskExcept
<1>4. t \in Task
  BY <1>1, <1>2 DEF Task
<1>3. task' = [task EXCEPT ![r] = [task[r] EXCEPT ![f] = t]]
  BY DEF Stamp, TypeOK
<1> QED BY <1>2, <1>3, <1>4, TaskUpdate DEF Moves

\* A mark ends the task, and sets a status unless it failed.
LEMMA MarkEffect ==
    ASSUME TypeInv, NEW r \in Runs, NEW f \in Files, NEW stage,
           NEW status \in {"done", "failed"}, Mark(r, f, stage, status)
    PROVE  /\ Becomes(r, f, NoTask)
           /\ \/ store' = [store EXCEPT ![f] = WithStatus(store[f], status)] /\ failed' = failed
              \/ store' = [store EXCEPT ![f] = WithStatus(store[f], status)]
                     /\ failed' = [failed EXCEPT ![r] = TRUE]
              \/ store' = store /\ failed' = [failed EXCEPT ![r] = TRUE]
           /\ store[f] \in Doc /\ WithStatus(store[f], status) \in Doc
<1>1. task' = [task EXCEPT ![r] = [task[r] EXCEPT ![f] = NoTask]]
  BY DEF Mark, TypeInv, TypeOK
<1>2. Becomes(r, f, NoTask)
  BY <1>1, TaskUpdate DEF TypeInv
<1>3. store[f] \in Doc
  BY DEF Mark, At, TypeInv, TypeOK, Tasks
<1> QED BY <1>2, <1>3, StatusType DEF Mark, Put

\* A task that fails is still a task, of a run that has failed.
LEMMA FailMoves ==
    ASSUME TypeOK, NEW r \in Runs, NEW f \in Files, task[r][f] # NoTask, Fail(r, f)
    PROVE  /\ Moves(r, f, "mark_failed", task[r][f].content, task[r][f].at)
           /\ failed' = [failed EXCEPT ![r] = TRUE]
BY AdvanceMoves DEF Fail, Stage

\* A step of the pool on f.
PoolStep(r, f) ==
    \/ DownloadOk(r, f) \/ DownloadError(r, f) \/ Stamp(r, f)
    \/ ChunksOk(r, f) \/ ChunksError(r, f) \/ MetadataOk(r, f)
    \/ MetadataError(r, f) \/ MarkDone(r, f) \/ MarkFailed(r, f)

\* The pool works on what it has a task for, and on nothing else.
LEMMA PoolKeeps ==
    ASSUME NEW r \in Runs, NEW f \in Files, PoolStep(r, f)
    PROVE  /\ UNCHANGED <<drive, phase, listing, requeue, force, policy, edits, starts,
                          disturbed, current, backfilled>>
           /\ task[r][f] # NoTask
BY DEF PoolStep, DownloadOk, DownloadError, Stamp, ChunksOk, ChunksError, MetadataOk,
       MetadataError, MarkDone, MarkFailed, Mark, At, poolFrame, goals

\* A step of the pool is one that goes on, one that fails, or a mark.
LEMMA PoolCases ==
    ASSUME TypeInv, NEW r \in Runs, NEW f \in Files, PoolStep(r, f)
    PROVE  \/ /\ DownloadOk(r, f) \/ Stamp(r, f) \/ ChunksOk(r, f) \/ MetadataOk(r, f)
              /\ store' = store /\ failed' = failed
              /\ \E x \in Stage : \E c, n :
                    /\ Moves(r, f, x, c, n)
                    /\ x # "mark_failed"
                    /\ x \in {"got", "chunks"} => f \in Markdown
           \/ /\ DownloadError(r, f) \/ ChunksError(r, f) \/ MetadataError(r, f)
              /\ store' = store /\ failed' = [failed EXCEPT ![r] = TRUE]
              /\ Moves(r, f, "mark_failed", task[r][f].content, task[r][f].at)
           \/ /\ MarkDone(r, f) \/ MarkFailed(r, f)
              /\ Becomes(r, f, NoTask)
              /\ UNCHANGED <<loads, late, clock>>
              /\ \E status \in {"done", "failed"} :
                    /\ MarkFailed(r, f) => status = "failed"
                    /\ MarkDone(r, f) => status = "done"
                    /\ store[f] \in Doc /\ WithStatus(store[f], status) \in Doc
                    /\ \/ store' = [store EXCEPT ![f] = WithStatus(store[f], status)]
                       \/ store' = store /\ failed' = [failed EXCEPT ![r] = TRUE]
              /\ \/ failed' = failed
                 \/ failed' = [failed EXCEPT ![r] = TRUE]
<1> USE DEF TypeInv
<1>1. task[r][f] # NoTask
  BY PoolKeeps
<1>2. CASE \/ DownloadOk(r, f) \/ Stamp(r, f) \/ ChunksOk(r, f) \/ MetadataOk(r, f)
  <2>1. \E x \in Stage : \E c, n :
           /\ Moves(r, f, x, c, n)
           /\ x # "mark_failed"
           /\ x \in {"got", "chunks"} => f \in Markdown
    BY <1>1, <1>2, DownloadMoves, StampMoves, AdvanceMoves
    DEF DownloadOk, Stamp, ChunksOk, MetadataOk, Stage, TypeOK, Tasks, At
  <2>2. store' = store /\ failed' = failed
    BY <1>2 DEF DownloadOk, Stamp, ChunksOk, MetadataOk
  <2> QED BY <1>2, <2>1, <2>2
<1>3. CASE \/ DownloadError(r, f) \/ ChunksError(r, f) \/ MetadataError(r, f)
  <2>1. /\ Moves(r, f, "mark_failed", task[r][f].content, task[r][f].at)
        /\ failed' = [failed EXCEPT ![r] = TRUE]
    BY <1>1, <1>3, FailMoves DEF DownloadError, ChunksError, MetadataError
  <2>2. store' = store
    BY <1>3 DEF DownloadError, ChunksError, MetadataError
  <2> QED BY <1>3, <2>1, <2>2
<1>4. CASE MarkDone(r, f)
  <2>1. ~MarkFailed(r, f)
    BY <1>4 DEF MarkDone, MarkFailed, Mark, At
  <2> QED BY <1>4, <2>1, MarkEffect DEF MarkDone, Mark, bigquery
<1>5. CASE MarkFailed(r, f)
  <2>1. ~MarkDone(r, f)
    BY <1>5 DEF MarkDone, MarkFailed, Mark, At
  <2> QED BY <1>5, <2>1, MarkEffect DEF MarkFailed, Mark, bigquery
<1> QED BY <1>2, <1>3, <1>4, <1>5 DEF PoolStep

\* A step of the pool keeps the types.
LEMMA PoolType ==
    ASSUME TypeInv, NEW r \in Runs, NEW f \in Files, PoolStep(r, f)
    PROVE  TypeInv'
<1> USE DEF TypeInv
<1>1. UNCHANGED <<drive, phase, listing, requeue, force, policy, edits, starts, disturbed,
                  current, backfilled>>
  BY PoolKeeps
<1>3. task[r][f] # NoTask
  BY PoolKeeps
<1>2. At(r, f, "chunks") => LoadOf(r, f) \in Load
  BY LoadType
<1>4. clock' \in Nat /\ loads' \subseteq Load /\ late' \subseteq Load
  BY <1>2 DEF TypeOK, PoolStep, DownloadOk, DownloadError, Stamp, ChunksOk, ChunksError,
              MetadataOk, MetadataError, MarkDone, MarkFailed, Mark, bigquery
<1>5. Listed'
  BY <1>1 DEF Listed
<1>6. ASSUME NEW x \in Stage, NEW c, NEW n, Moves(r, f, x, c, n),
             x # "mark_failed", x \in {"got", "chunks"} => f \in Markdown,
             store' = store, failed' = failed
      PROVE  TypeInv'
  <2>1. TypeOK'
    BY <1>1, <1>4, <1>6 DEF TypeOK, Moves, Becomes
  <2>2. \A s \in Runs, g \in Files :
           task'[s][g] # NoTask =>
              /\ task[s][g] # NoTask
              /\ task'[s][g].stage \in {"got", "chunks"} =>
                    g \in Markdown \/ task[s][g].stage \in {"got", "chunks"}
              /\ task'[s][g].stage = "mark_failed" => task[s][g].stage = "mark_failed"
    BY <1>3, <1>6 DEF Moves, Becomes
  <2>3. Tasks'
    BY <1>1, <1>6, <2>2 DEF Tasks
  <2> QED BY <1>5, <2>1, <2>3
<1>7. ASSUME Moves(r, f, "mark_failed", task[r][f].content, task[r][f].at),
             failed' = [failed EXCEPT ![r] = TRUE], store' = store
      PROVE  TypeInv'
  <2>1. TypeOK'
    BY <1>1, <1>4, <1>7 DEF TypeOK, Moves, Becomes
  <2>2. Tasks'
    BY <1>1, <1>3, <1>7 DEF TypeOK, Tasks, Moves, Becomes
  <2> QED BY <1>5, <2>1, <2>2
<1>8. ASSUME NEW status \in {"done", "failed"}, Becomes(r, f, NoTask),
             store' = [store EXCEPT ![f] = WithStatus(store[f], status)] \/ store' = store,
             failed' = failed \/ failed' = [failed EXCEPT ![r] = TRUE],
             store[f] \in Doc, WithStatus(store[f], status) \in Doc
      PROVE  TypeInv'
  <2>1. failed' \in [Runs -> BOOLEAN] /\ \A s \in Runs : failed[s] => failed'[s]
    BY <1>8 DEF TypeOK
  <2>2. /\ store' \in [Files -> Doc \cup {NoDoc}]
        /\ \A g \in Files : store[g] # NoDoc => store'[g] # NoDoc
    BY <1>8, RepoAssumption DEF TypeOK
  <2>3. TypeOK'
    BY <1>1, <1>4, <1>8, <2>1, <2>2 DEF TypeOK, Becomes
  <2>4. \A s \in Runs, g \in Files :
           task'[s][g] # NoTask => task'[s][g] = task[s][g]
    BY <1>8 DEF Becomes
  <2>5. Tasks'
    BY <1>1, <2>1, <2>2, <2>4 DEF TypeOK, Tasks
  <2> QED BY <1>5, <2>3, <2>5
<1> QED BY <1>6, <1>7, <1>8, PoolCases

\* Every step keeps the types, and the tasks and listings in their phases.
LEMMA StepTypeInv == TypeInv /\ [Next]_vars => TypeInv'
<1> SUFFICES ASSUME TypeInv, [Next]_vars PROVE TypeInv'
  OBVIOUS
<1>1. CASE UNCHANGED vars
  BY <1>1 DEF vars, goals, TypeInv, TypeOK, Tasks, Listed
<1>2. CASE Next
  BY <1>2, OutsideType, PoolType DEF Next, RunStep, RunFile, PoolStep
<1> QED BY <1>1, <1>2

\* The types hold for runs that overlap, and for files that return to an earlier content.
THEOREM PipelineTypes == Spec => []TypeInv
BY InitTypeInv, StepTypeInv, PTL DEF Spec

\* Both backends of the state store make the same decision on every record and listing
\* that ever come up.
THEOREM BackendsAlwaysAgree == Spec => []BackendsAgree
<1>1. TypeInv => BackendsAgree
  BY BackendsEquivalent, ListingType DEF TypeInv, TypeOK, BackendsAgree
<1> QED BY <1>1, PipelineTypes, PTL

-----------------------------------------------------------------------------
(* Runs that do not overlap: the records *)

\* What registering f does to the record, the listing and the forced requeue.
LEMMA RegisterEffect ==
    ASSUME TypeInv, NEW r \in Runs, NEW f \in Files, Register(r, f)
    PROVE  LET doc == FirestoreUpsert(store[f], listing[r][f]) IN
           /\ phase[r] = "register" /\ f \in DOMAIN listing[r]
           /\ listing[r][f] \in Listing /\ doc \in Doc
           /\ DOMAIN listing'[r] = DOMAIN listing[r] \ {f}
           /\ \A g \in DOMAIN listing'[r] : listing'[r][g] = listing[r][g]
           /\ \A g \in Files : g # f => store'[g] = store[g]
           /\ store'[f] \in {doc, store[f]}
           /\ ~failed'[r] =>
                 ~failed[r] /\ store'[f] = doc /\ (force[r] => requeue'[r] = f)
           /\ UNCHANGED <<drive, loads, late, clock, phase, force, policy, task, edits,
                          starts, disturbed, current, backfilled>>
<1> USE DEF TypeInv, TypeOK
<1>1. listing[r][f] \in Listing
  BY ListingShrinks DEF Register
<1>2. FirestoreUpsert(store[f], listing[r][f]) \in Doc
  BY <1>1, RecordType
<1> DEFINE doc == FirestoreUpsert(store[f], listing[r][f])
<1>3. /\ store' \in {store, [store EXCEPT ![f] = doc]}
      /\ \/ store' = [store EXCEPT ![f] = doc] /\ failed' = failed
              /\ requeue' = [requeue EXCEPT ![r] = IF force[r] THEN f ELSE NoFile]
         \/ failed' = [failed EXCEPT ![r] = TRUE]
  BY DEF Register, Put
<1>4. /\ phase[r] = "register" /\ f \in DOMAIN listing[r]
      /\ listing' = [listing EXCEPT ![r] = [g \in DOMAIN listing[r] \ {f} |-> listing[r][g]]]
      /\ UNCHANGED <<drive, loads, late, clock, phase, force, policy, task, edits,
                     starts, disturbed, current, backfilled>>
  BY DEF Register, bigquery, goals
<1> HIDE DEF doc
<1>5. /\ \A g \in Files : g # f => store'[g] = store[g]
      /\ store'[f] \in {doc, store[f]}
  BY <1>3
<1>6. ~failed'[r] => ~failed[r] /\ store'[f] = doc /\ (force[r] => requeue'[r] = f)
  BY <1>3
<1>7. /\ DOMAIN listing'[r] = DOMAIN listing[r] \ {f}
      /\ \A g \in DOMAIN listing'[r] : listing'[r][g] = listing[r][g]
  BY <1>4
<1> QED BY <1>1, <1>2, <1>4, <1>5, <1>6, <1>7 DEF doc

\* What the forced requeue does to the record.
LEMMA RequeueEffect ==
    ASSUME TypeInv, NEW r \in Runs, Requeue(r)
    PROVE  /\ phase[r] = "register" /\ requeue[r] \in Files /\ requeue'[r] = NoFile
           /\ store[requeue[r]] \in Doc
           /\ \A g \in Files : g # requeue[r] => store'[g] = store[g]
           /\ store'[requeue[r]] \in {WithStatus(store[requeue[r]], "pending"),
                                      store[requeue[r]]}
           /\ ~failed'[r] =>
                 ~failed[r] /\ store'[requeue[r]] = WithStatus(store[requeue[r]], "pending")
           /\ UNCHANGED <<drive, loads, late, clock, phase, listing, force, policy, task,
                          edits, starts, disturbed, current, backfilled>>
BY DEF TypeInv, TypeOK, Tasks, Requeue, Put, bigquery, goals

\* What a mark does to the record.
LEMMA MarkRecord ==
    ASSUME TypeInv, NEW r \in Runs, NEW f \in Files,
           MarkDone(r, f) \/ MarkFailed(r, f)
    PROVE  /\ \A g \in Files : g # f => store'[g] = store[g]
           /\ store[f] \in Doc
           /\ \E status \in {"done", "failed"} :
                 /\ MarkFailed(r, f) => status = "failed"
                 /\ MarkDone(r, f) => status = "done"
                 /\ store'[f] \in {WithStatus(store[f], status), store[f]}
                 /\ ~failed'[r] => store'[f] = WithStatus(store[f], status)
           /\ ~failed'[r] => ~failed[r]
<1>1. PoolStep(r, f)
  BY DEF PoolStep
<1>2. ~(DownloadOk(r, f) \/ Stamp(r, f) \/ ChunksOk(r, f) \/ MetadataOk(r, f)
        \/ DownloadError(r, f) \/ ChunksError(r, f) \/ MetadataError(r, f))
  BY DEF MarkDone, MarkFailed, Mark, At, DownloadOk, Stamp, ChunksOk, MetadataOk,
         DownloadError, ChunksError, MetadataError
<1> QED BY <1>1, <1>2, PoolCases DEF TypeInv, TypeOK

\* Nobody touches the record of a file that the pool works on.
LEMMA StepOwned ==
    ASSUME OneRun, TypeInv, TypeInv', Owned, [Next]_vars
    PROVE  Owned'
<1> USE DEF OneRun
<1>1. CASE UNCHANGED vars
  BY <1>1 DEF vars, Owned
<1>2. CASE (\E f \in Files : EditDrive(f)) \/ LateCommit
  BY <1>2 DEF EditDrive, LateCommit, runVars, Owned
<1>3. ASSUME NEW r \in Runs, phase'[r] # "pool" PROVE Owned'
  BY <1>3 DEF TypeInv, Tasks, Owned
<1>4. ASSUME NEW r \in Runs, StartRun(r) \/ Requeue(r) \/ FinishRun(r) \/ StopRun(r)
      PROVE  Owned'
  BY <1>3, <1>4, RequeueEffect DEF StartRun, FinishRun, StopRun, Off, TypeInv, TypeOK
<1>5. ASSUME NEW r \in Runs, NEW f \in Files, Register(r, f) PROVE Owned'
  BY <1>3, <1>5, RegisterEffect DEF TypeInv, TypeOK
<1>6. ASSUME NEW r \in Runs, StartPool(r) PROVE Owned'
  BY <1>6, TaskType DEF StartPool, Begin, TypeInv, TypeOK, Owned, IsPending
<1>7. ASSUME NEW r \in Runs, NEW f \in Files, PoolStep(r, f) PROVE Owned'
  <2>1. CASE store' = store
    <3>1. ASSUME NEW x, NEW c, NEW n, Moves(r, f, x, c, n) PROVE Owned'
      BY <1>7, <2>1, <3>1, PoolKeeps DEF Moves, Becomes, Owned
    <3>2. ASSUME Becomes(r, f, NoTask) PROVE Owned'
      BY <2>1, <3>2 DEF Becomes, Owned
    <3> QED BY <1>7, <3>1, <3>2, PoolCases
  <2>2. CASE MarkDone(r, f) \/ MarkFailed(r, f)
    <3>1. Becomes(r, f, NoTask)
      BY <2>2, MarkEffect DEF MarkDone, MarkFailed
    <3> QED BY <2>2, <3>1, MarkRecord DEF Becomes, Owned
  <2> QED BY <1>7, <2>1, <2>2, PoolCases
<1> QED
  BY <1>1, <1>2, <1>4, <1>5, <1>6, <1>7 DEF Next, RunStep, RunFile, PoolStep

\* What Upsert writes is not a failed record, and pending if it cannot be compared.
LEMMA UpsertStatus ==
    ASSUME NEW doc \in Doc \cup {NoDoc}, NEW file \in Listing
    PROVE  LET new == FirestoreUpsert(doc, file) IN
           /\ new # NoDoc /\ new.status # "failed"
           /\ file.checksum = NoChecksum => new.status = "pending"
           /\ new.path = file.path /\ new.checksum = file.checksum
           /\ new.status = "done" => new = doc
BY RecordType, RepoAssumption DEF FirestoreUpsert, PendingDoc

\* Registration leaves no file that matters behind, and the pool takes all of them.
LEMMA StepQueued ==
    ASSUME OneRun, TypeInv, TypeInv', Queued, [Next]_vars
    PROVE  Queued'
<1> USE DEF OneRun
<1>1. CASE UNCHANGED vars
  BY <1>1 DEF vars, Queued
<1>2. CASE (\E f \in Files : EditDrive(f)) \/ LateCommit
  BY <1>2 DEF EditDrive, LateCommit, runVars, Queued
<1>3. ASSUME NEW r \in Runs, FinishRun(r) \/ StopRun(r) PROVE Queued'
  BY <1>3 DEF FinishRun, StopRun, Off, TypeInv, TypeOK, Queued
<1>4. ASSUME NEW r \in Runs, StartRun(r) PROVE Queued'
  BY <1>4 DEF StartRun, TypeInv, TypeOK, Queued
<1>5. ASSUME NEW r \in Runs, StartPool(r) PROVE Queued'
  <2> DEFINE queue == [f \in Files |-> IF IsPending(store[f])
                                      THEN [stage |-> "queued", doc |-> store[f],
                                            content |-> NoContent, at |-> 0]
                                      ELSE NoTask]
  <2>1. /\ phase[r] = "register" /\ phase' = [phase EXCEPT ![r] = "pool"]
        /\ UNCHANGED <<store, listing, failed>>
        /\ task' = [task EXCEPT ![r] = queue]
    BY <1>5 DEF StartPool, Begin
  <2>2. \A f \in Files : IsPending(store[f]) => queue[f] # NoTask
    <3> SUFFICES ASSUME NEW f \in Files, IsPending(store[f]) PROVE queue[f] # NoTask
      OBVIOUS
    <3>1. store[f] \in Doc
      BY DEF IsPending, TypeInv, TypeOK
    <3>2. [stage |-> "queued", doc |-> store[f], content |-> NoContent, at |-> 0] \in Task
      BY <3>1, SomeContent DEF TypeInv, Task, Stage
    <3> QED BY <3>2, TaskType
  <2> HIDE DEF queue
  <2> QED BY <2>1, <2>2 DEF TypeInv, TypeOK, Queued, IsPending
<1>6. ASSUME NEW r \in Runs, Requeue(r) PROVE Queued'
  BY <1>6, RequeueEffect, StatusType, RepoAssumption DEF Queued
<1>7. ASSUME NEW r \in Runs, NEW f \in Files, Register(r, f) PROVE Queued'
  <2>1. requeue[r] = NoFile
    BY <1>7 DEF Register
  <2>2. ASSUME ~failed'[r] PROVE
           /\ store'[f] # NoDoc /\ store'[f].status # "failed"
           /\ requeue'[r] # f /\ (force[r] \/ f \in Workspace) => store'[f].status = "pending"
    <3>1. store'[f] = FirestoreUpsert(store[f], listing[r][f]) /\ store[f] \in Doc \cup {NoDoc}
      BY <1>7, <2>2, RegisterEffect DEF TypeInv, TypeOK
    <3>2. f \in Workspace => listing[r][f].checksum = NoChecksum
      BY <1>7 DEF Register, TypeInv, Listed
    <3> QED BY <1>7, <2>2, <3>1, <3>2, RegisterEffect, UpsertStatus
  <2>3. ASSUME ~failed'[r], NEW g \in Files, g \notin DOMAIN listing'[r], g # f
        PROVE  /\ store'[g] # NoDoc /\ store'[g].status # "failed"
               /\ force'[r] \/ g \in Workspace => store'[g].status = "pending"
    BY <1>7, <2>1, <2>3, RegisterEffect, PipelineAssumption DEF Queued
  <2>4. phase'[r] = "register" /\ force' = force
    BY <1>7, RegisterEffect
  <2> QED BY <2>2, <2>3, <2>4 DEF Queued
<1>8. ASSUME NEW r \in Runs, NEW f \in Files, PoolStep(r, f) PROVE Queued'
  <2>1. UNCHANGED <<phase, listing, requeue, force>> /\ phase[r] = "pool"
    BY <1>8, PoolKeeps DEF TypeInv, Tasks
  <2>2. ASSUME NEW x, NEW c, NEW n, Moves(r, f, x, c, n), store' = store,
               ~failed'[r] => ~failed[r]
        PROVE  Queued'
    BY <2>1, <2>2, TaskType DEF Moves, Becomes, Queued
  <2>3. CASE MarkDone(r, f) \/ MarkFailed(r, f)
    <3>1. Becomes(r, f, NoTask)
      BY <2>3, MarkEffect DEF MarkDone, MarkFailed
    <3>2. ~failed'[r] => store'[f] # NoDoc /\ store'[f].status = "done"
      BY <2>3, MarkRecord, StatusType, RepoAssumption
      DEF MarkFailed, Mark, At, TypeInv, Tasks
    <3> QED BY <2>1, <2>3, <3>1, <3>2, MarkRecord DEF Becomes, Queued
  <2>4. ~failed'[r] => ~failed[r]
    BY <1>8, PoolCases, MarkRecord DEF TypeInv, TypeOK
  <2> QED BY <1>8, <2>2, <2>3, <2>4, PoolCases
<1> QED
  BY <1>1, <1>2, <1>3, <1>4, <1>5, <1>6, <1>7, <1>8 DEF Next, RunStep, RunFile, PoolStep

-----------------------------------------------------------------------------
(* Runs that do not overlap: the loads *)

\* One more load, and there is still a newest one of every file.
LEMMA NewestAdded ==
    ASSUME NEW S \in SUBSET Load, NEW l \in Load, HasNewest(S)
    PROVE  HasNewest(S \cup {l})
<1> SUFFICES ASSUME NEW k \in S \cup {l}
             PROVE  \E n \in S \cup {l} : n.file = k.file
                       /\ \A m \in S \cup {l} : m.file = k.file => m.at <= n.at
  BY DEF HasNewest
<1>1. \A m \in S \cup {l} : m.at \in Nat
  BY DEF Load
<1>2. CASE k.file = l.file /\ \E m \in S : m.file = l.file
  <2>1. PICK n \in S : n.file = l.file /\ \A m \in S : m.file = l.file => m.at <= n.at
    BY <1>2 DEF HasNewest
  <2>2. CASE l.at <= n.at
    BY <1>2, <2>1, <2>2
  <2>3. CASE n.at <= l.at
    <3>1. \A m \in S \cup {l} : m.file = k.file => m.at <= l.at
      BY <1>1, <1>2, <2>1, <2>3
    <3> QED BY <1>2, <3>1
  <2> QED BY <1>1, <2>1, <2>2, <2>3
<1>3. CASE k.file = l.file /\ ~ \E m \in S : m.file = l.file
  <2>1. \A m \in S \cup {l} : m.file = k.file => m = l
    BY <1>3
  <2> QED BY <1>1, <1>3, <2>1
<1>4. CASE k.file # l.file
  <2>1. PICK n \in S : n.file = k.file /\ \A m \in S : m.file = k.file => m.at <= n.at
    BY <1>4 DEF HasNewest
  <2> QED BY <1>4, <2>1
<1> QED BY <1>2, <1>3, <1>4

\* The pool sends no load, and stamps no task.
Quiet ==
    \A s \in Runs, g \in Files : At(s, g, "chunks")' => task'[s][g] = task[s][g]

\* Steps that neither send a load nor stamp a task.
LEMMA QuietStamps ==
    ASSUME TypeInv, Stamps, Quiet, UNCHANGED <<loads, late, clock>>
    PROVE  Stamps'
BY DEF Stamps, Sent, At, Quiet

\* The load of a stamped task is sent: it may be committed, be under way, or be lost.
Sends(r, f) ==
    /\ loads' \in {loads, loads \cup {LoadOf(r, f)}}
    /\ late' \in {late, late \cup {LoadOf(r, f)}}
    /\ clock' = clock
    /\ ~At(r, f, "chunks")' /\ Quiet

\* A load that is sent keeps the timestamps apart.
LEMMA SentStamps ==
    ASSUME TypeInv, Stamps, NEW r \in Runs, NEW f \in Files, At(r, f, "chunks"), Sends(r, f),
           \A s \in Runs, g \in Files : g = f => s = r
    PROVE  Stamps'
<1> DEFINE l == LoadOf(r, f)
<1>1. l \in Load /\ l.file = f /\ l.at = task[r][f].at
  BY LoadType DEF LoadOf
<1>2. l.at <= clock /\ \A m \in Sent : m.file = f => m.at < l.at
  BY <1>1 DEF Stamps
<1> HIDE DEF l
<1>3. Sent' \subseteq Sent \cup {l} /\ Sent \subseteq Load /\ clock \in Nat
  BY DEF Sends, Sent, l, TypeInv, TypeOK
<1>4. \A k, m \in Sent \cup {l} : k.file = m.file /\ k.at = m.at => k = m
  <2> SUFFICES ASSUME NEW k \in Sent \cup {l}, NEW m \in Sent \cup {l},
                      k.file = m.file, k.at = m.at
               PROVE  k = m
    OBVIOUS
  <2>1. k.at \in Nat /\ m.at \in Nat
    BY <1>1, <1>3 DEF Load
  <2> QED BY <1>1, <1>2, <2>1 DEF Stamps
<1>5. \A k \in Sent' : k.at <= clock'
  BY <1>2, <1>3 DEF Stamps, Sends
<1>6. \A s \in Runs, g \in Files : At(s, g, "chunks")' =>
         task'[s][g] = task[s][g] /\ At(s, g, "chunks") /\ g # f
  BY DEF Sends, Quiet, At
<1>7. \A s \in Runs, g \in Files : At(s, g, "chunks")' =>
         /\ task'[s][g].at <= clock'
         /\ \A k \in Sent' : k.file = g => k.at < task'[s][g].at
  BY <1>1, <1>3, <1>6 DEF Stamps, Sends
<1>8. HasNewest(loads')
  BY <1>1, NewestAdded DEF Sends, Stamps, TypeInv, TypeOK, l
<1> QED BY <1>3, <1>4, <1>5, <1>7, <1>8 DEF Stamps

\* A task that moves on, or is over, is not stamped.
LEMMA QuietMoves ==
    ASSUME NEW r \in Runs, NEW f \in Files
    PROVE  /\ \A x, c, n : Moves(r, f, x, c, n) /\ x # "chunks" => Quiet /\ ~At(r, f, "chunks")'
           /\ Becomes(r, f, NoTask) => Quiet /\ ~At(r, f, "chunks")'
BY DEF Moves, Becomes, Quiet, At

\* The steps of the pool that neither stamp a task nor send its load.
LEMMA QuietPool ==
    ASSUME TypeInv, NEW r \in Runs, NEW f \in Files,
           \/ DownloadOk(r, f) \/ DownloadError(r, f) \/ MetadataOk(r, f)
           \/ MetadataError(r, f) \/ MarkDone(r, f) \/ MarkFailed(r, f)
    PROVE  Quiet /\ UNCHANGED <<loads, late, clock>>
<1> USE DEF TypeInv
<1>1. CASE DownloadOk(r, f)
  BY <1>1, QuietMoves, DownloadMoves DEF DownloadOk, bigquery
<1>2. CASE DownloadError(r, f) \/ MetadataError(r, f)
  BY <1>2, QuietMoves, FailMoves DEF DownloadError, MetadataError, At, bigquery
<1>3. CASE MetadataOk(r, f)
  BY <1>3, QuietMoves, AdvanceMoves DEF MetadataOk, At, Stage, bigquery
<1>4. CASE MarkDone(r, f) \/ MarkFailed(r, f)
  BY <1>4, QuietMoves, MarkEffect DEF MarkDone, MarkFailed, Mark, bigquery
<1> QED BY <1>1, <1>2, <1>3, <1>4

\* Whether or not the load went through, the task is no longer waiting for it.
LEMMA ChunksSend ==
    ASSUME TypeInv, NEW r \in Runs, NEW f \in Files, ChunksOk(r, f) \/ ChunksError(r, f)
    PROVE  At(r, f, "chunks") /\ Sends(r, f)
<1> USE DEF TypeInv
<1>1. CASE ChunksOk(r, f)
  BY <1>1, QuietMoves, AdvanceMoves DEF ChunksOk, At, Stage, Sends
<1>2. CASE ChunksError(r, f)
  <2>1. Quiet /\ ~At(r, f, "chunks")'
    BY <1>2, QuietMoves, FailMoves DEF ChunksError, At
  <2> QED BY <1>2, <2>1 DEF ChunksError, Sends, bigquery
<1> QED BY <1>1, <1>2

\* The steps outside the pool that leave the loads alone.
LEMMA QuietOutside ==
    ASSUME TypeInv,
           \/ \E f \in Files : EditDrive(f)
           \/ \E r \in Runs : StartRun(r) \/ Requeue(r) \/ StartPool(r) \/ FinishRun(r)
           \/ \E r \in Runs, f \in Files : Register(r, f)
    PROVE  Quiet /\ UNCHANGED <<loads, late, clock>>
<1> USE DEF TypeInv, TypeOK, Quiet, At
<1>1. CASE \E f \in Files : EditDrive(f)
  BY <1>1 DEF EditDrive, runVars, bigquery
<1>2. ASSUME NEW r \in Runs, StartRun(r) \/ Requeue(r)
      PROVE  Quiet /\ UNCHANGED <<loads, late, clock>>
  BY <1>2 DEF StartRun, Requeue, bigquery
<1>3. ASSUME NEW r \in Runs, FinishRun(r)
      PROVE  Quiet /\ UNCHANGED <<loads, late, clock>>
  BY <1>3 DEF FinishRun, Off, bigquery
<1>4. ASSUME NEW r \in Runs, StartPool(r)
      PROVE  Quiet /\ UNCHANGED <<loads, late, clock>>
  BY <1>4 DEF StartPool, Begin, bigquery
<1>5. ASSUME NEW r \in Runs, NEW f \in Files, Register(r, f)
      PROVE  Quiet /\ UNCHANGED <<loads, late, clock>>
  BY <1>5 DEF Register, bigquery
<1> QED BY <1>1, <1>2, <1>3, <1>4, <1>5

\* Every step keeps the timestamps of the loads apart.
LEMMA StepStamps ==
    ASSUME OneRun, TypeInv, Stamps, [Next]_vars
    PROVE  Stamps'
<1>1. CASE UNCHANGED vars
  BY <1>1, QuietStamps DEF vars, Quiet
<1>2. CASE \/ \E f \in Files : EditDrive(f)
           \/ \E r \in Runs : StartRun(r) \/ Requeue(r) \/ StartPool(r) \/ FinishRun(r)
           \/ \E r \in Runs, f \in Files : Register(r, f)
  BY <1>2, QuietOutside, QuietStamps
<1>3. CASE LateCommit
  <2>1. PICK l \in late : loads' = loads \cup {l} /\ late' = late \ {l}
    BY <1>3 DEF LateCommit
  <2>2. Sent' = Sent /\ UNCHANGED <<clock, task>>
    BY <1>3, <2>1 DEF LateCommit, Sent, runVars
  <2>3. HasNewest(loads')
    BY <2>1, NewestAdded DEF Stamps, TypeInv, TypeOK
  <2> QED BY <2>2, <2>3 DEF Stamps, At
<1>4. ASSUME NEW r \in Runs, StopRun(r) PROVE Stamps'
  <2>1. PICK S \in SUBSET {LoadOf(r, f) : f \in {g \in Files : At(r, g, "chunks")}} :
           late' = late \cup S
    BY <1>4 DEF StopRun
  <2>2. \A l \in S : \E f \in Files : At(r, f, "chunks") /\ l = LoadOf(r, f)
    BY <2>1
  <2>3. \A l \in S : l.at <= clock /\ \A m \in Sent : m.file = l.file => m.at < l.at
    BY <2>2 DEF Stamps, LoadOf
  <2>4. \A k, l \in S : k.file = l.file => k = l
    BY <2>2 DEF LoadOf
  <2>5. UNCHANGED <<loads, clock>> /\ \A s \in Runs, f \in Files : task'[s][f] = NoTask
    BY <1>4 DEF StopRun, Off, OneRun, TypeInv, TypeOK
  <2>6. Sent' = Sent \cup S
    BY <2>1, <2>5 DEF Sent
  <2>7. Sent \cup S \subseteq Load
    BY <2>2, LoadType DEF Sent, TypeInv, TypeOK
  <2>8. \A k, l \in Sent' : k.file = l.file /\ k.at = l.at => k = l
    <3> SUFFICES ASSUME NEW k \in Sent \cup S, NEW l \in Sent \cup S,
                        k.file = l.file, k.at = l.at
                 PROVE  k = l
      BY <2>6
    <3>1. k.at \in Nat /\ l.at \in Nat
      BY <2>7 DEF Load
    <3> QED BY <2>3, <2>4, <3>1 DEF Stamps
  <2>9. \A l \in Sent' : l.at <= clock'
    BY <2>3, <2>5, <2>6 DEF Stamps
  <2> QED BY <2>5, <2>8, <2>9 DEF Stamps, At
<1>5. ASSUME NEW r \in Runs, NEW f \in Files, PoolStep(r, f) PROVE Stamps'
  <2>1. CASE \/ DownloadOk(r, f) \/ DownloadError(r, f) \/ MetadataOk(r, f)
             \/ MetadataError(r, f) \/ MarkDone(r, f) \/ MarkFailed(r, f)
    BY <2>1, QuietPool, QuietStamps
  <2>2. CASE ChunksOk(r, f) \/ ChunksError(r, f)
    BY <2>2, ChunksSend, SentStamps DEF OneRun
  <2>3. CASE Stamp(r, f)
    <3>1. Moves(r, f, "chunks", task[r][f].content, clock + 1)
      BY <2>3, StampMoves DEF TypeInv
    <3>2. UNCHANGED <<loads, late>> /\ clock' = clock + 1
      BY <2>3 DEF Stamp, bigquery
    <3>3. \A l \in Sent : l.at \in Nat /\ l.at <= clock
      BY DEF Stamps, Sent, TypeInv, TypeOK, Load
    <3>4. \A s \in Runs, g \in Files : At(s, g, "chunks")' =>
             \/ task'[s][g].at = clock + 1
             \/ At(s, g, "chunks") /\ task'[s][g].at = task[s][g].at
      BY <3>1 DEF Moves, Becomes, At
    <3>5. \A s \in Runs, g \in Files : At(s, g, "chunks")' =>
             /\ task'[s][g].at <= clock'
             /\ \A l \in Sent' : l.file = g => l.at < task'[s][g].at
      <4> SUFFICES ASSUME NEW s \in Runs, NEW g \in Files, At(s, g, "chunks")'
                   PROVE  /\ task'[s][g].at <= clock'
                          /\ \A l \in Sent' : l.file = g => l.at < task'[s][g].at
        OBVIOUS
      <4>1. CASE task'[s][g].at = clock + 1
        BY <3>2, <3>3, <4>1 DEF Sent, TypeInv, TypeOK
      <4>2. CASE At(s, g, "chunks") /\ task'[s][g].at = task[s][g].at
        <5>1. task[s][g].at \in Nat /\ clock \in Nat
          BY <4>2, TaskType DEF At, TypeInv, TypeOK
        <5> QED BY <3>2, <4>2, <5>1 DEF Stamps, Sent
      <4> QED BY <3>4, <4>1, <4>2
    <3>6. \A l \in Sent' : l.at <= clock'
      BY <3>2, <3>3 DEF Sent, TypeInv, TypeOK
    <3> QED BY <3>2, <3>5, <3>6 DEF Stamps, Sent
  <2> QED BY <1>5, <2>1, <2>2, <2>3 DEF PoolStep
<1> QED
  BY <1>1, <1>2, <1>3, <1>4, <1>5 DEF Next, RunStep, RunFile, PoolStep

-----------------------------------------------------------------------------
(* Runs that do not overlap: what was delivered *)

\* A delivery lasts as long as its record is not registered anew and no load of the
\* file is sent.
LEMMA DeliveredKept ==
    ASSUME NEW f \in Markdown, Delivered(f),
           store'[f].path = store[f].path, store'[f].checksum = store[f].checksum,
           loads \subseteq loads', \A l \in Sent' : l.file = f => l \in Sent
    PROVE  Delivered(f)'
BY DEF Delivered, Newest

\* A step that changes neither records nor loads, and takes no task further.
LEMMA SettledKept ==
    ASSUME Settled, store' = store, loads \subseteq loads', Sent' = Sent,
           \A s \in Runs, g \in Files : task'[s][g] # task[s][g] =>
               ~At(s, g, "metadata")' /\ ~At(s, g, "mark_done")'
    PROVE  Settled'
<1> SUFFICES ASSUME NEW g \in Markdown, (Done(g) \/ Loaded(g))' PROVE Delivered(g)'
  BY DEF Settled
<1>1. Done(g) \/ Loaded(g)
  BY PipelineAssumption DEF Done, Loaded, At
<1> QED BY <1>1, DeliveredKept DEF Settled

\* Every load that a step of the pool on f sends is of f.
LEMMA PoolSends ==
    ASSUME TypeInv, NEW r \in Runs, NEW f \in Files, PoolStep(r, f)
    PROVE  loads \subseteq loads' /\ \A l \in Sent' : l.file # f => l \in Sent
<1>1. CASE \/ DownloadOk(r, f) \/ DownloadError(r, f) \/ MetadataOk(r, f)
           \/ MetadataError(r, f) \/ MarkDone(r, f) \/ MarkFailed(r, f)
  BY <1>1, QuietPool DEF Sent
<1>2. CASE ChunksOk(r, f) \/ ChunksError(r, f)
  BY <1>2, ChunksSend DEF Sends, Sent, LoadOf
<1>3. CASE Stamp(r, f)
  BY <1>3 DEF Stamp, bigquery, Sent
<1> QED BY <1>1, <1>2, <1>3 DEF PoolStep

\* What the pool does for f does not concern the other files.
LEMMA PoolOthers ==
    ASSUME TypeInv, NEW r \in Runs, NEW f \in Files, PoolStep(r, f)
    PROVE  \A g \in Files : g # f =>
              store'[g] = store[g] /\ \A s \in Runs : task'[s][g] = task[s][g]
<1>1. CASE store' = store
  <2>1. \/ \E x, c, n : Moves(r, f, x, c, n)
        \/ Becomes(r, f, NoTask)
    BY PoolCases
  <2>2. \A s \in Runs, g \in Files : g # f => task'[s][g] = task[s][g]
    BY <2>1 DEF Moves, Becomes
  <2> QED BY <1>1, <2>2
<1>2. CASE MarkDone(r, f) \/ MarkFailed(r, f)
  BY <1>2, MarkRecord, MarkEffect DEF MarkDone, MarkFailed, Becomes
<1> QED BY <1>1, <1>2, PoolCases

\* A successful load delivers the file.
LEMMA ChunksDeliver ==
    ASSUME TypeInv, Owned, Stamps, ~Revert => Growing,
           NEW r \in Runs, NEW f \in Files, ChunksOk(r, f)
    PROVE  Delivered(f)'
<1> DEFINE l == LoadOf(r, f)
<1>1. /\ loads' = loads \cup {l} /\ UNCHANGED <<late, store>> /\ At(r, f, "chunks")
      /\ f \in Markdown
  BY DEF ChunksOk, TypeInv, Tasks, At
<1>2. /\ l.file = f /\ l.name = store[f].path /\ l.version = task[r][f].content
      /\ l.at = task[r][f].at /\ l \in Load
  BY <1>1, LoadType DEF LoadOf, Owned, At
<1> HIDE DEF l
<1>3. \A m \in Sent : m.file = f => m.at < l.at
  BY <1>1, <1>2 DEF Stamps
<1>4. \A m \in Sent' : m.file = f => m.at <= l.at
  <2>1. Sent' = Sent \cup {l} /\ Sent \subseteq Load
    BY <1>1 DEF Sent, TypeInv, TypeOK
  <2> QED BY <1>2, <1>3, <2>1 DEF Load
<1>5. ~Revert => store[f].checksum <= l.version
  BY <1>1, <1>2 DEF Growing, GrowingTasks, Holds
<1> QED BY <1>1, <1>2, <1>4, <1>5 DEF Delivered, Newest

\* A file is done only if it was delivered, at every step.
LEMMA StepSettled ==
    ASSUME OneRun, TypeInv, TypeInv', Owned, Owned', Stamps, ~Revert => Growing, Settled,
           [Next]_vars
    PROVE  Settled'
<1> USE PipelineAssumption
<1>1. CASE UNCHANGED vars
  BY <1>1, SettledKept DEF vars, Sent
<1>2. CASE (\E f \in Files : EditDrive(f)) \/ LateCommit
  BY <1>2, SettledKept DEF EditDrive, LateCommit, runVars, bigquery, Sent
<1>3. ASSUME NEW r \in Runs, StartRun(r) PROVE Settled'
  BY <1>3, SettledKept DEF StartRun, bigquery, Sent
<1>4. ASSUME NEW r \in Runs, StartPool(r) PROVE Settled'
  <2>1. UNCHANGED <<store, loads, late>>
    BY <1>4 DEF StartPool, Begin, bigquery
  <2>2. \A s \in Runs, g \in Files : ~At(s, g, "metadata")' /\ ~At(s, g, "mark_done")'
    BY <1>4 DEF StartPool, Begin, OneRun, At, TypeInv, TypeOK
  <2> QED BY <2>1, <2>2, SettledKept DEF Sent
<1>5. ASSUME NEW r \in Runs, FinishRun(r) PROVE Settled'
  <2>1. UNCHANGED <<store, loads, late>>
    BY <1>5 DEF FinishRun, bigquery
  <2>2. \A s \in Runs, g \in Files : ~At(s, g, "metadata")' /\ ~At(s, g, "mark_done")'
    BY <1>5 DEF FinishRun, Off, OneRun, At, TypeInv, TypeOK
  <2> QED BY <2>1, <2>2, SettledKept DEF Sent
<1>6. ASSUME NEW r \in Runs, StopRun(r) PROVE Settled'
  <2>1. UNCHANGED <<store, loads>> /\ late \subseteq late'
        /\ \A l \in late' : l \in late \/ \E g \in Files : At(r, g, "chunks") /\ l.file = g
    BY <1>6 DEF StopRun, LoadOf
  <2>2. \A s \in Runs, g \in Files : ~At(s, g, "metadata")' /\ ~At(s, g, "mark_done")'
    BY <1>6 DEF StopRun, Off, OneRun, At, TypeInv, TypeOK
  <2> SUFFICES ASSUME NEW g \in Markdown, Done(g) PROVE Delivered(g)'
    BY <2>1, <2>2 DEF Settled, Done, Loaded
  <2>3. ~At(r, g, "chunks")
    BY DEF Done, Owned, At
  <2>4. \A l \in Sent' : l.file = g => l \in Sent
    BY <2>1, <2>3 DEF Sent
  <2> QED BY <2>1, <2>4, DeliveredKept DEF Settled
<1>7. ASSUME NEW r \in Runs, Requeue(r) PROVE Settled'
  <2>1. \A s \in Runs, g \in Files : task'[s][g] = task[s][g]
    BY <1>7, RequeueEffect
  <2> SUFFICES ASSUME NEW g \in Markdown, (Done(g) \/ Loaded(g))' PROVE Delivered(g)'
    BY DEF Settled
  <2>2. store'[g] = store[g]
    <3>1. ~Loaded(g)'
      BY <1>7, RequeueEffect DEF Loaded, At, TypeInv, Tasks, OneRun
    <3> QED BY <1>7, <3>1, RequeueEffect, StatusType DEF Done
  <2> QED BY <1>7, <2>1, <2>2, RequeueEffect, DeliveredKept
          DEF Settled, Done, Loaded, At, Sent
<1>8. ASSUME NEW r \in Runs, NEW f \in Files, Register(r, f) PROVE Settled'
  <2>1. \A s \in Runs, g \in Files : task'[s][g] = task[s][g] /\ task[s][g] = NoTask
    BY <1>8, RegisterEffect DEF TypeInv, Tasks, OneRun
  <2> SUFFICES ASSUME NEW g \in Markdown, Done(g)' PROVE Delivered(g)'
    BY <2>1 DEF Settled, Loaded, At
  <2>2. store'[g] = store[g]
    <3> DEFINE doc == FirestoreUpsert(store[f], listing[r][f])
    <3>1. store[f] \in Doc \cup {NoDoc} /\ listing[r][f] \in Listing
      BY <1>8, RegisterEffect DEF TypeInv, TypeOK
    <3>2. doc.status = "done" => doc = store[f]
      BY <3>1, UpsertStatus
    <3>3. /\ g # f => store'[g] = store[g]
          /\ store'[f] \in {doc, store[f]}
      BY <1>8, RegisterEffect
    <3> HIDE DEF doc
    <3> QED BY <3>2, <3>3 DEF Done
  <2> QED BY <1>8, <2>2, RegisterEffect, DeliveredKept DEF Settled, Done, Sent
<1>9. ASSUME NEW r \in Runs, NEW f \in Files, PoolStep(r, f) PROVE Settled'
  <2> SUFFICES ASSUME NEW g \in Markdown, (Done(g) \/ Loaded(g))' PROVE Delivered(g)'
    BY DEF Settled
  <2>1. CASE g # f
    BY <1>9, <2>1, PoolSends, PoolOthers, DeliveredKept
    DEF Settled, Done, Loaded, At
  <2>2. CASE g = f /\ store' = store
    <3>1. ~Done(g) /\ ~Done(g)'
      BY <1>9, <2>2, PoolKeeps DEF Owned, Done
    <3>2. CASE ChunksOk(r, f)
      BY <2>2, <3>2, ChunksDeliver
    <3>3. CASE MetadataOk(r, f)
      <4>1. Loaded(g)
        BY <2>2, <3>3 DEF MetadataOk, Loaded
      <4> QED BY <2>2, <3>3, <4>1, DeliveredKept DEF Settled, MetadataOk, bigquery, Sent
    <3>4. ASSUME NEW x, NEW c, NEW n, Moves(r, f, x, c, n), x \notin {"metadata", "mark_done"}
          PROVE  FALSE
      BY <2>2, <3>1, <3>4 DEF Moves, Becomes, Loaded, At, OneRun
    <3>5. CASE DownloadOk(r, f) \/ Stamp(r, f)
      BY <2>2, <3>4, <3>5, DownloadMoves, StampMoves DEF TypeInv
    <3>6. ASSUME Becomes(r, f, NoTask) PROVE FALSE
      BY <2>2, <3>1, <3>6 DEF Becomes, Loaded, At, OneRun
    <3> QED BY <1>9, <3>2, <3>3, <3>4, <3>5, <3>6, PoolCases
  <2>3. CASE g = f /\ (MarkDone(r, f) \/ MarkFailed(r, f))
    <3>1. Becomes(r, f, NoTask) /\ UNCHANGED <<loads, late>>
      BY <2>3, MarkEffect, QuietPool DEF MarkDone, MarkFailed
    <3>2. Done(g)'
      BY <2>3, <3>1 DEF Becomes, Loaded, At, OneRun
    <3>3. MarkDone(r, f)
      BY <2>3, <3>2, MarkRecord, StatusType DEF Done, Owned, MarkFailed, Mark, At
    <3>4. Loaded(g)
      BY <2>3, <3>3 DEF MarkDone, Mark, Loaded
    <3>5. store'[g].path = store[g].path /\ store'[g].checksum = store[g].checksum
      BY <2>3, MarkRecord, StatusType
    <3> QED BY <3>1, <3>4, <3>5, DeliveredKept DEF Settled, Sent
  <2> QED BY <1>9, <2>1, <2>2, <2>3, PoolCases
<1> QED
  BY <1>1, <1>2, <1>3, <1>4, <1>5, <1>6, <1>7, <1>8, <1>9
  DEF Next, RunStep, RunFile, PoolStep

-----------------------------------------------------------------------------
(* Where a step takes what it writes from *)

\* No committed load is lost, and a new load is that of a stamped task.
LEMMA SentSource ==
    ASSUME TypeInv, [Next]_vars
    PROVE  /\ loads \subseteq loads'
           /\ \A l \in Sent' : \/ l \in Sent
                               \/ \E s \in Runs, g \in Files :
                                     At(s, g, "chunks") /\ l = LoadOf(s, g)
<1>1. CASE UNCHANGED vars
  BY <1>1 DEF vars, Sent
<1>2. CASE \/ \E f \in Files : EditDrive(f)
           \/ \E r \in Runs : StartRun(r) \/ Requeue(r) \/ StartPool(r) \/ FinishRun(r)
           \/ \E r \in Runs, f \in Files : Register(r, f)
  BY <1>2, QuietOutside DEF Sent
<1>3. CASE LateCommit
  BY <1>3 DEF LateCommit, Sent
<1>4. ASSUME NEW r \in Runs, StopRun(r)
      PROVE  /\ loads' = loads
             /\ \A l \in late' : l \in late \/ \E g \in Files : At(r, g, "chunks")
                                                       /\ l = LoadOf(r, g)
  BY <1>4 DEF StopRun
<1>5. ASSUME NEW r \in Runs, NEW f \in Files, PoolStep(r, f)
      PROVE  /\ loads \subseteq loads'
             /\ \A l \in Sent' : l \in Sent \/ (At(r, f, "chunks") /\ l = LoadOf(r, f))
  <2>1. CASE \/ DownloadOk(r, f) \/ DownloadError(r, f) \/ MetadataOk(r, f)
             \/ MetadataError(r, f) \/ MarkDone(r, f) \/ MarkFailed(r, f)
    BY <2>1, QuietPool DEF Sent
  <2>2. CASE ChunksOk(r, f) \/ ChunksError(r, f)
    BY <2>2, ChunksSend DEF Sends, Sent
  <2>3. CASE Stamp(r, f)
    BY <2>3 DEF Stamp, bigquery, Sent
  <2> QED BY <1>5, <2>1, <2>2, <2>3 DEF PoolStep
<1>6. CASE \E r \in Runs : StopRun(r)
  BY <1>4, <1>6 DEF Sent
<1>7. CASE \E r \in Runs, f \in Files : PoolStep(r, f)
  BY <1>5, <1>7
<1> QED
  BY <1>1, <1>2, <1>3, <1>6, <1>7 DEF Next, RunStep, RunFile, PoolStep

\* What Drive has of a file is edited, or stays.
LEMMA DriveSource ==
    ASSUME TypeInv, [Next]_vars
    PROVE  \/ \E f \in Files : EditDrive(f)
           \/ drive' = drive
<1>1. ASSUME NEW r \in Runs, NEW f \in Files, PoolStep(r, f) \/ Register(r, f)
      PROVE  drive' = drive
  BY <1>1, PoolKeeps DEF Register
<1>2. ASSUME NEW r \in Runs, \/ StartRun(r) \/ StopRun(r) \/ Requeue(r) \/ StartPool(r)
                             \/ FinishRun(r)
      PROVE  drive' = drive
  BY <1>2 DEF StartRun, StopRun, Requeue, StartPool, Begin, FinishRun
<1>3. CASE UNCHANGED vars \/ LateCommit
  BY <1>3 DEF vars, LateCommit
<1> QED
  BY <1>1, <1>2, <1>3 DEF Next, RunStep, RunFile, PoolStep

\* A registered name and checksum come from a listing, and a new status leaves them alone.
LEMMA RecordSource ==
    ASSUME TypeInv, [Next]_vars, NEW g \in Files
    PROVE  \/ store'[g] = store[g]
           \/ /\ store[g] # NoDoc /\ store'[g] # NoDoc
              /\ store'[g].path = store[g].path /\ store'[g].checksum = store[g].checksum
           \/ \E r \in Runs : /\ g \in DOMAIN listing[r] /\ store'[g] # NoDoc
                              /\ store'[g].path = listing[r][g].path
                              /\ store'[g].checksum = listing[r][g].checksum
<1>1. CASE UNCHANGED vars
  BY <1>1 DEF vars
<1>2. ASSUME NEW r \in Runs, Requeue(r)
      PROVE  \/ store'[g] = store[g]
             \/ /\ store[g] # NoDoc /\ store'[g] # NoDoc
                /\ store'[g].path = store[g].path /\ store'[g].checksum = store[g].checksum
  BY <1>2, RequeueEffect, StatusType, RepoAssumption
<1>3. ASSUME NEW r \in Runs, NEW f \in Files, Register(r, f)
      PROVE  \/ store'[g] = store[g]
             \/ /\ g \in DOMAIN listing[r] /\ store'[g] # NoDoc
                /\ store'[g].path = listing[r][g].path
                /\ store'[g].checksum = listing[r][g].checksum
  <2>1. store[f] \in Doc \cup {NoDoc} /\ listing[r][f] \in Listing
    BY <1>3, RegisterEffect DEF TypeInv, TypeOK
  <2> DEFINE doc == FirestoreUpsert(store[f], listing[r][f])
  <2>2. doc # NoDoc /\ doc.path = listing[r][f].path /\ doc.checksum = listing[r][f].checksum
    BY <2>1, UpsertStatus
  <2>3. /\ g # f => store'[g] = store[g]
        /\ store'[f] \in {doc, store[f]}
        /\ f \in DOMAIN listing[r]
    BY <1>3, RegisterEffect
  <2> HIDE DEF doc
  <2> QED BY <2>2, <2>3
<1>4. ASSUME NEW r \in Runs, NEW f \in Files, PoolStep(r, f)
      PROVE  \/ store'[g] = store[g]
             \/ /\ store[g] # NoDoc /\ store'[g] # NoDoc
                /\ store'[g].path = store[g].path /\ store'[g].checksum = store[g].checksum
  <2>1. CASE MarkDone(r, f) \/ MarkFailed(r, f)
    BY <2>1, MarkRecord, StatusType, RepoAssumption
  <2> QED BY <1>4, <2>1, PoolCases
<1>5. CASE \/ \E f \in Files : EditDrive(f)
           \/ LateCommit
           \/ \E r \in Runs : StartRun(r) \/ StartPool(r) \/ FinishRun(r) \/ StopRun(r)
  BY <1>5 DEF EditDrive, LateCommit, StartRun, StartPool, Begin, FinishRun, StopRun, runVars
<1> QED
  BY <1>1, <1>2, <1>3, <1>4, <1>5 DEF Next, RunStep, RunFile, PoolStep

\* A listing is what Drive says when the run starts, and is only worked off later.
LEMMA ListingSource ==
    ASSUME TypeInv, [Next]_vars, NEW r \in Runs, NEW g \in DOMAIN listing'[r]
    PROVE  \/ g \in DOMAIN listing[r] /\ listing'[r][g] = listing[r][g]
           \/ g \in Files /\ listing'[r][g] = ListingOf(g) /\ StartRun(r)
<1> USE DEF TypeInv, TypeOK
<1>1. CASE UNCHANGED listing
  BY <1>1
<1>2. ASSUME NEW s \in Runs, FinishRun(s) \/ StopRun(s)
      PROVE  g \in DOMAIN listing[r] /\ listing'[r][g] = listing[r][g]
  BY <1>2, WholeListing DEF FinishRun, StopRun, Off
<1>3. ASSUME NEW s \in Runs, StartRun(s)
      PROVE  \/ g \in DOMAIN listing[r] /\ listing'[r][g] = listing[r][g]
             \/ g \in Files /\ listing'[r][g] = ListingOf(g) /\ StartRun(r)
  BY <1>3 DEF StartRun
<1>4. ASSUME NEW s \in Runs, NEW f \in Files, Register(s, f)
      PROVE  g \in DOMAIN listing[r] /\ listing'[r][g] = listing[r][g]
  <2>1. CASE s = r
    BY <1>4, <2>1, RegisterEffect
  <2>2. CASE s # r
    BY <1>4, <2>2 DEF Register
  <2> QED BY <2>1, <2>2
<1>5. ASSUME NEW s \in Runs, NEW f \in Files, PoolStep(s, f) PROVE UNCHANGED listing
  BY <1>5, PoolKeeps
<1>6. CASE \/ UNCHANGED vars \/ LateCommit
           \/ \E f \in Files : EditDrive(f)
           \/ \E s \in Runs : Requeue(s) \/ StartPool(s)
  BY <1>1, <1>6 DEF vars, LateCommit, EditDrive, Requeue, StartPool, Begin, runVars
<1> QED
  BY <1>1, <1>2, <1>3, <1>4, <1>5, <1>6 DEF Next, RunStep, RunFile, PoolStep

\* A content that the pool holds was downloaded, and no load of the file was sent since.
LEMMA TaskSource ==
    ASSUME OneRun, TypeInv, [Next]_vars, NEW r \in Runs, NEW g \in Files, Holds(r, g)'
    PROVE  /\ task[r][g] # NoTask /\ task'[r][g].doc = task[r][g].doc
           /\ \A l \in Sent' : l.file = g => l \in Sent
           /\ \/ Holds(r, g) /\ task'[r][g].content = task[r][g].content
              \/ task'[r][g].content = drive[g].content /\ drive' = drive
<1> USE DEF TypeInv, Holds, At, OneRun
<1>1. CASE UNCHANGED <<task, loads, late>>
  BY <1>1 DEF Sent
<1>2. CASE LateCommit
  BY <1>2 DEF LateCommit, runVars, Sent
<1>3. ASSUME NEW s \in Runs, FinishRun(s) \/ StopRun(s) \/ StartPool(s) PROVE FALSE
  BY <1>3 DEF FinishRun, StopRun, StartPool, Begin, Off, TypeOK
<1>4. ASSUME NEW f \in Files, PoolStep(r, f), g # f
      PROVE  /\ task[r][g] # NoTask /\ task'[r][g] = task[r][g]
             /\ \A l \in Sent' : l.file = g => l \in Sent
  BY <1>4, PoolOthers, PoolSends
<1>5. ASSUME DownloadOk(r, g)
      PROVE  /\ task[r][g] # NoTask /\ task'[r][g].doc = task[r][g].doc
             /\ Sent' = Sent
             /\ task'[r][g].content = drive[g].content /\ drive' = drive
  <2>1. /\ task[r][g] # NoTask /\ Sent' = Sent /\ drive' = drive
    BY <1>5 DEF DownloadOk, bigquery, poolFrame, Sent
  <2>2. PICK x : Moves(r, g, x, drive[g].content, task[r][g].at)
    BY <1>5, DownloadMoves
  <2>3. task'[r][g] = [stage |-> x, doc |-> task[r][g].doc, content |-> drive[g].content,
                       at |-> task[r][g].at]
    BY <2>2 DEF Moves, Becomes
  <2> QED BY <2>1, <2>3
<1>6. ASSUME Stamp(r, g)
      PROVE  /\ Holds(r, g) /\ task'[r][g].doc = task[r][g].doc
             /\ Sent' = Sent
             /\ task'[r][g].content = task[r][g].content
  <2>1. /\ Holds(r, g) /\ Sent' = Sent
    BY <1>6 DEF Stamp, bigquery, Sent
  <2>2. Moves(r, g, "chunks", task[r][g].content, clock + 1)
    BY <1>6, StampMoves
  <2>3. task'[r][g] = [stage |-> "chunks", doc |-> task[r][g].doc,
                       content |-> task[r][g].content, at |-> clock + 1]
    BY <2>2 DEF Moves, Becomes
  <2> QED BY <2>1, <2>3
<1>7. ASSUME PoolStep(r, g), ~DownloadOk(r, g), ~Stamp(r, g) PROVE FALSE
  <2>1. ASSUME NEW x, NEW c, NEW n, Moves(r, g, x, c, n), x \notin {"got", "chunks"}
        PROVE  FALSE
    <3>1. task'[r][g] = [stage |-> x, doc |-> task[r][g].doc, content |-> c, at |-> n]
      BY <2>1 DEF Moves, Becomes
    <3> QED BY <2>1, <3>1
  <2>2. CASE ChunksOk(r, g) \/ MetadataOk(r, g)
    <3>1. \E x \in {"metadata", "mark_done"} : Advance(r, g, x)
      BY <2>2 DEF ChunksOk, MetadataOk
    <3>2. {"metadata", "mark_done"} \subseteq Stage /\ task[r][g] # NoTask
      BY <1>7, PoolKeeps DEF Stage
    <3> QED BY <2>1, <3>1, <3>2, AdvanceMoves
  <2>3. ASSUME Becomes(r, g, NoTask) PROVE FALSE
    BY <2>3 DEF Becomes
  <2> QED BY <1>7, <2>1, <2>2, <2>3, PoolCases
<1>8. CASE \E f \in Files : PoolStep(r, f)
  BY <1>4, <1>5, <1>6, <1>7, <1>8
<1>9. CASE \/ UNCHANGED vars
           \/ \E f \in Files : EditDrive(f)
           \/ \E s \in Runs : StartRun(s) \/ Requeue(s)
           \/ \E s \in Runs, f \in Files : Register(s, f)
  BY <1>1, <1>9 DEF vars, EditDrive, StartRun, Requeue, Register, runVars, bigquery
<1> QED
  BY <1>2, <1>3, <1>8, <1>9 DEF Next, RunStep, RunFile, PoolStep

\* In Drive, contents only grow.
LEMMA DriveGrows ==
    ASSUME ~Revert, TypeInv, TypeInv', [Next]_vars, NEW g \in Files
    PROVE  /\ drive[g].content \in Nat /\ drive'[g].content \in Nat
           /\ drive[g].content <= drive'[g].content
<1>1. drive[g].content \in Nat /\ drive'[g].content \in Nat
  BY PipelineAssumption DEF TypeInv, TypeOK, DriveFile
<1>2. CASE drive' = drive
  BY <1>1, <1>2
<1>3. CASE \E f \in Files : EditDrive(f)
  BY <1>1, <1>3 DEF EditDrive, TypeInv, TypeOK
<1> QED BY <1>1, <1>2, <1>3, DriveSource

\* So do the versions of the loads, ...
LEMMA StepGrowingLoads ==
    ASSUME OneRun, ~Revert, TypeInv, TypeInv', Stamps, Growing, [Next]_vars
    PROVE  GrowingLoads'
<1>1. \A l \in Sent : l.file \in Markdown /\ l.at \in Nat /\ l.version \in Nat
  BY PipelineAssumption DEF Sent, Load, TypeInv, TypeOK
<1>2. ASSUME NEW s \in Runs, NEW g \in Files, At(s, g, "chunks")
      PROVE  /\ g \in Markdown /\ LoadOf(s, g).file = g /\ LoadOf(s, g).at \in Nat
             /\ LoadOf(s, g).version \in Nat
             /\ LoadOf(s, g).version <= drive[g].content
             /\ \A l \in Sent : l.file = g =>
                   l.at < LoadOf(s, g).at /\ l.version <= LoadOf(s, g).version
  <2>1. LoadOf(s, g) \in Load /\ g \in Markdown
    BY <1>2, LoadType DEF TypeInv, Tasks, At
  <2>2. LoadOf(s, g).at = task[s][g].at /\ LoadOf(s, g).version = task[s][g].content
    BY DEF LoadOf
  <2> QED
    BY <1>2, <2>1, <2>2, PipelineAssumption
    DEF Load, LoadOf, Stamps, Growing, GrowingTasks, Holds
<1>3. ASSUME NEW l \in Sent' PROVE l.version <= drive'[l.file].content
  <2>1. CASE l \in Sent
    BY <1>1, <2>1, DriveGrows, PipelineAssumption DEF Growing, GrowingLoads
  <2>2. CASE \E s \in Runs, g \in Files : At(s, g, "chunks") /\ l = LoadOf(s, g)
    BY <1>2, <2>2, DriveGrows
  <2> QED BY <2>1, <2>2, SentSource
<1>4. ASSUME NEW l \in Sent', NEW m \in Sent', l.file = m.file, l.at < m.at
      PROVE  l.version <= m.version
  <2>1. CASE l \in Sent /\ m \in Sent
    BY <1>4, <2>1 DEF Growing, GrowingLoads
  <2>2. CASE l \in Sent /\ \E s \in Runs, g \in Files : At(s, g, "chunks") /\ m = LoadOf(s, g)
    BY <1>2, <1>4, <2>2
  <2>3. CASE m \in Sent /\ \E s \in Runs, g \in Files : At(s, g, "chunks") /\ l = LoadOf(s, g)
    BY <1>1, <1>2, <1>4, <2>3
  <2>4. CASE /\ \E s \in Runs, g \in Files : At(s, g, "chunks") /\ l = LoadOf(s, g)
             /\ \E s \in Runs, g \in Files : At(s, g, "chunks") /\ m = LoadOf(s, g)
    <3>1. l = m
      BY <1>2, <1>4, <2>4 DEF OneRun
    <3> QED BY <1>2, <2>4, <3>1
  <2> QED BY <2>1, <2>2, <2>3, <2>4, SentSource
<1> QED BY <1>3, <1>4 DEF GrowingLoads

\* ... the registered checksums, ...
LEMMA StepGrowingRecords ==
    ASSUME ~Revert, TypeInv, TypeInv', Growing, [Next]_vars
    PROVE  GrowingRecords'
<1>4. \A f \in Markdown : /\ f \in Files
                          /\ drive[f].content \in Nat /\ drive'[f].content \in Nat
                          /\ drive[f].content <= drive'[f].content
  BY DriveGrows, PipelineAssumption
<1>5. Checksums \subseteq Nat
  BY PipelineAssumption
<1>1. ASSUME NEW f \in Markdown, NEW r \in Runs, f \in DOMAIN listing[r]
      PROVE  listing[r][f].checksum \in Checksums /\ listing[r][f].checksum <= drive[f].content
  <2>1. listing[r][f] \in Listing
    BY <1>1, ListingShrinks DEF TypeInv, TypeOK
  <2> QED
    BY <1>1, <2>1, PipelineAssumption, RepoAssumption
    DEF TypeInv, Listed, Listing, Growing, GrowingRecords
<1>2. ASSUME NEW f \in Markdown, store'[f] # NoDoc
      PROVE  store'[f].checksum \in Checksums /\ store'[f].checksum <= drive'[f].content
  <2>1. store'[f].checksum \in Checksums /\ store'[f].checksum <= drive[f].content
    BY <1>1, <1>2, RecordSource, PipelineAssumption DEF Growing, GrowingRecords
  <2>2. store'[f].checksum \in Nat
    BY <1>5, <2>1
  <2>3. /\ drive[f].content \in Nat /\ drive'[f].content \in Nat
        /\ drive[f].content <= drive'[f].content
    BY <1>4
  <2> QED BY <2>1, <2>2, <2>3
<1>3. ASSUME NEW f \in Markdown, NEW r \in Runs, f \in DOMAIN listing'[r]
      PROVE  listing'[r][f].checksum <= drive'[f].content
  <2>1. CASE f \in DOMAIN listing[r] /\ listing'[r][f] = listing[r][f]
    <3>1. listing[r][f].checksum \in Nat /\ listing[r][f].checksum <= drive[f].content
      BY <1>1, <1>5, <2>1
    <3>2. /\ drive[f].content \in Nat /\ drive'[f].content \in Nat
          /\ drive[f].content <= drive'[f].content
      BY <1>4
    <3> QED BY <2>1, <3>1, <3>2
  <2>2. CASE listing'[r][f] = ListingOf(f)
    BY <2>2, DriveGrows, PipelineAssumption DEF ListingOf
  <2> QED BY <1>3, <2>1, <2>2, ListingSource
<1> QED BY <1>2, <1>3 DEF GrowingRecords

\* ... and the contents that the pool holds.
LEMMA StepGrowingTasks ==
    ASSUME OneRun, ~Revert, TypeInv, TypeInv', Owned, Owned', Growing, [Next]_vars
    PROVE  GrowingTasks'
<1> SUFFICES ASSUME NEW r \in Runs, NEW f \in Markdown, Holds(r, f)'
             PROVE  /\ task'[r][f].content <= drive'[f].content
                    /\ store'[f].checksum <= task'[r][f].content
                    /\ \A l \in Sent' : l.file = f => l.version <= task'[r][f].content
  BY DEF GrowingTasks
<1> f \in Files
  BY PipelineAssumption
<1>1. /\ task[r][f] # NoTask
      /\ \A l \in Sent' : l.file = f => l \in Sent
  BY TaskSource
<1>2. store'[f] = store[f] /\ store[f] # NoDoc
  BY <1>1, TaskSource DEF Owned, TypeInv, Tasks, Holds, At
<1>3. CASE Holds(r, f) /\ task'[r][f].content = task[r][f].content
  <2>1. task[r][f].content \in Nat
    <3>1. task[r][f] \in Task
      BY <1>1 DEF TypeInv, TypeOK
    <3> QED BY <3>1, TaskType, PipelineAssumption
  <2> QED BY <1>1, <1>2, <1>3, <2>1, DriveGrows DEF Growing, GrowingTasks
<1>4. CASE task'[r][f].content = drive[f].content /\ drive' = drive
  BY <1>1, <1>2, <1>4, DriveGrows DEF Growing, GrowingLoads, GrowingRecords
<1> QED BY <1>3, <1>4, TaskSource

\* All three grow together.
LEMMA StepGrowing ==
    ASSUME OneRun, ~Revert, TypeInv, TypeInv', Owned, Owned', Stamps, Growing, [Next]_vars
    PROVE  Growing'
BY StepGrowingLoads, StepGrowingRecords, StepGrowingTasks DEF Growing

-----------------------------------------------------------------------------
(* Runs that do not overlap: reprocessing *)

\* A task was there before, under the same setting, or the pool just took it.
LEMMA TaskPolicy ==
    ASSUME TypeInv, [Next]_vars, NEW r \in Runs, NEW f \in Files, task'[r][f] # NoTask
    PROVE  \/ task[r][f] # NoTask /\ policy'[r] = policy[r]
           \/ StartPool(r)
<1> USE DEF TypeInv, TypeOK
<1>1. CASE \/ UNCHANGED vars \/ LateCommit
           \/ \E g \in Files : EditDrive(g)
           \/ \E s \in Runs : StartRun(s) \/ Requeue(s)
           \/ \E s \in Runs, g \in Files : Register(s, g)
  BY <1>1 DEF vars, LateCommit, EditDrive, StartRun, Requeue, Register, runVars
<1>2. ASSUME NEW s \in Runs, FinishRun(s) \/ StopRun(s)
      PROVE  task[r][f] # NoTask /\ policy'[r] = policy[r]
  BY <1>2 DEF FinishRun, StopRun, Off
<1>3. ASSUME NEW s \in Runs, StartPool(s), s # r
      PROVE  task[r][f] # NoTask /\ policy'[r] = policy[r]
  BY <1>3 DEF StartPool, Begin
<1>4. ASSUME NEW s \in Runs, NEW g \in Files, PoolStep(s, g)
      PROVE  task[r][f] # NoTask /\ policy'[r] = policy[r]
  <2>1. task[s][g] # NoTask /\ policy' = policy
    BY <1>4, PoolKeeps
  <2>2. \/ \E x, c, n : Moves(s, g, x, c, n)
        \/ Becomes(s, g, NoTask)
    BY <1>4, PoolCases
  <2>3. s # r \/ g # f => task'[r][f] = task[r][f]
    BY <2>2 DEF Moves, Becomes
  <2> QED BY <2>1, <2>3
<1> QED
  BY <1>1, <1>2, <1>3, <1>4 DEF Next, RunStep, RunFile, PoolStep

\* A setting stands until another one is used, and a new one comes from a good run.
LEMMA BackfilledSource ==
    ASSUME TypeInv, [Next]_vars
    PROVE  \/ backfilled' \in {NoPolicy, backfilled}
           \/ \E r \in Runs : /\ FinishRun(r) /\ ~failed[r] /\ force[r]
                              /\ backfilled' = policy[r]
<1>1. CASE \/ UNCHANGED vars \/ LateCommit
           \/ \E g \in Files : EditDrive(g)
           \/ \E s \in Runs : StartRun(s) \/ Requeue(s) \/ StopRun(s)
           \/ \E s \in Runs, g \in Files : Register(s, g)
  BY <1>1 DEF vars, LateCommit, EditDrive, StartRun, Requeue, StopRun, Register, goals
<1>2. ASSUME NEW r \in Runs, StartPool(r) PROVE backfilled' \in {NoPolicy, backfilled}
  BY <1>2 DEF StartPool, Begin
<1>3. ASSUME NEW r \in Runs, FinishRun(r)
      PROVE  \/ backfilled' = backfilled
             \/ ~failed[r] /\ force[r] /\ backfilled' = policy[r]
  BY <1>3 DEF FinishRun
<1>4. ASSUME NEW s \in Runs, NEW g \in Files, PoolStep(s, g) PROVE backfilled' = backfilled
  BY <1>4, PoolKeeps
<1> QED
  BY <1>1, <1>2, <1>3, <1>4 DEF Next, RunStep, RunFile, PoolStep

\* The pool has loaded f, or had nothing to do for it.
Served(r, f) == task[r][f] = NoTask \/ At(r, f, "metadata") \/ At(r, f, "mark_done")

\* A Markdown file gets served by a successful load of its chunks, unless the run fails.
LEMMA ServedSource ==
    ASSUME TypeInv, NEW r \in Runs, NEW f \in Markdown, NEW g \in Files,
           PoolStep(r, g), ~failed'[r], Served(r, f)'
    PROVE  \/ g = f /\ ChunksOk(r, f)
           \/ Served(r, f) /\ loads \subseteq loads' /\ \A l \in Sent' : l.file = f => l \in Sent
<1> f \in Files
  BY PipelineAssumption
<1>1. CASE g # f
  BY <1>1, PoolOthers, PoolSends DEF Served, At
<1>2. ASSUME g = f, NEW x, NEW c, NEW n, Moves(r, f, x, c, n),
             x \notin {"metadata", "mark_done"}
      PROVE  FALSE
  <2>1. task'[r][f] = [stage |-> x, doc |-> task[r][f].doc, content |-> c, at |-> n]
        /\ task'[r][f] # NoTask
    BY <1>2, TaskType DEF Moves, Becomes
  <2> QED BY <1>2, <2>1 DEF Served, At
<1>3. CASE g = f /\ (DownloadOk(r, f) \/ Stamp(r, f))
  BY <1>2, <1>3, DownloadMoves, StampMoves DEF TypeInv
<1>4. CASE g = f /\ MetadataOk(r, f)
  BY <1>4, QuietPool DEF MetadataOk, Served, Sent
<1>5. CASE g = f /\ failed' = [failed EXCEPT ![r] = TRUE]
  BY <1>5 DEF TypeInv, TypeOK
<1>6. CASE g = f /\ MarkDone(r, f)
  BY <1>6, QuietPool DEF MarkDone, Mark, Served, Sent
<1>7. CASE g = f /\ MarkFailed(r, f)
  <2>1. failed[r]
    BY <1>7 DEF MarkFailed, Mark, At, TypeInv, Tasks
  <2>2. ~failed'[r] => ~failed[r]
    BY <1>7, MarkRecord
  <2> QED BY <2>1, <2>2
<1> QED BY <1>1, <1>3, <1>4, <1>5, <1>6, <1>7, PoolCases

\* What the pool finds pending it takes; after a registration without a failure, that is
\* every file that was forced or cannot be compared.
LEMMA PoolTakes ==
    ASSUME TypeInv, Queued, NEW r \in Runs, StartPool(r), NEW f \in Files,
           ~failed[r], force[r] \/ f \in Workspace
    PROVE  /\ task'[r][f] # NoTask
           /\ ~At(r, f, "metadata")' /\ ~At(r, f, "mark_done")'
<1>1. /\ phase[r] = "register" /\ requeue[r] = NoFile /\ DOMAIN listing[r] = {}
      /\ task'[r][f] = IF IsPending(store[f])
                       THEN [stage |-> "queued", doc |-> store[f],
                             content |-> NoContent, at |-> 0]
                       ELSE NoTask
  BY DEF StartPool, Begin, TypeInv, TypeOK
<1>2. requeue[r] # f /\ f \notin DOMAIN listing[r]
  BY <1>1, PipelineAssumption
<1>3. store[f] # NoDoc /\ store[f].status = "pending"
  BY <1>1, <1>2 DEF Queued
<1>4. IsPending(store[f]) /\ store[f] \in Doc
  BY <1>3 DEF IsPending, TypeInv, TypeOK
<1>5. [stage |-> "queued", doc |-> store[f], content |-> NoContent, at |-> 0] \in Task
  BY <1>4, SomeContent DEF TypeInv, Task, Stage
<1> QED BY <1>1, <1>4, <1>5, TaskType DEF At

\* A forced run delivers every file under its setting.
LEMMA StepForced ==
    ASSUME OneRun, TypeInv, TypeInv', Owned, Queued, Stamps, Forced, [Next]_vars
    PROVE  Forced'
<1> SUFFICES ASSUME NEW r \in Runs, NEW f \in Markdown,
                    phase'[r] = "pool", force'[r], ~failed'[r], Served(r, f)'
             PROVE  (\E l \in loads : l.file = f /\ Newest(l) /\ l.policy = policy[r])'
  BY DEF Forced, Served
<1> f \in Files
  BY PipelineAssumption
<1> USE DEF OneRun
<1>1. ASSUME phase[r] = "pool", force[r], ~failed[r], Served(r, f), policy'[r] = policy[r],
             loads \subseteq loads', \A l \in Sent' : l.file = f => l \in Sent
      PROVE  (\E l \in loads : l.file = f /\ Newest(l) /\ l.policy = policy[r])'
  BY <1>1 DEF Forced, Served, Newest
<1>2. CASE UNCHANGED vars
  BY <1>1, <1>2 DEF vars, Served, At, Sent
<1>3. CASE (\E g \in Files : EditDrive(g)) \/ LateCommit
  BY <1>1, <1>3 DEF EditDrive, LateCommit, runVars, bigquery, Served, At, Sent
<1>4. CASE StartPool(r)
  <2>1. force[r] /\ ~failed[r]
    BY <1>4 DEF StartPool, Begin
  <2>2. task'[r][f] # NoTask /\ ~At(r, f, "metadata")' /\ ~At(r, f, "mark_done")'
    BY <1>4, <2>1, PoolTakes
  <2> QED BY <2>2 DEF Served
<1>5. ASSUME NEW g \in Files, PoolStep(r, g)
      PROVE  (\E l \in loads : l.file = f /\ Newest(l) /\ l.policy = policy[r])'
  <2>1. phase[r] = "pool" /\ force[r] /\ policy' = policy
    BY <1>5, PoolKeeps
  <2>2. ~failed[r]
    BY <1>5, PoolCases DEF TypeInv, TypeOK
  <2>3. CASE g = f /\ ChunksOk(r, f)
    <3>1. PICK l \in loads' : l.policy = policy[r] /\ l.file = f /\ l.at = task[r][f].at
                              /\ loads' = loads \cup {l} /\ late' = late /\ l \in Load
      BY <2>3, LoadType DEF ChunksOk, LoadOf
    <3>2. \A m \in Sent : m.file = f => m.at < l.at
      BY <2>3, <3>1 DEF Stamps, ChunksOk
    <3>3. \A m \in Sent' : m.file = f => m.at <= l.at
      <4>1. Sent' = Sent \cup {l} /\ Sent \subseteq Load
        BY <3>1 DEF Sent, TypeInv, TypeOK
      <4> QED BY <3>1, <3>2, <4>1 DEF Load
    <3> QED BY <2>1, <3>1, <3>3 DEF Newest
  <2> QED BY <1>1, <1>5, <2>1, <2>2, <2>3, ServedSource
<1>6. ASSUME StartRun(r) \/ Requeue(r) \/ FinishRun(r) \/ StopRun(r) PROVE FALSE
  BY <1>6, RequeueEffect DEF StartRun, FinishRun, StopRun, Off, TypeInv, TypeOK
<1>7. ASSUME NEW g \in Files, Register(r, g) PROVE FALSE
  BY <1>7 DEF Register
<1> QED
  BY <1>2, <1>3, <1>4, <1>5, <1>6, <1>7 DEF Next, RunStep, RunFile, PoolStep

\* After a good forced run, nothing brings back the dates of another setting.
LEMMA StepBackfill ==
    ASSUME OneRun, TypeInv, Forced, Backfill, [Next]_vars
    PROVE  Backfill'
<1> SUFFICES ASSUME backfilled' # NoPolicy, NEW f \in Markdown
             PROVE  /\ \A r \in Runs : task'[r][f] # NoTask => policy'[r] = backfilled'
                    /\ \E l \in loads' :
                          /\ l.file = f /\ l.policy = backfilled'
                          /\ \A m \in Sent' : m.file = f /\ m.at > l.at => m.policy = backfilled'
  BY DEF Backfill
<1> f \in Files
  BY PipelineAssumption
<1>1. CASE backfilled' = backfilled
  <2>1. ASSUME NEW r \in Runs, task'[r][f] # NoTask PROVE policy'[r] = backfilled'
    <3>1. CASE StartPool(r)
      BY <1>1, <2>1, <3>1 DEF StartPool, Begin, TypeInv, TypeOK
    <3>2. CASE task[r][f] # NoTask /\ policy'[r] = policy[r]
      BY <1>1, <3>2 DEF Backfill
    <3> QED BY <2>1, <3>1, <3>2, TaskPolicy
  <2>2. PICK l \in loads : /\ l.file = f /\ l.policy = backfilled
                           /\ \A m \in Sent : m.file = f /\ m.at > l.at => m.policy = backfilled
    BY <1>1 DEF Backfill
  <2>3. \A m \in Sent' : m.file = f /\ m.at > l.at => m.policy = backfilled
    <3>1. ASSUME NEW s \in Runs, NEW g \in Files, At(s, g, "chunks"), LoadOf(s, g).file = f
          PROVE  LoadOf(s, g).policy = backfilled
      BY <1>1, <3>1 DEF Backfill, LoadOf, At
    <3> QED BY <2>2, <3>1, SentSource
  <2> QED BY <1>1, <2>1, <2>2, <2>3, SentSource
<1>2. ASSUME NEW r \in Runs, FinishRun(r), ~failed[r], force[r], backfilled' = policy[r]
      PROVE  /\ \A s \in Runs : task'[s][f] # NoTask => policy'[s] = backfilled'
             /\ \E l \in loads' :
                   /\ l.file = f /\ l.policy = backfilled'
                   /\ \A m \in Sent' : m.file = f /\ m.at > l.at => m.policy = backfilled'
  <2>1. phase[r] = "pool" /\ task[r][f] = NoTask /\ UNCHANGED <<loads, late>>
    BY <1>2 DEF FinishRun, bigquery
  <2>2. PICK l \in loads : l.file = f /\ Newest(l) /\ l.policy = policy[r]
    BY <1>2, <2>1 DEF Forced
  <2>3. \A s \in Runs : task'[s][f] = NoTask
    BY <1>2 DEF FinishRun, Off, OneRun, TypeInv, TypeOK
  <2>4. \A m \in Sent : m.file = f => m.at <= l.at /\ m.at \in Nat /\ l.at \in Nat
    BY <2>2 DEF Newest, Sent, Load, TypeInv, TypeOK
  <2> QED BY <1>2, <2>1, <2>2, <2>3, <2>4 DEF Sent
<1> QED BY <1>1, <1>2, BackfilledSource

-----------------------------------------------------------------------------
(* Runs that do not overlap: what a good run leaves behind *)

\* While a run goes on, its failures are not forgotten, and only registration takes
\* files off its listing.
LEMMA RunGoesOn ==
    ASSUME OneRun, TypeInv, [Next]_vars, NEW r \in Runs, phase'[r] # "off"
    PROVE  \/ StartRun(r)
           \/ /\ phase[r] # "off"
              /\ drive' = drive => disturbed'[r] = disturbed[r]
              /\ ~failed'[r] => ~failed[r]
              /\ \A f \in DOMAIN listing[r] : f \notin DOMAIN listing'[r] => Register(r, f)
<1> USE DEF OneRun, TypeInv, TypeOK
<1> DEFINE GoesOn == /\ phase[r] # "off"
                     /\ drive' = drive => disturbed'[r] = disturbed[r]
                     /\ ~failed'[r] => ~failed[r]
                     /\ \A f \in DOMAIN listing[r] :
                           f \notin DOMAIN listing'[r] => Register(r, f)
<1>1. CASE UNCHANGED vars \/ LateCommit
  BY <1>1 DEF vars, LateCommit, runVars
<1>2. ASSUME NEW f \in Files, EditDrive(f) PROVE GoesOn
  BY <1>2 DEF EditDrive, runVars
<1>3. CASE FinishRun(r) \/ StopRun(r)
  BY <1>3 DEF FinishRun, StopRun, Off
<1>4. CASE StartPool(r)
  BY <1>4 DEF StartPool, Begin
<1>5. CASE Requeue(r)
  <2>1. ~failed'[r] => ~failed[r]
    BY <1>5, RequeueEffect
  <2> QED BY <1>5, <2>1, RequeueEffect
<1>6. ASSUME NEW f \in Files, Register(r, f) PROVE GoesOn
  <2>1. ~failed'[r] => ~failed[r]
    BY <1>6, RegisterEffect
  <2>2. UNCHANGED <<disturbed, phase>> /\ DOMAIN listing'[r] = DOMAIN listing[r] \ {f}
    BY <1>6, RegisterEffect
  <2> QED BY <1>6, <2>1, <2>2
<1>7. ASSUME NEW f \in Files, PoolStep(r, f) PROVE GoesOn
  <2>1. ~failed'[r] => ~failed[r]
    BY <1>7, PoolCases
  <2> QED BY <1>7, <2>1, PoolKeeps
<1> HIDE DEF GoesOn
<1>8. GoesOn \/ StartRun(r)
  BY <1>1, <1>2, <1>3, <1>4, <1>5, <1>6, <1>7 DEF Next, RunStep, RunFile, PoolStep, GoesOn
<1> QED BY <1>8 DEF GoesOn

\* A successful registration of f writes what the listing says.
LEMMA RegisteredNow ==
    ASSUME TypeInv, NEW r \in Runs, NEW f \in Files \ Workspace, Register(r, f), ~failed'[r],
           listing[r][f] = ListingOf(f)
    PROVE  Registered(f)'
<1>1. /\ store'[f] = FirestoreUpsert(store[f], listing[r][f]) /\ drive' = drive
      /\ listing[r][f] \in Listing
      /\ store[f] \in Doc \cup {NoDoc}
  BY RegisterEffect DEF TypeInv, TypeOK
<1>2. store'[f] # NoDoc /\ store'[f].path = listing[r][f].path
      /\ store'[f].checksum = listing[r][f].checksum
  BY <1>1, UpsertStatus
<1> QED BY <1>1, <1>2 DEF Registered, ListingOf

\* An undisturbed run registers what Drive says.
LEMMA StepUndisturbed ==
    ASSUME OneRun, TypeInv, TypeInv', Queued', Undisturbed, [Next]_vars
    PROVE  Undisturbed'
<1> SUFFICES ASSUME NEW r \in Runs, ~disturbed'[r], phase'[r] # "off", NEW f \in Markdown
             PROVE  /\ f \in DOMAIN listing'[r] => listing'[r][f] = ListingOf(f)'
                    /\ ~failed'[r] /\ f \notin DOMAIN listing'[r] => Registered(f)'
  BY DEF Undisturbed
<1> f \in Files /\ f \notin Workspace
  BY PipelineAssumption
<1>1. drive' = drive
  <2>1. ASSUME NEW g \in Files, EditDrive(g) PROVE FALSE
    BY <2>1 DEF EditDrive, runVars
  <2> QED BY <2>1, DriveSource
<1>2. ListingOf(f)' = ListingOf(f)
  BY <1>1 DEF ListingOf
<1>3. CASE StartRun(r)
  BY <1>2, <1>3 DEF StartRun, TypeInv, TypeOK
<1>4. ASSUME phase[r] # "off", ~disturbed[r], ~failed'[r] => ~failed[r],
             \A g \in DOMAIN listing[r] : g \notin DOMAIN listing'[r] => Register(r, g)
      PROVE  /\ f \in DOMAIN listing'[r] => listing'[r][f] = ListingOf(f)'
             /\ ~failed'[r] /\ f \notin DOMAIN listing'[r] => Registered(f)'
  <2>1. f \in DOMAIN listing'[r] => listing'[r][f] = ListingOf(f)'
    BY <1>2, <1>4, ListingSource DEF Undisturbed, StartRun
  <2>2. ASSUME ~failed'[r], f \notin DOMAIN listing'[r], f \in DOMAIN listing[r]
        PROVE  Registered(f)'
    BY <1>4, <2>2, RegisteredNow DEF Undisturbed
  <2>3. ASSUME ~failed'[r], f \notin DOMAIN listing'[r], f \notin DOMAIN listing[r]
        PROVE  Registered(f)'
    <3>1. Registered(f)
      BY <1>4, <2>3 DEF Undisturbed
    <3>2. store'[f] # NoDoc
      BY <2>3 DEF Queued
    <3>3. store'[f].path = store[f].path /\ store'[f].checksum = store[f].checksum
      BY <2>3, RecordSource DEF OneRun
    <3> QED BY <1>1, <3>1, <3>2, <3>3 DEF Registered
  <2> QED BY <2>1, <2>2, <2>3
<1> QED BY <1>1, <1>3, <1>4, RunGoesOn

\* Only an undisturbed run that succeeds makes the view current, and only an edit ends it.
LEMMA CurrentSource ==
    ASSUME TypeInv, [Next]_vars, current'
    PROVE  /\ drive' = drive
           /\ current \/ \E r \in Runs : FinishRun(r) /\ ~failed[r] /\ ~disturbed[r]
<1>1. CASE \/ UNCHANGED vars \/ LateCommit
           \/ \E s \in Runs : StartRun(s) \/ Requeue(s) \/ StopRun(s) \/ StartPool(s)
           \/ \E s \in Runs, g \in Files : Register(s, g)
  BY <1>1 DEF vars, LateCommit, StartRun, Requeue, StopRun, StartPool, Begin, Register, goals
<1>2. CASE \E g \in Files : EditDrive(g)
  BY <1>2 DEF EditDrive
<1>3. ASSUME NEW r \in Runs, FinishRun(r)
      PROVE  /\ drive' = drive
             /\ current \/ (~failed[r] /\ ~disturbed[r])
  BY <1>3 DEF FinishRun
<1>4. ASSUME NEW s \in Runs, NEW g \in Files, PoolStep(s, g)
      PROVE  drive' = drive /\ current' = current
  BY <1>4, PoolKeeps
<1> QED
  BY <1>1, <1>2, <1>3, <1>4 DEF Next, RunStep, RunFile, PoolStep

\* A good run has delivered what Drive says, and nothing newer is on its way.
LEMMA GoodRun ==
    ASSUME ~Revert, TypeInv, Queued, Stamps, Growing, Settled, Undisturbed,
           NEW r \in Runs, FinishRun(r), ~failed[r], ~disturbed[r], NEW f \in Markdown
    PROVE  /\ Registered(f)
           /\ \E l \in loads :
                 /\ l.file = f
                 /\ \A m \in Sent : m.file = f /\ m.at >= l.at =>
                       m.version = drive[f].content /\ m.name = drive[f].name
<1> f \in Files
  BY PipelineAssumption
<1>1. phase[r] = "pool" /\ task[r][f] = NoTask /\ f \notin DOMAIN listing[r]
  BY DEF FinishRun, TypeInv, Listed
<1>2. Registered(f)
  BY <1>1 DEF Undisturbed
<1>3. Done(f)
  <2>1. store[f] # NoDoc /\ store[f].status # "failed" /\ store[f].status # "pending"
    BY <1>1 DEF Queued
  <2> QED BY <2>1 DEF Done, TypeInv, TypeOK, Doc
<1>4. PICK l \in loads : /\ l.file = f /\ Newest(l) /\ l.name = store[f].path
                         /\ store[f].checksum <= l.version
  BY <1>3 DEF Settled, Delivered
<1>5. l.version = drive[f].content
  <2>1. l \in Sent /\ l \in Load
    BY DEF Sent, TypeInv, TypeOK
  <2>2. l.version \in Nat /\ drive[f].content \in Nat
    BY <2>1, PipelineAssumption DEF Load, TypeInv, TypeOK, DriveFile
  <2>3. l.version <= drive[f].content
    BY <1>4, <2>1 DEF Growing, GrowingLoads
  <2> QED BY <1>2, <1>4, <2>2, <2>3 DEF Registered
<1>6. ASSUME NEW m \in Sent, m.file = f, m.at >= l.at PROVE m = l
  <2>1. l \in Sent /\ m \in Load /\ l \in Load
    BY DEF Sent, TypeInv, TypeOK
  <2>2. m.at \in Nat /\ l.at \in Nat /\ m.at <= l.at
    BY <1>4, <1>6, <2>1 DEF Load, Newest
  <2> QED BY <1>4, <1>6, <2>1, <2>2 DEF Stamps
<1> QED BY <1>2, <1>4, <1>5, <1>6 DEF Registered

\* What is current stays current, whatever fails or lands late, until Drive is edited.
LEMMA StepCurrent ==
    ASSUME OneRun, ~Revert, TypeInv, Owned, Queued, Stamps, Growing, Settled, Undisturbed,
           Current, [Next]_vars
    PROVE  Current'
<1> DEFINE Repeats(l, f) == \A m \in Sent : m.file = f /\ m.at >= l.at =>
                               m.version = drive[f].content /\ m.name = drive[f].name
<1> SUFFICES ASSUME current', NEW f \in Markdown
             PROVE  /\ Registered(f)'
                    /\ \A r \in Runs :
                          /\ f \in DOMAIN listing'[r] => listing'[r][f] = ListingOf(f)'
                          /\ Holds(r, f)' => task'[r][f].content = drive'[f].content
                    /\ \E l \in loads' : l.file = f /\ Repeats(l, f)'
  BY DEF Current
<1> f \in Files /\ f \notin Workspace
  BY PipelineAssumption
<1>1. drive' = drive /\ ListingOf(f)' = ListingOf(f)
  BY CurrentSource DEF ListingOf
<1>2. CASE current
  <2>1. /\ Registered(f)
        /\ \A r \in Runs :
              /\ f \in DOMAIN listing[r] => listing[r][f] = ListingOf(f)
              /\ Holds(r, f) => task[r][f].content = drive[f].content
    BY <1>2 DEF Current
  <2>2. PICK l \in loads : l.file = f /\ Repeats(l, f)
    BY <1>2 DEF Current
  <2>3. Registered(f)'
    BY <1>1, <2>1, RecordSource DEF Registered, ListingOf
  <2>4. ASSUME NEW r \in Runs, f \in DOMAIN listing'[r] PROVE listing'[r][f] = ListingOf(f)'
    BY <1>1, <2>1, <2>4, ListingSource
  <2>5. ASSUME NEW r \in Runs, Holds(r, f)' PROVE task'[r][f].content = drive'[f].content
    BY <1>1, <2>1, <2>5, TaskSource
  <2>6. ASSUME NEW s \in Runs, NEW g \in Files, At(s, g, "chunks"), LoadOf(s, g).file = f
        PROVE  LoadOf(s, g).version = drive[f].content /\ LoadOf(s, g).name = drive[f].name
    <3>1. g = f /\ Holds(s, f) /\ task[s][f] # NoTask
      BY <2>6 DEF LoadOf, Holds, At
    <3>2. task[s][f].content = drive[f].content
      BY <2>1, <3>1
    <3>3. task[s][f].doc.path = drive[f].name
      BY <2>1, <3>1 DEF Owned, Registered
    <3> QED BY <3>1, <3>2, <3>3 DEF LoadOf
  <2>7. l \in loads' /\ Repeats(l, f)'
    BY <1>1, <2>2, <2>6, SentSource
  <2> QED BY <2>2, <2>3, <2>4, <2>5, <2>7
<1>3. ASSUME NEW r \in Runs, FinishRun(r), ~failed[r], ~disturbed[r]
      PROVE  /\ Registered(f)'
             /\ \A s \in Runs :
                   /\ f \in DOMAIN listing'[s] => listing'[s][f] = ListingOf(f)'
                   /\ Holds(s, f)' => task'[s][f].content = drive'[f].content
             /\ \E l \in loads' : l.file = f /\ Repeats(l, f)'
  <2>1. UNCHANGED <<drive, store, loads, late>>
    BY <1>3 DEF FinishRun, bigquery
  <2>2. \A s \in Runs : listing'[s] = << >> /\ task'[s][f] = NoTask
    BY <1>3 DEF FinishRun, Off, OneRun, TypeInv, TypeOK
  <2>3. \A s \in Runs : f \notin DOMAIN listing'[s] /\ ~Holds(s, f)'
    BY <2>2, WholeListing DEF Holds, At, TypeInv
  <2>4. Registered(f) /\ \E l \in loads : l.file = f /\ Repeats(l, f)
    BY <1>3, GoodRun
  <2> QED BY <2>1, <2>3, <2>4 DEF Registered, Sent
<1> QED BY <1>2, <1>3, CurrentSource

-----------------------------------------------------------------------------
(* The inductive invariant *)

\* Before the first run nothing is registered, loaded or under way.
LEMMA InitIInv == Init => IInv
<1> SUFFICES ASSUME Init PROVE IInv
  OBVIOUS
<1>1. TypeInv
  BY InitTypeInv
<1>2. /\ loads = {} /\ late = {} /\ clock = 0 /\ current = FALSE /\ backfilled = NoPolicy
      /\ store = [f \in Files |-> NoDoc]
      /\ phase = [r \in Runs |-> "off"]
      /\ task = [r \in Runs |-> [f \in Files |-> NoTask]]
  BY DEF Init
<1>3. \A f \in Files : /\ store[f] = NoDoc
                       /\ \A r \in Runs : phase[r] = "off" /\ task[r][f] = NoTask
  BY <1>2
<1>4. Owned /\ Queued /\ Stamps /\ Undisturbed
  BY <1>2, <1>3 DEF Owned, Queued, Stamps, Sent, HasNewest, At, Undisturbed
<1>5. Settled /\ Forced /\ Backfill
  BY <1>2, <1>3, PipelineAssumption DEF Settled, Done, Loaded, At, Forced, Backfill
<1>6. Growing
  <2>1. \A f \in Markdown, r \in Runs : f \notin DOMAIN listing[r]
    BY <1>1, <1>3, PipelineAssumption DEF TypeInv, Listed
  <2> QED
    BY <1>2, <1>3, <2>1, PipelineAssumption
    DEF Growing, GrowingLoads, GrowingRecords, GrowingTasks, Holds, At, Sent
<1>7. Current
  BY <1>2 DEF Current
<1> QED BY <1>1, <1>4, <1>5, <1>6, <1>7 DEF IInv

\* No step of the only run, of the environment or of a job that was given up breaks what
\* records, tasks and loads say of each other.
LEMMA StepIInv == OneRun /\ IInv /\ [Next]_vars => IInv'
<1> SUFFICES ASSUME OneRun, IInv, [Next]_vars PROVE IInv'
  OBVIOUS
<1>1. TypeInv' /\ Owned' /\ Queued'
  BY StepTypeInv, StepOwned, StepQueued DEF IInv
<1>2. Stamps' /\ Settled' /\ Forced' /\ Backfill' /\ Undisturbed'
  BY <1>1, StepStamps, StepSettled, StepForced, StepBackfill, StepUndisturbed DEF IInv
<1>3. ~Revert => Growing' /\ Current'
  BY <1>1, StepGrowing, StepCurrent DEF IInv
<1> QED BY <1>1, <1>2, <1>3 DEF IInv

\* As long as runs do not overlap, what the records, the pool's work, the loads and the
\* last good run say of each other holds at every step: whatever fails, is killed or
\* lands late.
THEOREM PipelineInductive ==
    ASSUME OneRun
    PROVE  Spec => []IInv
<1>1. IInv /\ [Next]_vars => IInv'
  BY StepIInv
<1> QED BY <1>1, InitIInv, PTL DEF Spec

-----------------------------------------------------------------------------
(* What the view shows *)

\* The chunks of l that are not tombstones, as the view shows them.
ChunksOf(l) == Chunks(l.version, l.name)

\* The rows of a load: those of its file, version and time, one for every index of the
\* version.
LEMMA RowsOfLoad ==
    ASSUME NEW l \in Load
    PROVE  /\ l.at \in Nat /\ l.version \in Nat /\ NumChunks[l.version] \in Nat
           /\ \A r \in RowsOf(l) :
                 /\ r.file = l.file /\ r.version = l.version /\ r.at = l.at
                 /\ r.name = l.name /\ r.policy = l.policy
           /\ \E r \in RowsOf(l) : r.index = 0
           /\ \A m \in Load : m.version = l.version =>
                 \A r \in RowsOf(m) : \E s \in RowsOf(l) : s.index = r.index
<1> DEFINE n == NumChunks[l.version]
           Indexes == 0..(IF n = 0 THEN 0 ELSE n - 1)
           Row(m, i) == [file |-> m.file, version |-> m.version, name |-> m.name, at |-> m.at,
                         policy |-> m.policy, index |-> i, deleted |-> n = 0]
<1>1. l.at \in Nat /\ l.version \in Nat /\ n \in Nat
  BY PipelineAssumption DEF Load
<1>2. 0 \in Indexes
  BY <1>1
<1>3. \A m \in Load : m.version = l.version => RowsOf(m) = {Row(m, i) : i \in Indexes}
  BY DEF RowsOf
<1> HIDE DEF Indexes
<1>4. \E r \in RowsOf(l) : r.index = 0
  <2>1. Row(l, 0) \in RowsOf(l) /\ Row(l, 0).index = 0
    BY <1>2, <1>3
  <2> QED BY <2>1
<1>5. ASSUME NEW m \in Load, m.version = l.version, NEW r \in RowsOf(m)
      PROVE  \E s \in RowsOf(l) : s.index = r.index
  <2>1. PICK i \in Indexes : r = Row(m, i)
    BY <1>3, <1>5
  <2>2. Row(l, i) \in RowsOf(l) /\ Row(l, i).index = r.index
    BY <1>3, <2>1
  <2> QED BY <2>2
<1>6. ASSUME NEW r \in RowsOf(l)
      PROVE  /\ r.file = l.file /\ r.version = l.version /\ r.at = l.at
             /\ r.name = l.name /\ r.policy = l.policy
  BY <1>3
<1> QED BY <1>1, <1>4, <1>5, <1>6

\* The rows of the newest load of a file are its latest chunks: they replace the rows of
\* every other load, and none of them is missing.
LEMMA LatestRows ==
    ASSUME NEW S \in SUBSET Load, NEW l \in S,
           \A m \in S : m.file = l.file => m.at <= l.at /\ (m.at = l.at => m = l)
    PROVE  LatestChunks(RowsOfFile(UNION {RowsOf(m) : m \in S}, l.file)) = RowsOf(l)
<1> DEFINE mine == RowsOfFile(UNION {RowsOf(m) : m \in S}, l.file)
<1>1. \A r \in mine : \E m \in S : m.file = l.file /\ r \in RowsOf(m)
  BY RowsOfLoad DEF RowsOfFile
<1>2. RowsOf(l) \subseteq mine
  BY RowsOfLoad DEF RowsOfFile
<1> HIDE DEF mine
<1>3. \A r \in mine : r.at \in Nat /\ r.version \in Nat /\ r.at <= l.at
                      /\ (r.at = l.at => r \in RowsOf(l))
  BY <1>1, RowsOfLoad
<1>4. \A r \in RowsOf(l) : r.at = l.at /\ r.version = l.version
  BY RowsOfLoad
<1>5. LatestVersion(mine) = l.version
  <2> DEFINE Last(r) == \A s \in mine :
                           r.at > s.at \/ (r.at = s.at /\ r.version >= s.version)
  <2>1. PICK first \in RowsOf(l) : first.index = 0
    BY RowsOfLoad
  <2>2. Last(first)
    <3> SUFFICES ASSUME NEW s \in mine
                 PROVE  first.at > s.at \/ (first.at = s.at /\ first.version >= s.version)
      OBVIOUS
    <3>1. first.at = l.at /\ l.at \in Nat /\ l.version \in Nat
      BY <1>4, RowsOfLoad
    <3> QED BY <1>3, <1>4, <3>1
  <2>3. ASSUME NEW r \in mine, Last(r) PROVE r.version = l.version
    <3>1. r.at >= l.at /\ l.at \in Nat
      BY <1>2, <1>3, <1>4, <2>1, <2>3, RowsOfLoad
    <3> QED BY <1>3, <1>4, <3>1
  <2>4. (CHOOSE r \in mine : Last(r)).version = l.version
    <3> HIDE DEF Last
    <3> QED BY <1>2, <2>1, <2>2, <2>3
  <2> QED BY <2>4 DEF LatestVersion
<1>6. ASSUME NEW r \in mine, r.version = l.version,
             \A s \in mine : s.version = l.version /\ s.index = r.index => s.at <= r.at
      PROVE  r \in RowsOf(l)
  <2>1. PICK m \in S : m.file = l.file /\ r \in RowsOf(m)
    BY <1>1
  <2>2. m.version = l.version
    BY <1>6, <2>1, RowsOfLoad
  <2>3. PICK s \in RowsOf(l) : s.index = r.index
    BY <2>1, <2>2, RowsOfLoad
  <2>4. l.at <= r.at /\ l.at \in Nat
    BY <1>2, <1>4, <1>6, <2>3, RowsOfLoad
  <2> QED BY <1>3, <2>4
<1>7. ASSUME NEW r \in RowsOf(l)
      PROVE  /\ r \in mine /\ r.version = l.version
             /\ \A s \in mine : s.version = l.version /\ s.index = r.index => s.at <= r.at
  BY <1>2, <1>3, <1>4
<1>8. LatestChunks(mine) = RowsOf(l)
  BY <1>5, <1>6, <1>7 DEF LatestChunks
<1> QED BY <1>8 DEF mine

\* So the view shows the newest load, under its name and with its setting.
LEMMA NewestShown ==
    ASSUME NEW S \in SUBSET Load, NEW l \in S,
           \A m \in S : m.file = l.file => m.at <= l.at /\ (m.at = l.at => m = l)
    PROVE  /\ Shown(UNION {RowsOf(m) : m \in S}, l.file) = ChunksOf(l)
           /\ ShownPolicies(UNION {RowsOf(m) : m \in S}, l.file) \subseteq {l.policy}
<1> DEFINE rows == UNION {RowsOf(m) : m \in S}
           n == NumChunks[l.version]
<1>1. Live(rows, l.file) = {r \in RowsOf(l) : ~r.deleted}
  BY LatestRows DEF Live
<1> HIDE DEF rows
<1>2. \A r \in RowsOf(l) : r.version = l.version /\ r.name = l.name /\ r.policy = l.policy
  BY RowsOfLoad
<1>3. {r.index : r \in Live(rows, l.file)} = 0..(n - 1)
  <2>1. n \in Nat
    BY RowsOfLoad
  <2>2. CASE n = 0
    <3> DEFINE Row(i) == [file |-> l.file, version |-> l.version, name |-> l.name, at |-> l.at,
                          policy |-> l.policy, index |-> i, deleted |-> n = 0]
    <3>1. RowsOf(l) = {Row(i) : i \in 0..0}
      BY <2>2 DEF RowsOf
    <3>2. \A i : Row(i).deleted
      BY <2>2
    <3> HIDE DEF Row
    <3>3. \A r \in RowsOf(l) : r.deleted
      BY <3>1, <3>2
    <3> QED BY <1>1, <2>2, <3>3
  <2>3. CASE n # 0
    <3> DEFINE Row(i) == [file |-> l.file, version |-> l.version, name |-> l.name, at |-> l.at,
                          policy |-> l.policy, index |-> i, deleted |-> n = 0]
    <3>1. RowsOf(l) = {Row(i) : i \in 0..(n - 1)}
      BY <2>3 DEF RowsOf
    <3>2. \A i : Row(i).index = i /\ ~Row(i).deleted
      BY <2>3
    <3> HIDE DEF Row, n
    <3> QED BY <1>1, <3>1, <3>2
  <2> QED BY <2>2, <2>3
<1>4. Shown(rows, l.file) = ChunksOf(l)
  <2>1. \A r \in Live(rows, l.file) : r.version = l.version /\ r.name = l.name
    BY <1>1, <1>2
  <2>2. Shown(rows, l.file) =
          {[index |-> i, version |-> l.version, name |-> l.name] :
              i \in {r.index : r \in Live(rows, l.file)}}
    BY <2>1 DEF Shown
  <2> QED BY <1>3, <2>2 DEF ChunksOf, Chunks
<1>5. ShownPolicies(rows, l.file) \subseteq {l.policy}
  BY <1>1, <1>2 DEF ShownPolicies
<1> QED BY <1>4, <1>5 DEF rows

\* A file without a load is not shown.
LEMMA NothingShown ==
    ASSUME NEW S \in SUBSET Load, NEW f, \A m \in S : m.file # f
    PROVE  /\ Shown(UNION {RowsOf(m) : m \in S}, f) = {}
           /\ ShownPolicies(UNION {RowsOf(m) : m \in S}, f) = {}
<1>1. RowsOfFile(UNION {RowsOf(m) : m \in S}, f) = {}
  BY RowsOfLoad DEF RowsOfFile
<1>2. Live(UNION {RowsOf(m) : m \in S}, f) = {}
  BY <1>1 DEF Live, LatestChunks
<1> QED BY <1>2 DEF Shown, ShownPolicies

\* Of the loads of a file, one is the newest, and no other one was made at that time.
LEMMA NewestLoad ==
    ASSUME TypeInv, Stamps, NEW f, NEW k \in loads, k.file = f
    PROVE  \E l \in loads :
              /\ l.file = f /\ k.at <= l.at
              /\ \A m \in loads : m.file = l.file => m.at <= l.at /\ (m.at = l.at => m = l)
<1>1. PICK l \in loads : l.file = k.file /\ \A m \in loads : m.file = k.file => m.at <= l.at
  BY DEF Stamps, HasNewest
<1> QED BY <1>1 DEF Stamps, Sent

\* What the view shows of a file is one of its loads, the newest one, or nothing.
LEMMA ViewShows ==
    ASSUME TypeInv, Stamps, NEW f
    PROVE  \/ /\ \A m \in loads : m.file # f
              /\ Shown(Rows, f) = {} /\ ShownPolicies(Rows, f) = {}
           \/ \E l \in loads :
                 /\ l.file = f /\ \A m \in loads : m.file = f => m.at <= l.at
                 /\ Shown(Rows, f) = ChunksOf(l) /\ ShownPolicies(Rows, f) \subseteq {l.policy}
<1>1. loads \in SUBSET Load
  BY DEF TypeInv, TypeOK
<1>2. CASE \A m \in loads : m.file # f
  BY <1>1, <1>2, NothingShown DEF Rows
<1>3. CASE \E m \in loads : m.file = f
  <2>1. PICK l \in loads :
           /\ l.file = f
           /\ \A m \in loads : m.file = l.file => m.at <= l.at /\ (m.at = l.at => m = l)
    BY <1>3, NewestLoad
  <2> QED BY <1>1, <2>1, NewestShown DEF Rows
<1> QED BY <1>2, <1>3

\* The view shows the newest load of f whose outcome is still open, too, if it is committed.
LEMMA DeliveredShown ==
    ASSUME TypeInv, Stamps, NEW l \in loads, NEW f, l.file = f, Newest(l)
    PROVE  Shown(Rows, f) = ChunksOf(l)
<1>1. loads \in SUBSET Load /\ Sent \in SUBSET Load
  BY DEF TypeInv, TypeOK, Sent
<1>2. \A m \in loads : m.file = l.file => m.at <= l.at /\ (m.at = l.at => m = l)
  BY DEF Newest, Stamps, Sent
<1> QED BY <1>1, <1>2, NewestShown DEF Rows

-----------------------------------------------------------------------------
(* What a worker run promises *)

\* When registration went through, the pool gets every file that REPROCESS_ALL forces,
\* and every file that Drive has no checksum for.
THEOREM UncomparableAreQueued ==
    ASSUME OneRun
    PROVE  Spec => UncomparableQueued
<1>1. ASSUME IInv, [Next]_vars, NEW r \in Runs, NEW f \in Files,
             phase[r] = "register", phase'[r] = "pool", ~failed[r], force[r] \/ f \in Workspace
      PROVE  task'[r][f] # NoTask
  <2>1. StartPool(r)
    <3> USE DEF IInv, TypeInv, TypeOK, OneRun
    <3>1. CASE \/ UNCHANGED vars \/ LateCommit
               \/ \E g \in Files : EditDrive(g)
               \/ StartRun(r) \/ StopRun(r) \/ FinishRun(r)
      BY <1>1, <3>1
      DEF vars, LateCommit, EditDrive, runVars, StartRun, StopRun, FinishRun, Off
    <3>2. CASE Requeue(r)
      BY <1>1, <3>2, RequeueEffect
    <3>3. CASE \E g \in Files : Register(r, g)
      BY <1>1, <3>3, RegisterEffect
    <3>4. CASE \E g \in Files : PoolStep(r, g)
      BY <1>1, <3>4, PoolKeeps
    <3> QED
      BY <1>1, <3>1, <3>2, <3>3, <3>4 DEF Next, RunStep, RunFile, PoolStep
  <2> QED BY <1>1, <2>1, PoolTakes DEF IInv
<1>2. IInv /\ [Next]_vars =>
        [\A r \in Runs : \A f \in Files :
            /\ phase[r] = "register" /\ phase'[r] = "pool" /\ ~failed[r]
            /\ force[r] \/ f \in Workspace
            => task'[r][f] # NoTask]_phase
  BY <1>1
<1> QED BY <1>2, PipelineInductive, PTL DEF Spec, UncomparableQueued

\* A file recorded as done is shown with all its chunks and under its registered name,
\* as the newest of its loads; also when Drive files return to earlier contents, and if
\* they do not, with the registered content or a newer one.
THEOREM DoneIsShown ==
    ASSUME OneRun
    PROVE  Spec => []DoneMeansShown
<1>1. ASSUME IInv, NEW f \in Markdown, Done(f)
      PROVE  \E l \in loads :
                /\ l.file = f /\ Newest(l)
                /\ ~Revert => l.version >= store[f].checksum
                /\ Shown(Rows, f) = Chunks(l.version, store[f].path)
  <2>1. PICK l \in loads : /\ l.file = f /\ Newest(l) /\ l.name = store[f].path
                           /\ ~Revert => store[f].checksum <= l.version
    BY <1>1 DEF IInv, Settled, Delivered
  <2>2. Shown(Rows, f) = Chunks(l.version, store[f].path)
    BY <1>1, <2>1, DeliveredShown DEF IInv, ChunksOf
  <2>3. ~Revert => l.version >= store[f].checksum
    <3> SUFFICES ASSUME ~Revert PROVE l.version >= store[f].checksum
      OBVIOUS
    <3>1. store[f].checksum \in Nat /\ l.version \in Nat
      BY <1>1, PipelineAssumption
      DEF IInv, TypeInv, TypeOK, Growing, GrowingRecords, Done, Load
    <3> QED BY <2>1, <3>1
  <2> QED BY <2>1, <2>2, <2>3
<1>2. IInv => DoneMeansShown
  BY <1>1 DEF DoneMeansShown
<1> QED BY <1>2, PipelineInductive, PTL

\* docs/retro-sprint-periods.md: after a forced run that succeeded undisturbed, every row
\* shown has its setting, until rows are made with another one or Drive is edited.
THEOREM ReprocessingBackfills ==
    ASSUME OneRun
    PROVE  Spec => []MetadataBackfilled
<1>1. ASSUME IInv, backfilled # NoPolicy, NEW f \in Markdown
      PROVE  ShownPolicies(Rows, f) \subseteq {backfilled}
  <2>1. PICK k \in loads :
           /\ k.file = f /\ k.policy = backfilled
           /\ \A m \in Sent : m.file = f /\ m.at > k.at => m.policy = backfilled
    BY <1>1 DEF IInv, Backfill
  <2>2. PICK l \in loads :
           /\ l.file = f /\ \A m \in loads : m.file = f => m.at <= l.at
           /\ ShownPolicies(Rows, f) \subseteq {l.policy}
    BY <1>1, <2>1, ViewShows DEF IInv
  <2>3. k.at \in Nat /\ l.at \in Nat /\ k.at <= l.at
    BY <1>1, <2>1, <2>2 DEF IInv, TypeInv, TypeOK, Load
  <2>4. l.policy = backfilled
    BY <1>1, <2>1, <2>2, <2>3 DEF IInv, Stamps, Sent
  <2> QED BY <2>2, <2>4
<1>2. IInv => MetadataBackfilled
  BY <1>1 DEF MetadataBackfilled
<1> QED BY <1>2, PipelineInductive, PTL

\* After a run that succeeded while Drive did not change, the view shows Drive, and keeps
\* showing it until Drive is edited; unless an earlier content came back (Revert).
THEOREM SuccessIsCurrent ==
    ASSUME OneRun, ~Revert
    PROVE  Spec => []SuccessMeansCurrent
<1>1. ASSUME IInv, current, NEW f \in Markdown PROVE Shown(Rows, f) = Expected(f)
  <2>1. PICK k \in loads :
           /\ k.file = f
           /\ \A m \in Sent : m.file = f /\ m.at >= k.at =>
                 m.version = drive[f].content /\ m.name = drive[f].name
    BY <1>1 DEF IInv, Current
  <2>2. PICK l \in loads :
           /\ l.file = f /\ \A m \in loads : m.file = f => m.at <= l.at
           /\ Shown(Rows, f) = ChunksOf(l)
    BY <1>1, <2>1, ViewShows DEF IInv
  <2>3. k.at \in Nat /\ l.at \in Nat /\ k.at <= l.at
    BY <1>1, <2>1, <2>2 DEF IInv, TypeInv, TypeOK, Load
  <2>4. l.version = drive[f].content /\ l.name = drive[f].name
    BY <2>1, <2>2, <2>3 DEF Sent
  <2> QED BY <2>2, <2>4 DEF ChunksOf, Expected
<1>2. IInv => SuccessMeansCurrent
  BY <1>1 DEF SuccessMeansCurrent
<1> QED BY <1>2, PipelineInductive, PTL

\* A Markdown file that the view does not show as it is in Drive will be processed by the
\* next run: whatever failed, was killed or went unnoticed, no file is stuck.
THEOREM NothingIsForgotten ==
    ASSUME OneRun, ~Revert
    PROVE  Spec => []NothingForgotten
<1>1. ASSUME IInv, NEW f \in Markdown, ~IsPending(FirestoreUpsert(store[f], ListingOf(f)))
      PROVE  Shown(Rows, f) = Expected(f)
  <2>1. f \in Files /\ f \notin Workspace
    BY PipelineAssumption
  <2>2. Done(f) /\ store[f].path = drive[f].name /\ store[f].checksum = drive[f].content
    <3>1. store[f] \in Doc \cup {NoDoc} /\ ListingOf(f) \in Listing
      BY <1>1, <2>1, ListingType DEF IInv, TypeInv, TypeOK
    <3>2. ~IsPending(PendingDoc(ListingOf(f))) => FALSE
      BY <3>1, RecordType, RepoAssumption DEF IsPending, PendingDoc
    <3>3. /\ store[f] # NoDoc /\ store[f].status # "failed"
          /\ store[f].checksum = ListingOf(f).checksum /\ store[f].path = ListingOf(f).path
          /\ ~IsPending(store[f])
      BY <1>1, <3>2 DEF FirestoreUpsert
    <3> QED BY <2>1, <3>1, <3>3 DEF IsPending, Done, Doc, ListingOf
  <2>3. PICK l \in loads : /\ l.file = f /\ Newest(l) /\ l.name = store[f].path
                           /\ store[f].checksum <= l.version
    BY <1>1, <2>2 DEF IInv, Settled, Delivered
  <2>4. l.version = drive[f].content
    <3>1. l \in Sent /\ l \in Load
      BY <1>1 DEF IInv, Sent, TypeInv, TypeOK
    <3>2. l.version \in Nat /\ drive[f].content \in Nat
      BY <1>1, <2>1, <3>1, PipelineAssumption DEF IInv, Load, TypeInv, TypeOK, DriveFile
    <3>3. l.version <= drive[f].content
      BY <1>1, <2>3, <3>1 DEF IInv, Growing, GrowingLoads
    <3> QED BY <2>2, <2>3, <3>2, <3>3
  <2>5. Shown(Rows, f) = ChunksOf(l)
    BY <1>1, <2>3, DeliveredShown DEF IInv
  <2> QED BY <2>2, <2>3, <2>4, <2>5 DEF ChunksOf, Expected
<1>2. IInv => NothingForgotten
  BY <1>1 DEF NothingForgotten
<1> QED BY <1>2, PipelineInductive, PTL

\* The view never goes back to an earlier content of a file, although Load Jobs commit
\* late and runs are repeated.
THEOREM ViewOnlyAdvances ==
    ASSUME OneRun, ~Revert
    PROVE  Spec => ViewNeverRegresses
<1>1. ASSUME IInv, IInv', [Next]_vars, NEW f \in Markdown,
             NEW row \in Shown(Rows, f), NEW new \in Shown(Rows, f)'
      PROVE  new.version >= row.version
  <2>1. /\ loads \in SUBSET Load /\ loads' \in SUBSET Load /\ loads \subseteq loads'
    BY <1>1, SentSource DEF IInv, TypeInv, TypeOK
  <2>2. PICK k \in loads : k.file = f /\ Shown(Rows, f) = ChunksOf(k)
    BY <1>1, ViewShows DEF IInv
  <2>3. PICK l \in loads' :
           /\ l.file = f
           /\ \A m \in loads' : m.file = f => m.at <= l.at /\ (m.at = l.at => m = l)
    <3>1. HasNewest(loads)' /\ k \in loads'
      BY <1>1, <2>1 DEF IInv, Stamps
    <3>2. PICK l \in loads' : l.file = f /\ \A m \in loads' : m.file = f => m.at <= l.at
      BY <2>2, <3>1 DEF HasNewest
    <3>3. \A m \in loads' : m.file = f /\ m.at = l.at => m = l
      BY <1>1, <3>2 DEF IInv, Stamps, Sent
    <3> QED BY <3>2, <3>3
  <2>4. Shown(Rows, f)' = ChunksOf(l)
    BY <2>1, <2>3, NewestShown DEF Rows
  <2>5. row.version = k.version /\ new.version = l.version
    BY <2>2, <2>4 DEF ChunksOf, Chunks
  <2>6. k.version <= l.version
    <3>1. k.version \in Nat /\ l.version \in Nat /\ k.at \in Nat /\ l.at \in Nat
      BY <2>1, <2>2, <2>3, RowsOfLoad
    <3>2. k.at < l.at \/ k = l
      BY <2>1, <2>2, <2>3, <3>1
    <3>3. k.at < l.at => k.version <= l.version
      BY <1>1, <2>1, <2>2, <2>3 DEF IInv, Growing, GrowingLoads, Sent
    <3> QED BY <3>1, <3>2, <3>3
  <2> QED BY <2>1, <2>2, <2>3, <2>5, <2>6, RowsOfLoad
<1>2. IInv /\ IInv' /\ [Next]_vars =>
        [\A f \in Markdown : \A row \in Shown(Rows, f) : \A new \in Shown(Rows, f)' :
            new.version >= row.version]_loads
  BY <1>1
<1> QED BY <1>2, PipelineInductive, PTL DEF Spec, ViewNeverRegresses

=============================================================================
