----------------------------- MODULE WorkerPool -----------------------------
(***************************************************************************)
(* One call of etl.Run (internal/etl/worker_pool.go): the main goroutine    *)
(* lists the pending files and feeds them through a buffered channel to a   *)
(* fixed pool of worker goroutines; each worker downloads a file, loads its *)
(* chunks (Markdown only, with retries) and its drive_files row into        *)
(* BigQuery, and records the outcome in the state store.                    *)
(*                                                                          *)
(* A remote call is one step: the step is its return. A BigQuery call that  *)
(* returns an error may nevertheless have appended its rows (the outcome of *)
(* jobs.insert, or of a Wait that was cut short, is unknown), and a status  *)
(* update that returns an error may have been applied. The check of         *)
(* ctx.Err() that follows a failed call is part of the step of that call.   *)
(***************************************************************************)
EXTENDS Naturals, FiniteSets

CONSTANTS Workers,      \* the goroutines started by Run (5 in the code)
          Files,        \* the files known to the state store
          Markdown,     \* the files whose MIME type is text/markdown
          BufCap,       \* capacity of the jobs channel (100 in the code)
          MaxAttempts,  \* bigQueryLoadMaxAttempts (3 in the code)
          NoFile        \* "the worker holds no job"

ASSUME PoolAssumption ==
    /\ Workers # {} /\ IsFiniteSet(Workers)
    /\ IsFiniteSet(Files)
    /\ Markdown \subseteq Files
    /\ BufCap \in Nat \ {0}
    /\ MaxAttempts \in Nat \ {0}
    /\ NoFile \notin Files

VARIABLES
    mpc,         \* where the main goroutine is: "start", "feed", "wait", "returned"
    result,      \* what Run returned
    ctxDone,     \* the context has been cancelled (SIGTERM, interrupt)
    listed,      \* the files ListPending returned
    unfed,       \* listed files not yet sent to the channel
    queue,       \* files in the channel
    wpc,         \* wpc[w]: where worker w is
    job,         \* job[w]: the file worker w is processing
    attempt,     \* attempt[w]: chunk Load Jobs submitted for job[w]
    status,      \* status[f]: sync_status of f in the state store
    chunkLoads,  \* chunkLoads[f]: chunk Load Jobs of f that committed in this run
    metaLoads,   \* metaLoads[f]: drive_files Load Jobs of f that committed in this run
    failedFiles, failedStatusUpdates  \* the atomic counters of Run

mainVars == <<mpc, result, listed, unfed>>
counters == <<failedFiles, failedStatusUpdates>>
loads == <<chunkLoads, metaLoads>>
vars == <<mpc, result, ctxDone, listed, unfed, queue, wpc, job, attempt,
          status, chunkLoads, metaLoads, failedFiles, failedStatusUpdates>>

SyncStatus == {"pending", "done", "failed"}

\* The goroutine has not been started, waits in its select, waits for a call
\* to return (download, chunks, metadata, mark_done, mark_failed), is between
\* two attempts (try, backoff) or has returned.
WorkerPC == {"none", "idle", "download", "try", "chunks", "backoff",
             "metadata", "mark_done", "mark_failed", "exited"}

TypeOK ==
    /\ mpc \in {"start", "feed", "wait", "returned"}
    /\ result \in {"none", "ok", "failed", "cancelled", "startup"}
    /\ ctxDone \in BOOLEAN
    /\ listed \in SUBSET Files
    /\ unfed \in SUBSET Files
    /\ queue \in SUBSET Files
    /\ wpc \in [Workers -> WorkerPC]
    /\ job \in [Workers -> Files \cup {NoFile}]
    /\ attempt \in [Workers -> 0..MaxAttempts]
    /\ status \in [Files -> SyncStatus]
    /\ chunkLoads \in [Files -> Nat]
    /\ metaLoads \in [Files -> Nat]
    /\ failedFiles \in Nat
    /\ failedStatusUpdates \in Nat

Init ==
    /\ mpc = "start"
    /\ result = "none"
    /\ ctxDone \in BOOLEAN
    /\ listed = {} /\ unfed = {} /\ queue = {}
    /\ wpc = [w \in Workers |-> "none"]
    /\ job = [w \in Workers |-> NoFile]
    /\ attempt = [w \in Workers |-> 0]
    /\ status \in [Files -> SyncStatus]
    /\ chunkLoads = [f \in Files |-> 0]
    /\ metaLoads = [f \in Files |-> 0]
    /\ failedFiles = 0 /\ failedStatusUpdates = 0

-----------------------------------------------------------------------------
(* The main goroutine *)

\* RETRO_SPRINT_FROM_MONTH is malformed, or ListPending returned an error.
StartupError ==
    /\ mpc = "start"
    /\ mpc' = "returned"
    /\ result' = "startup"
    /\ UNCHANGED <<ctxDone, listed, unfed, queue, wpc, job, attempt, status>>
    /\ UNCHANGED loads /\ UNCHANGED counters

\* ListPending returned the pending files, in no particular order (neither
\* backend sorts them); the workers are started.
ListPending ==
    /\ mpc = "start"
    /\ mpc' = "feed"
    /\ listed' = {f \in Files : status[f] = "pending"}
    /\ unfed' = listed'
    /\ wpc' = [w \in Workers |-> "idle"]
    /\ UNCHANGED <<result, ctxDone, queue, job, attempt, status>>
    /\ UNCHANGED loads /\ UNCHANGED counters

\* jobs <- f. The channel is FIFO; as the listing is in an arbitrary order and
\* the workers are interchangeable, the set of its elements is enough.
Feed ==
    /\ mpc = "feed"
    /\ Cardinality(queue) < BufCap
    /\ \E f \in unfed : /\ unfed' = unfed \ {f}
                        /\ queue' = queue \cup {f}
    /\ UNCHANGED <<mpc, result, listed, ctxDone, wpc, job, attempt, status>>
    /\ UNCHANGED loads /\ UNCHANGED counters

\* The range loop is over: close(jobs).
CloseJobs ==
    /\ mpc = "feed"
    /\ unfed = {}
    /\ mpc' = "wait"
    /\ UNCHANGED <<result, listed, unfed, ctxDone, queue, wpc, job, attempt, status>>
    /\ UNCHANGED loads /\ UNCHANGED counters

\* Faulty: a plain send, without the <-ctx.Done() case.
StopFeedingFaulty == FALSE

\* The select of the feeding loop took <-ctx.Done(): close(jobs) and stop.
StopFeeding ==
    /\ mpc = "feed"
    /\ unfed # {}
    /\ ctxDone
    /\ mpc' = "wait"
    /\ UNCHANGED <<result, listed, unfed, ctxDone, queue, wpc, job, attempt, status>>
    /\ UNCHANGED loads /\ UNCHANGED counters

Closed == mpc \in {"wait", "returned"}

\* Faulty: ctx.Err() is not consulted after wg.Wait().
ReturnFaulty ==
    /\ mpc = "wait"
    /\ \A w \in Workers : wpc[w] = "exited"
    /\ mpc' = "returned"
    /\ result' = IF failedFiles > 0 THEN "failed" ELSE "ok"
    /\ UNCHANGED <<listed, unfed, ctxDone, queue, wpc, job, attempt, status>>
    /\ UNCHANGED loads /\ UNCHANGED counters

\* wg.Wait() is over; a cancellation wins over the count of failures.
Return ==
    /\ mpc = "wait"
    /\ \A w \in Workers : wpc[w] = "exited"
    /\ mpc' = "returned"
    /\ result' = IF ctxDone THEN "cancelled"
                 ELSE IF failedFiles > 0 THEN "failed" ELSE "ok"
    /\ UNCHANGED <<listed, unfed, ctxDone, queue, wpc, job, attempt, status>>
    /\ UNCHANGED loads /\ UNCHANGED counters

Main == StartupError \/ ListPending \/ Feed \/ CloseJobs \/ StopFeeding \/ Return

-----------------------------------------------------------------------------
(* A worker *)

Goto(w, pc) == wpc' = [wpc EXCEPT ![w] = pc]

Release(w) == job' = [job EXCEPT ![w] = NoFile]

\* Faulty: the job is handed out and stays in the channel.
TakeFaulty(w) ==
    /\ wpc[w] = "idle"
    /\ \E f \in queue : job' = [job EXCEPT ![w] = f]
    /\ attempt' = [attempt EXCEPT ![w] = 0]
    /\ Goto(w, "download")
    /\ UNCHANGED mainVars /\ UNCHANGED <<ctxDone, queue, status>>
    /\ UNCHANGED loads /\ UNCHANGED counters

\* case file := <-jobs. A select with two ready cases takes either, so a job
\* may be taken after the cancellation.
Take(w) ==
    /\ wpc[w] = "idle"
    /\ \E f \in queue : /\ queue' = queue \ {f}
                        /\ job' = [job EXCEPT ![w] = f]
    /\ attempt' = [attempt EXCEPT ![w] = 0]
    /\ Goto(w, "download")
    /\ UNCHANGED mainVars /\ UNCHANGED <<ctxDone, status>>
    /\ UNCHANGED loads /\ UNCHANGED counters

\* Faulty: a worker returns as soon as the channel is closed, drained or not.
ExitFaulty(w) ==
    /\ wpc[w] = "idle"
    /\ Closed \/ ctxDone
    /\ Goto(w, "exited")
    /\ UNCHANGED mainVars /\ UNCHANGED <<ctxDone, queue, job, attempt, status>>
    /\ UNCHANGED loads /\ UNCHANGED counters

\* The channel is closed and drained, or the select took <-ctx.Done().
Exit(w) ==
    /\ wpc[w] = "idle"
    /\ (Closed /\ queue = {}) \/ ctxDone
    /\ Goto(w, "exited")
    /\ UNCHANGED mainVars /\ UNCHANGED <<ctxDone, queue, job, attempt, status>>
    /\ UNCHANGED loads /\ UNCHANGED counters

\* Faulty: the worker returns on any error instead of going on with the next file.
GiveUpFaulty(w) ==
    /\ Goto(w, "exited") /\ Release(w)
    /\ UNCHANGED failedFiles

\* A call for the file of w failed for good. After a cancellation the worker
\* returns and leaves the file pending; otherwise markFailed counts the file.
GiveUp(w) ==
    \/ /\ ctxDone
       /\ Goto(w, "exited") /\ Release(w)
       /\ UNCHANGED failedFiles
    \/ /\ ~ctxDone
       /\ Goto(w, "mark_failed")
       /\ failedFiles' = failedFiles + 1
       /\ UNCHANGED job

\* The rows of a Load Job that did not report success are in the table or not.
MayLand(tbl, w) ==
    \E n \in {0, 1} : tbl' = [tbl EXCEPT ![job[w]] = @ + n]

Lands(tbl, w) == tbl' = [tbl EXCEPT ![job[w]] = @ + 1]

\* Parsing works on the bytes in memory: it has no error to return.
DownloadOk(w) ==
    /\ wpc[w] = "download"
    /\ Goto(w, IF job[w] \in Markdown THEN "try" ELSE "metadata")
    /\ UNCHANGED mainVars /\ UNCHANGED <<ctxDone, queue, job, attempt, status>>
    /\ UNCHANGED loads /\ UNCHANGED counters

DownloadError(w) ==
    /\ wpc[w] = "download"
    /\ GiveUp(w)
    /\ UNCHANGED mainVars /\ UNCHANGED <<ctxDone, queue, attempt, status>>
    /\ UNCHANGED loads /\ UNCHANGED failedStatusUpdates

\* insertRowsWithRetry: ctx.Err() is nil, the next Load Job is submitted.
StartAttempt(w) ==
    /\ wpc[w] = "try"
    /\ ~ctxDone
    /\ attempt' = [attempt EXCEPT ![w] = @ + 1]
    /\ Goto(w, "chunks")
    /\ UNCHANGED mainVars /\ UNCHANGED <<ctxDone, queue, job, status>>
    /\ UNCHANGED loads /\ UNCHANGED counters

\* The check before an attempt, or the wait between two, sees the cancellation.
StopRetrying(w) ==
    /\ wpc[w] \in {"try", "backoff"}
    /\ ctxDone
    /\ Goto(w, "exited") /\ Release(w)
    /\ UNCHANGED mainVars /\ UNCHANGED <<ctxDone, queue, attempt, status>>
    /\ UNCHANGED loads /\ UNCHANGED counters

\* The timer of waitForContext fired.
BackoffOver(w) ==
    /\ wpc[w] = "backoff"
    /\ Goto(w, "try")
    /\ UNCHANGED mainVars /\ UNCHANGED <<ctxDone, queue, job, attempt, status>>
    /\ UNCHANGED loads /\ UNCHANGED counters

ChunksOk(w) ==
    /\ wpc[w] = "chunks"
    /\ Lands(chunkLoads, w)
    /\ Goto(w, "metadata")
    /\ UNCHANGED mainVars /\ UNCHANGED <<ctxDone, queue, job, attempt, status, metaLoads>>
    /\ UNCHANGED counters

\* HTTP 500, 502, 503 or 504 with attempts left.
ChunksTransient(w) ==
    /\ wpc[w] = "chunks"
    /\ attempt[w] < MaxAttempts
    /\ MayLand(chunkLoads, w)
    /\ Goto(w, "backoff")
    /\ UNCHANGED mainVars /\ UNCHANGED <<ctxDone, queue, job, attempt, status, metaLoads>>
    /\ UNCHANGED counters

\* Faulty: after the failed chunk load the worker goes on with the metadata.
ChunksErrorFaulty(w) ==
    /\ wpc[w] = "chunks"
    /\ MayLand(chunkLoads, w)
    /\ Goto(w, "metadata")
    /\ UNCHANGED mainVars
    /\ UNCHANGED <<ctxDone, queue, job, attempt, status, metaLoads>>
    /\ UNCHANGED counters

\* Any other error, or a transient one on the last attempt.
ChunksError(w) ==
    /\ wpc[w] = "chunks"
    /\ MayLand(chunkLoads, w)
    /\ GiveUp(w)
    /\ UNCHANGED mainVars
    /\ UNCHANGED <<ctxDone, queue, attempt, status, metaLoads, failedStatusUpdates>>

MetadataOk(w) ==
    /\ wpc[w] = "metadata"
    /\ Lands(metaLoads, w)
    /\ Goto(w, "mark_done")
    /\ UNCHANGED mainVars /\ UNCHANGED <<ctxDone, queue, job, attempt, status, chunkLoads>>
    /\ UNCHANGED counters

\* Faulty: the drive_files Load Job is submitted again after an error.
MetadataErrorFaulty(w) ==
    /\ wpc[w] = "metadata"
    /\ MayLand(metaLoads, w)
    /\ UNCHANGED mainVars
    /\ UNCHANGED <<ctxDone, queue, wpc, job, attempt, status, chunkLoads>>
    /\ UNCHANGED counters

\* The drive_files Load Job is never retried.
MetadataError(w) ==
    /\ wpc[w] = "metadata"
    /\ MayLand(metaLoads, w)
    /\ GiveUp(w)
    /\ UNCHANGED mainVars
    /\ UNCHANGED <<ctxDone, queue, attempt, status, chunkLoads, failedStatusUpdates>>

\* repo.UpdateStatus(f, s) returned nil.
StatusWritten(f, s) == status' = [status EXCEPT ![f] = s]

\* repo.UpdateStatus(f, s) returned an error.
StatusUnknown(f, s) == status' \in {status, [status EXCEPT ![f] = s]}

\* The UpdateStatus(failed) of markFailed.
MarkFailed(w) ==
    /\ wpc[w] = "mark_failed"
    /\ \/ StatusWritten(job[w], "failed") /\ UNCHANGED failedStatusUpdates
       \/ /\ StatusUnknown(job[w], "failed")
          /\ failedStatusUpdates' = failedStatusUpdates + 1
    /\ Goto(w, "idle") /\ Release(w)
    /\ UNCHANGED mainVars /\ UNCHANGED <<ctxDone, queue, attempt, failedFiles>>
    /\ UNCHANGED loads

\* Faulty: a failed UpdateStatus(done) is handed to markFailed.
MarkDoneFaulty(w) ==
    /\ wpc[w] = "mark_done"
    /\ \/ /\ StatusWritten(job[w], "done") /\ UNCHANGED counters
          /\ Goto(w, "idle") /\ Release(w)
       \/ /\ StatusUnknown(job[w], "done")
          /\ failedFiles' = failedFiles + 1
          /\ Goto(w, "mark_failed")
          /\ UNCHANGED <<job, failedStatusUpdates>>
    /\ UNCHANGED mainVars /\ UNCHANGED <<ctxDone, queue, attempt>>
    /\ UNCHANGED loads

\* Faulty: a failed UpdateStatus(done) only counts as a failed status update.
MarkDoneUncounted(w) ==
    /\ wpc[w] = "mark_done"
    /\ \/ StatusWritten(job[w], "done") /\ UNCHANGED counters
       \/ /\ StatusUnknown(job[w], "done")
          /\ failedStatusUpdates' = failedStatusUpdates + 1
          /\ UNCHANGED failedFiles
    /\ Goto(w, "idle") /\ Release(w)
    /\ UNCHANGED mainVars /\ UNCHANGED <<ctxDone, queue, attempt>>
    /\ UNCHANGED loads

\* UpdateStatus(done): an error is counted, never retried nor reported as failed.
MarkDone(w) ==
    /\ wpc[w] = "mark_done"
    /\ \/ StatusWritten(job[w], "done") /\ UNCHANGED counters
       \/ /\ StatusUnknown(job[w], "done")
          /\ failedFiles' = failedFiles + 1
          /\ failedStatusUpdates' = failedStatusUpdates + 1
    /\ Goto(w, "idle") /\ Release(w)
    /\ UNCHANGED mainVars /\ UNCHANGED <<ctxDone, queue, attempt>>
    /\ UNCHANGED loads

Worker(w) ==
    \/ Take(w) \/ Exit(w)
    \/ DownloadOk(w) \/ DownloadError(w)
    \/ StartAttempt(w) \/ StopRetrying(w) \/ BackoffOver(w)
    \/ ChunksOk(w) \/ ChunksTransient(w) \/ ChunksError(w)
    \/ MetadataOk(w) \/ MetadataError(w)
    \/ MarkFailed(w) \/ MarkDone(w)

\* signal.NotifyContext cancels the context of Run.
Cancel ==
    /\ ~ctxDone
    /\ mpc # "returned"
    /\ ctxDone' = TRUE
    /\ UNCHANGED mainVars /\ UNCHANGED <<queue, wpc, job, attempt, status>>
    /\ UNCHANGED loads /\ UNCHANGED counters

Next == Main \/ Cancel \/ \E w \in Workers : Worker(w)

\* Goroutines that can run do run, timers fire and remote calls return: the code
\* sets no deadline of its own, so the last is an assumption about Drive,
\* BigQuery and the state store. Nobody has to cancel.
Fairness == WF_vars(Main) /\ \A w \in Workers : WF_vars(Worker(w))

Spec == Init /\ [][Next]_vars /\ Fairness

-----------------------------------------------------------------------------
(* Properties *)

Busy(w) == wpc[w] \notin {"none", "idle", "exited"}

\* The rows that the processing of f promises are in BigQuery.
Loaded(f) == metaLoads[f] > 0 /\ (f \in Markdown => chunkLoads[f] > 0)

\* Every listed file is in one place at most: not yet sent, in the channel, or
\* with one worker. Two workers on one file would load it twice.
SingleOwner ==
    /\ unfed \cap queue = {}
    /\ \A w \in Workers :
        /\ Busy(w) <=> job[w] # NoFile
        /\ job[w] \notin unfed \cup queue
        /\ \A v \in Workers : job[v] = job[w] /\ v # w => job[w] = NoFile

\* A file this run recorded as done has its drive_files row, and its chunks if
\* it is Markdown: the next discovery skips a done file, so rows that are
\* missing here would stay missing.
DoneMeansLoaded == \A f \in listed : status[f] = "done" => Loaded(f)

\* In one run a file gets at most one drive_files row (the table has no
\* deduplicating view), and at most MaxAttempts copies of its chunks.
LoadsBounded ==
    \A f \in Files : metaLoads[f] <= 1 /\ chunkLoads[f] <= MaxAttempts

\* Run returns nil only if it recorded every file it listed as done, loaded.
SuccessMeansComplete ==
    result = "ok" => \A f \in listed : status[f] = "done" /\ Loaded(f)

\* A run that was not cancelled leaves a listed file pending only if it could
\* not write the file's status, and then it counts that.
NoFileLost ==
    result \in {"ok", "failed"} =>
        Cardinality({f \in listed : status[f] = "pending"}) <= failedStatusUpdates

\* The counts in the error of Run: each listed file is counted at most once,
\* every file recorded as failed is counted, and a count without such a record
\* is a failed status update (or an update still to come).
FailureReportExact ==
    LET failed == Cardinality({f \in listed : status[f] = "failed"})
        marking == Cardinality({w \in Workers : wpc[w] = "mark_failed"})
    IN  /\ failedStatusUpdates <= failedFiles
        /\ failedFiles <= Cardinality(listed)
        /\ failed <= failedFiles
        /\ failedFiles <= failed + failedStatusUpdates + marking

\* A run changes the status of files it listed only, from pending, and once:
\* an outcome it recorded is never overwritten.
StatusSettledOnce ==
    [][\A f \in Files :
        status'[f] # status[f] => f \in listed /\ status[f] = "pending"]_vars

\* Run returns: no worker, and no send into a full channel that nobody reads any
\* more, blocks it for ever, cancelled or not.
Terminates == <>(mpc = "returned")

\* Every listed file gets an outcome, unless the run is cancelled or a status
\* update fails.
EveryFileSettles ==
    \A f \in Files :
        f \in listed ~> status[f] # "pending" \/ ctxDone \/ failedStatusUpdates > 0

\* The contract that cmd/worker relies on, and the state of it that a run shows.
Contract == INSTANCE RunContract WITH
    phase <- IF mpc = "start" THEN "idle"
             ELSE IF mpc = "returned" THEN "returned" ELSE "running",
    todo <- listed,
    cancelled <- ctxDone,
    failures <- failedFiles > 0

\* Run implements the contract: whatever the workers interleave, the state store
\* sees each listed file settled at most once and the verdict matches.
ImplementsContract == Contract!Spec

-----------------------------------------------------------------------------
(* The inductive invariant behind the safety properties *)

\* Before ListPending nothing has happened.
NotStarted ==
    mpc = "start" =>
        /\ listed = {} /\ unfed = {} /\ queue = {}
        /\ \A w \in Workers : wpc[w] = "none"
        /\ \A f \in Files : chunkLoads[f] = 0 /\ metaLoads[f] = 0

\* Files on their way to a worker were listed, are pending and have no rows.
Waiting ==
    /\ unfed \cup queue \subseteq listed
    /\ \A f \in unfed \cup queue :
        status[f] = "pending" /\ chunkLoads[f] = 0 /\ metaLoads[f] = 0

\* What a worker knows of its file at each point of the loop body.
InProgress ==
    \A w \in Workers : Busy(w) =>
        LET f == job[w] IN
        /\ f \in listed /\ status[f] = "pending"
        /\ chunkLoads[f] <= attempt[w]
        /\ wpc[w] = "download" => attempt[w] = 0
        /\ wpc[w] \in {"try", "backoff"} => attempt[w] < MaxAttempts
        /\ wpc[w] = "chunks" => chunkLoads[f] < attempt[w]
        /\ wpc[w] \in {"download", "try", "chunks", "backoff", "metadata"}
             => metaLoads[f] = 0
        /\ wpc[w] = "metadata" /\ f \in Markdown => chunkLoads[f] > 0
        /\ wpc[w] = "mark_done" => Loaded(f)
        /\ wpc[w] = "mark_failed" => failedFiles > 0

\* A listed file is still under way or done, or the run knows why it is not.
Accounted ==
    \A f \in listed :
        \/ f \in unfed \cup queue \/ \E w \in Workers : job[w] = f
        \/ status[f] = "done"
        \/ failedFiles > 0 \/ ctxDone

\* Without a cancellation the channel is closed after the last file was sent,
\* and no worker leaves before the channel is closed and empty.
Drained ==
    ~ctxDone =>
        /\ Closed => unfed = {}
        /\ (\E w \in Workers : wpc[w] = "exited") => Closed /\ queue = {}

\* The verdict was computed after the last worker left.
Verdict ==
    /\ result # "none" <=> mpc = "returned"
    /\ result = "startup" => listed = {} /\ \A w \in Workers : wpc[w] = "none"
    /\ result \in {"ok", "failed", "cancelled"} => \A w \in Workers : wpc[w] = "exited"
    /\ result \in {"ok", "failed"} => ~ctxDone
    /\ result = "ok" => failedFiles = 0

Core ==
    /\ TypeOK /\ SingleOwner /\ DoneMeansLoaded /\ LoadsBounded
    /\ NotStarted /\ Waiting /\ InProgress /\ Accounted /\ Drained /\ Verdict

\* The listed files recorded as failed, the workers about to record one, the files
\* nobody will work on any more, those of them that are still pending, and the files
\* that a failure can have been counted for.
Failed == {f \in listed : status[f] = "failed"}
Marking == {w \in Workers : wpc[w] = "mark_failed"}
LetGo == {f \in listed \ (unfed \cup queue) : \A w \in Workers : job[w] # f}
Lost == {f \in LetGo : status[f] = "pending"}
Counted == LetGo \cup {job[w] : w \in Marking}

\* Every failure is counted for a file of its own, before its status is written; every
\* count has a record, a failed update or a worker behind it; and without a
\* cancellation every file that was let go without an outcome is a failed update.
Counts ==
    /\ Cardinality(Failed) + Cardinality(Marking) <= failedFiles
    /\ failedStatusUpdates + Cardinality(Marking) <= failedFiles
    /\ failedFiles <= Cardinality(Failed) + failedStatusUpdates + Cardinality(Marking)
    /\ failedFiles <= Cardinality(Counted)
    /\ ~ctxDone => Cardinality(Lost) <= failedStatusUpdates

IInv == Core /\ Counts

-----------------------------------------------------------------------------
(* What the documentation says of a run *)

\* README.md, section 2: on SIGTERM, the jobs in progress are completed. So a file that
\* a worker holds while the context is still alive gets an outcome, whatever happens
\* afterwards, unless the status update itself fails.
InFlightJobsComplete ==
    \A w \in Workers, f \in Files :
        job[w] = f /\ ~ctxDone ~> status[f] # "pending" \/ failedStatusUpdates > 0

=============================================================================
