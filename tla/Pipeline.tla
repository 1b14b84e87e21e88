------------------------------ MODULE Pipeline ------------------------------
(***************************************************************************)
(* Successive worker runs (runPipeline, cmd/worker/main.go) against a Drive  *)
(* folder whose files are edited and renamed meanwhile. A run lists Drive,   *)
(* registers every file in the state store, lets the worker pool process     *)
(* the pending ones and returns a verdict; it can be killed or cancelled     *)
(* between any two steps, and a Load Job whose outcome it never learned can  *)
(* commit long after it. With several identifiers in Runs, runs overlap.     *)
(*                                                                          *)
(* WorkerPool models the goroutines, the channel and the retries of one run; *)
(* here the files in the pool advance independently, and a chunk load stands *)
(* for all its attempts, which append the same rows.                         *)
(***************************************************************************)
EXTENDS Integers, FiniteSets, FileRepo, ChunksCurrent

CONSTANTS Runs,         \* identifiers of the runs that can be active at once
          Files,        \* the files of the Drive folder
          Markdown,     \* those whose MIME type is text/markdown
          Workspace,    \* those that Drive lists without a checksum
          NumChunks,    \* NumChunks[c]: the number of chunks content c parses into
          NoTask,       \* "the pool of the run has nothing to do for the file"
          NoFile,       \* "no file"
          Reprocess,    \* the values REPROCESS_ALL takes
          Policies,     \* the settings of RETRO_SPRINT_FROM_MONTH
          NoPolicy,     \* no setting was read
          Revert,       \* a Drive file may return to an earlier content
          MaxEdits,     \* bound on the edits of Drive files
          MaxStarts     \* bound on the runs that are started

\* Contents are numbered, and a checksum stands for the content it identifies.
ASSUME PipelineAssumption ==
    /\ Checksums \subseteq Nat
    /\ Markdown \subseteq Files /\ Workspace \subseteq Files \ Markdown
    /\ NumChunks \in [Checksums -> Nat]
    /\ Reprocess \subseteq BOOLEAN
    /\ Revert \in BOOLEAN /\ MaxEdits \in Nat /\ MaxStarts \in Nat
    /\ NoFile \notin Files /\ NoPolicy \notin Policies

VARIABLES
    drive,    \* drive[f]: name and content of f in Drive
    store,    \* store[f]: the record of f in the state store
    loads,    \* the chunk loads committed to BigQuery
    late,     \* chunk loads whose outcome the worker never learned, still running
    clock,    \* the clock ingested_at is read from
    phase,    \* phase[r]: "off", "register" or "pool"
    listing,  \* listing[r]: what ListFiles returned, of the files not yet upserted
    requeue,  \* requeue[r]: the file REPROCESS_ALL is about to set pending
    force,    \* force[r]: REPROCESS_ALL = "true"
    policy,   \* policy[r]: the setting that the pool of r works with
    failed,   \* failed[r]: a registration or a file of the run failed
    task,     \* task[r][f]: the work of the pool on f
    edits, starts,   \* counters for the bounds
    disturbed,  \* disturbed[r]: Drive was edited since run r listed it
    current,    \* a run succeeded undisturbed, and Drive was not edited since
    backfilled  \* the setting of the last forced one, unless another was used since

runVars == <<phase, listing, requeue, force, policy, failed, task>>
bigquery == <<loads, late>>
goals == <<current, backfilled>>
vars == <<drive, store, loads, late, clock, phase, listing, requeue,
          force, policy, failed, task, edits, starts, disturbed, goals>>

DriveFile == [name : Paths, content : Checksums]
Load == [file : Markdown, version : Checksums, name : Paths, at : Nat,
         policy : Policies]
Stage == {"queued", "got", "chunks", "metadata", "mark_done", "mark_failed"}
NoContent == CHOOSE c \in Checksums : TRUE   \* nothing downloaded yet
Task == [stage : Stage, doc : Doc, content : Checksums, at : Nat]

ASSUME TaskAssumption == NoTask \notin Task

TypeOK ==
    /\ drive \in [Files -> DriveFile]
    /\ store \in [Files -> Doc \cup {NoDoc}]
    /\ loads \subseteq Load /\ late \subseteq Load
    /\ clock \in Nat
    /\ phase \in [Runs -> {"off", "register", "pool"}]
    /\ listing \in [Runs -> UNION {[F -> Listing] : F \in SUBSET Files}]
    /\ requeue \in [Runs -> Files \cup {NoFile}]
    /\ force \in [Runs -> BOOLEAN]
    /\ policy \in [Runs -> Policies \cup {NoPolicy}]
    /\ failed \in [Runs -> BOOLEAN]
    /\ task \in [Runs -> [Files -> Task \cup {NoTask}]]
    /\ edits \in 0..MaxEdits /\ starts \in 0..MaxStarts
    /\ disturbed \in [Runs -> BOOLEAN]
    /\ current \in BOOLEAN
    /\ backfilled \in Policies \cup {NoPolicy}

\* What ListFiles says of f.
ListingOf(f) ==
    [path |-> drive[f].name,
     checksum |-> IF f \in Workspace THEN NoChecksum ELSE drive[f].content]

\* A Load Job appends one row per chunk, or a tombstone when there is none.
RowsOf(l) ==
    LET n == NumChunks[l.version] IN
    {[file |-> l.file, version |-> l.version, name |-> l.name, at |-> l.at,
      policy |-> l.policy, index |-> i, deleted |-> n = 0] : i \in 0..(IF n = 0 THEN 0 ELSE n - 1)}

Rows == UNION {RowsOf(l) : l \in loads}

Init ==
    /\ drive \in [Files -> {d \in DriveFile : \A c \in Checksums : d.content <= c}]
    /\ store = [f \in Files |-> NoDoc]
    /\ loads = {} /\ late = {} /\ clock = 0
    /\ phase = [r \in Runs |-> "off"]
    /\ listing = [r \in Runs |-> <<>>]
    /\ requeue = [r \in Runs |-> NoFile]
    /\ force = [r \in Runs |-> FALSE]
    /\ policy = [r \in Runs |-> NoPolicy]
    /\ failed = [r \in Runs |-> FALSE]
    /\ task = [r \in Runs |-> [f \in Files |-> NoTask]]
    /\ edits = 0 /\ starts = 0
    /\ disturbed = [r \in Runs |-> FALSE]
    /\ current = FALSE /\ backfilled = NoPolicy

-----------------------------------------------------------------------------
(* The environment *)

\* A user edits or renames a file. Contents get larger unless Revert allows an
\* earlier one to come back.
EditDrive(f) ==
    /\ edits < MaxEdits
    /\ \E d \in DriveFile :
        /\ d # drive[f]
        /\ Revert \/ d.content >= drive[f].content
        /\ drive' = [drive EXCEPT ![f] = d]
    /\ edits' = edits + 1
    /\ disturbed' = [r \in Runs |-> phase[r] # "off"]
    /\ current' = FALSE /\ backfilled' = NoPolicy
    /\ UNCHANGED <<store, clock, starts>> /\ UNCHANGED bigquery /\ UNCHANGED runVars

\* A Load Job that the worker gave up waiting for commits after all.
LateCommit ==
    /\ \E l \in late : loads' = loads \cup {l} /\ late' = late \ {l}
    /\ UNCHANGED <<drive, store, clock, edits, starts, disturbed, goals>>
    /\ UNCHANGED runVars

-----------------------------------------------------------------------------
(* Discovery and registration *)

\* ListFiles returned; nothing was registered yet.
StartRun(r) ==
    /\ phase[r] = "off" /\ starts < MaxStarts
    /\ starts' = starts + 1
    /\ phase' = [phase EXCEPT ![r] = "register"]
    /\ listing' = [listing EXCEPT ![r] = [f \in Files |-> ListingOf(f)]]
    /\ \E b \in Reprocess : force' = [force EXCEPT ![r] = b]
    /\ UNCHANGED <<drive, store, clock, requeue, policy, failed, task, edits>>
    /\ UNCHANGED <<disturbed, goals>> /\ UNCHANGED bigquery

Put(f, doc) == store' = [store EXCEPT ![f] = doc]

\* repo.Upsert of a listed file: an error counts as a registration failure,
\* whether or not the write went through, and skips the forced requeue.
Register(r, f) ==
    /\ phase[r] = "register" /\ requeue[r] = NoFile
    /\ f \in DOMAIN listing[r]
    /\ listing' = [listing EXCEPT ![r] = [g \in DOMAIN listing[r] \ {f} |-> listing[r][g]]]
    /\ LET doc == FirestoreUpsert(store[f], listing[r][f]) IN
       \/ /\ Put(f, doc)
          /\ requeue' = [requeue EXCEPT ![r] = IF force[r] THEN f ELSE NoFile]
          /\ UNCHANGED failed
       \/ /\ Put(f, doc) \/ UNCHANGED store
          /\ failed' = [failed EXCEPT ![r] = TRUE]
          /\ UNCHANGED requeue
    /\ UNCHANGED <<drive, clock, phase, force, policy, task, edits, starts>>
    /\ UNCHANGED <<disturbed, goals>> /\ UNCHANGED bigquery

\* REPROCESS_ALL: UpdateStatus(pending) after the Upsert.
Requeue(r) ==
    /\ requeue[r] # NoFile
    /\ LET f == requeue[r] IN
       \/ Put(f, WithStatus(store[f], "pending")) /\ UNCHANGED failed
       \/ /\ Put(f, WithStatus(store[f], "pending")) \/ UNCHANGED store
          /\ failed' = [failed EXCEPT ![r] = TRUE]
    /\ requeue' = [requeue EXCEPT ![r] = NoFile]
    /\ UNCHANGED <<drive, clock, phase, listing, force, policy, task>>
    /\ UNCHANGED <<edits, starts, disturbed, goals>> /\ UNCHANGED bigquery

\* What etl.Run reads before it starts workers: the setting p, and the pending
\* records, however they became pending.
Begin(r, p) ==
    /\ phase[r] = "register" /\ requeue[r] = NoFile /\ DOMAIN listing[r] = {}
    /\ phase' = [phase EXCEPT ![r] = "pool"]
    /\ policy' = [policy EXCEPT ![r] = p]
    /\ task' = [task EXCEPT ![r] =
          [f \in Files |-> IF IsPending(store[f])
                           THEN [stage |-> "queued", doc |-> store[f],
                                 content |-> NoContent, at |-> 0]
                           ELSE NoTask]]
    /\ backfilled' = IF p # backfilled /\ \E f \in Markdown : task'[r][f] # NoTask
                     THEN NoPolicy ELSE backfilled
    /\ UNCHANGED <<drive, store, clock, listing, requeue, force>>
    /\ UNCHANGED <<edits, starts, disturbed, current>> /\ UNCHANGED bigquery

\* Faulty: registration failures are logged and then forgotten.
StartPoolFaulty(r) ==
    /\ \E p \in Policies : Begin(r, p)
    /\ failed' = [failed EXCEPT ![r] = FALSE]

\* etl.Run: the environment is read anew by every process.
StartPool(r) == (\E p \in Policies : Begin(r, p)) /\ UNCHANGED failed

-----------------------------------------------------------------------------
(* The pool *)

At(r, f, stage) == task[r][f] # NoTask /\ task[r][f].stage = stage

Advance(r, f, stage) == task' = [task EXCEPT ![r][f].stage = stage]

Fail(r, f) ==
    /\ Advance(r, f, "mark_failed")
    /\ failed' = [failed EXCEPT ![r] = TRUE]

poolFrame == <<drive, phase, listing, requeue, force, policy, edits, starts,
               disturbed, goals>>

\* The content is the one in Drive now, not the one that was listed.
DownloadOk(r, f) ==
    /\ At(r, f, "queued")
    /\ task' = [task EXCEPT ![r][f].content = drive[f].content,
                            ![r][f].stage = IF f \in Markdown THEN "got" ELSE "metadata"]
    /\ UNCHANGED <<store, clock, failed>> /\ UNCHANGED bigquery /\ UNCHANGED poolFrame

DownloadError(r, f) ==
    /\ At(r, f, "queued")
    /\ Fail(r, f)
    /\ UNCHANGED <<store, clock>> /\ UNCHANGED bigquery /\ UNCHANGED poolFrame

\* The version is hashed, ingested_at is read, the rows are built.
Stamp(r, f) ==
    /\ At(r, f, "got")
    /\ clock' = clock + 1
    /\ task' = [task EXCEPT ![r][f].at = clock + 1, ![r][f].stage = "chunks"]
    /\ UNCHANGED <<store, failed>> /\ UNCHANGED bigquery /\ UNCHANGED poolFrame

\* The chunk rows that the task loads; document_name is the registered path, and
\* the dates follow from the content and the setting (DocumentRows).
LoadOf(r, f) ==
    [file |-> f, version |-> task[r][f].content, name |-> task[r][f].doc.path,
     at |-> task[r][f].at, policy |-> policy[r]]

ChunksOk(r, f) ==
    /\ At(r, f, "chunks")
    /\ loads' = loads \cup {LoadOf(r, f)}
    /\ Advance(r, f, "metadata")
    /\ UNCHANGED <<store, late, clock, failed>> /\ UNCHANGED poolFrame

\* Faulty: a chunk load that failed does not keep the file from being marked done.
ChunksErrorFaulty(r, f) ==
    /\ At(r, f, "chunks")
    /\ Advance(r, f, "metadata")
    /\ UNCHANGED <<store, clock, failed>> /\ UNCHANGED bigquery /\ UNCHANGED poolFrame

\* The last attempt failed: its rows are there, will be there, or never will.
ChunksError(r, f) ==
    /\ At(r, f, "chunks")
    /\ \/ UNCHANGED bigquery
       \/ loads' = loads \cup {LoadOf(r, f)} /\ UNCHANGED late
       \/ late' = late \cup {LoadOf(r, f)} /\ UNCHANGED loads
    /\ Fail(r, f)
    /\ UNCHANGED <<store, clock>> /\ UNCHANGED poolFrame

\* The drive_files table has no reader in this module.
MetadataOk(r, f) ==
    /\ At(r, f, "metadata")
    /\ Advance(r, f, "mark_done")
    /\ UNCHANGED <<store, clock, failed>> /\ UNCHANGED bigquery /\ UNCHANGED poolFrame

MetadataError(r, f) ==
    /\ At(r, f, "metadata")
    /\ Fail(r, f)
    /\ UNCHANGED <<store, clock>> /\ UNCHANGED bigquery /\ UNCHANGED poolFrame

\* UpdateStatus by drive_file_id alone, whatever the record says by now.
Mark(r, f, stage, status) ==
    /\ At(r, f, stage)
    /\ \/ Put(f, WithStatus(store[f], status)) /\ UNCHANGED failed
       \/ /\ Put(f, WithStatus(store[f], status)) \/ UNCHANGED store
          /\ failed' = [failed EXCEPT ![r] = TRUE]
    /\ task' = [task EXCEPT ![r][f] = NoTask]
    /\ UNCHANGED clock /\ UNCHANGED bigquery /\ UNCHANGED poolFrame

MarkDone(r, f) == Mark(r, f, "mark_done", "done")
MarkFailed(r, f) == Mark(r, f, "mark_failed", "failed")

-----------------------------------------------------------------------------
(* The end of a run *)

Off(r) ==
    /\ phase' = [phase EXCEPT ![r] = "off"]
    /\ listing' = [listing EXCEPT ![r] = <<>>]
    /\ requeue' = [requeue EXCEPT ![r] = NoFile]
    /\ force' = [force EXCEPT ![r] = FALSE]
    /\ policy' = [policy EXCEPT ![r] = NoPolicy]
    /\ failed' = [failed EXCEPT ![r] = FALSE]
    /\ task' = [task EXCEPT ![r] = [f \in Files |-> NoTask]]
    /\ disturbed' = [disturbed EXCEPT ![r] = FALSE]

\* Every task is settled: the run succeeds if nothing failed, registration
\* included.
FinishRun(r) ==
    /\ phase[r] = "pool"
    /\ \A f \in Files : task[r][f] = NoTask
    /\ Off(r)
    /\ LET good == ~failed[r] /\ ~disturbed[r] IN
       /\ current' = (current \/ good)
       /\ backfilled' = IF good /\ force[r] THEN policy[r] ELSE backfilled
    /\ UNCHANGED <<drive, store, clock, edits, starts>> /\ UNCHANGED bigquery

\* The run is killed or cancelled, or etl.Run could not list the pending files or
\* read the setting.
\* Its running Load Jobs may still commit.
StopRun(r) ==
    /\ phase[r] # "off"
    /\ \E S \in SUBSET {LoadOf(r, f) : f \in {g \in Files : At(r, g, "chunks")}} :
          late' = late \cup S
    /\ Off(r)
    /\ UNCHANGED <<drive, store, loads, clock, edits, starts, goals>>

RunFile(r, f) ==
    \/ Register(r, f)
    \/ DownloadOk(r, f) \/ DownloadError(r, f) \/ Stamp(r, f)
    \/ ChunksOk(r, f) \/ ChunksError(r, f)
    \/ MetadataOk(r, f) \/ MetadataError(r, f)
    \/ MarkDone(r, f) \/ MarkFailed(r, f)

RunStep(r) ==
    \/ Requeue(r) \/ StartPool(r) \/ FinishRun(r)
    \/ \E f \in Files : RunFile(r, f)

Next ==
    \/ \E f \in Files : EditDrive(f)
    \/ LateCommit
    \/ \E r \in Runs : RunStep(r) \/ StartRun(r) \/ StopRun(r)

\* A run that was started goes on. Nothing in the repository starts runs (they
\* are started by hand), and Load Jobs may be lost.
Spec == Init /\ [][Next]_vars /\ \A r \in Runs : WF_vars(RunStep(r))

-----------------------------------------------------------------------------
(* Properties *)

\* The chunks of a content under a name: none if it is blank.
Chunks(version, name) ==
    {[index |-> i, version |-> version, name |-> name] : i \in 0..(NumChunks[version] - 1)}

\* What a reader should see of f: the content in Drive.
Expected(f) == Chunks(drive[f].content, drive[f].name)

Sent == loads \cup late

\* No load of the file of l, committed or to come, is newer.
Newest(l) == l \in loads /\ \A m \in Sent : m.file = l.file => m.at <= l.at

Done(f) == store[f] # NoDoc /\ store[f].status = "done"

Idle == \A r \in Runs : phase[r] = "off"

\* After a run that succeeded while Drive did not change, chunks_current shows
\* Drive, and keeps showing it until Drive is edited: neither a Load Job that
\* lands late nor a later run that fails half-way takes it away.
SuccessMeansCurrent == current => \A f \in Markdown : Shown(Rows, f) = Expected(f)

\* Between runs, a Markdown file that chunks_current does not show as it is in
\* Drive will be processed by the next run: registering it leaves it pending.
\* Whatever failed, was killed or went through unnoticed, no file is stuck.
NothingForgotten ==
    Idle => \A f \in Markdown :
        \/ Shown(Rows, f) = Expected(f)
        \/ IsPending(FirestoreUpsert(store[f], ListingOf(f)))

\* A file recorded as done is in chunks_current: a load of it was committed, no load
\* that was committed since or is still to come is newer, its content is registered
\* or newer than that, and the view shows this load under the registered name, with
\* every chunk of it. (Nothing, then, if and only if the loaded content is blank.)
DoneMeansShown ==
    \A f \in Markdown : Done(f) =>
        \E l \in loads :
            /\ l.file = f /\ Newest(l)
            /\ ~Revert => l.version >= store[f].checksum
            /\ Shown(Rows, f) = Chunks(l.version, store[f].path)

\* chunks_current never goes back to an earlier content of a file, although
\* Load Jobs commit late and runs are repeated. (Contents only grow here.)
ViewNeverRegresses ==
    [][\A f \in Markdown : \A row \in Shown(Rows, f) : \A new \in Shown(Rows, f)' :
        new.version >= row.version]_loads

\* When registration went through, the pool gets every file that REPROCESS_ALL
\* forces, and every file Drive has no checksum for, however it was left behind.
UncomparableQueued ==
    [][\A r \in Runs : \A f \in Files :
        /\ phase[r] = "register" /\ phase'[r] = "pool" /\ ~failed[r]
        /\ force[r] \/ f \in Workspace
        => task'[r][f] # NoTask]_phase

\* docs/retro-sprint-periods.md: reprocessing gives the sprint dates of the same
\* content a new setting. After a forced run that succeeded while Drive did not
\* change, every row shown has its setting, until rows are made with another one:
\* neither a Load Job of an earlier setting that lands late nor a run that has
\* nothing to load brings the old dates back.
MetadataBackfilled ==
    backfilled # NoPolicy =>
        \A f \in Markdown : ShownPolicies(Rows, f) \subseteq {backfilled}

\* Both backends make the same decision on every record that comes up.
BackendsAgree ==
    \A f \in Files :
        PostgresUpsert(store[f], ListingOf(f)) = FirestoreUpsert(store[f], ListingOf(f))

-----------------------------------------------------------------------------
(* What the documentation says of a run *)

\* docs/retro-metadata.md: when a forced status update fails, the worker returns
\* an error and ends before it starts the pool.
RequeueFailureEnds ==
    [][\A r \in Runs :
        requeue[r] # NoFile /\ ~failed[r] /\ failed'[r] => phase'[r] = "off"]_vars

=============================================================================
