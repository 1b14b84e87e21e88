# TLA+ specification of go-drive-etl

go-drive-etl copies the Markdown (and the names of the other files) of a Google Drive
folder into BigQuery. This directory holds TLA+ modules for the part of it that decides
*which file is processed, what is recorded about it and what readers of BigQuery see*, the
TLC configurations that check them, and proofs of the main results.

Run everything from this directory: `tlc -config MCWorkerPool.cfg MCWorkerPool`,
`tlapm WorkerPoolProofs.tla`.

## 1. The system

### Components

| Component | Code | State it keeps | Operations |
|---|---|---|---|
| Worker pipeline | `cmd/worker/main.go` | count of registration failures | list, register each file, requeue (`REPROCESS_ALL`), run the pool, export, verdict |
| Worker pool | `internal/etl/worker_pool.go` | `jobs` channel, two atomic counters, per worker: the job and the attempt | feed, take, download, load chunks with retries, load metadata, mark, return |
| State store | `internal/repository`, `internal/domain` | one record per file: path, checksum, `sync_status` | `Upsert`, `UpdateStatus`, `ListPending`, on Firestore or PostgreSQL |
| BigQuery client | `internal/bq` | none; BigQuery holds append-only tables | Load Jobs, `ExportTableCSV` |
| Drive client | `internal/drive` | none; Drive holds the files | `ListFiles`, `DownloadFile`, `UpsertFile` |
| Bronze view | `iac/bigquery.tf` (`chunks_current`) | none (a view of `chunks`) | latest version, deduplication, hiding tombstones |
| Silver/Gold views and marts | `iac/silver_gold.tf`, `sql/refresh_gold_marts.sql` | two mart tables | refreshed by hand |
| Gold reports | `internal/goldreport` | the CSV files in Drive | export both marts, replace the two files |
| Gold verification | `cmd/verify_gold`, `internal/goldverify` | the report of stages and checks | a fixed sequence of stages around the refresh and the export |
| Sprint periods, Markdown parser | `internal/parser` | none (pure) | title to sprint; text to chunks |
| OAuth helper | `cmd/auth` | an unbuffered channel, an HTTP server | one callback, shutdown |
| Monitoring | `cmd/worker/monitoring.go` | none | stage of an error for Sentry |
| Smoke test, mocks, generated code, Terraform, scripts | the rest | - | - |

### How they interact

```
 Drive --ListFiles--> runPipeline --Upsert / UpdateStatus(pending)--> state store
                          | etl.Run                                      |  ^
                          v              ListPending                     |  |
                   main goroutine <--------------------------------------+  |
                          | jobs (buffer 100)                               |
                          v                                                 |
                   5 worker goroutines --download-- Drive                   |
                          |  Load Jobs: chunks, drive_files                 |
                          v                                    UpdateStatus(done | failed)
                      BigQuery chunks --> chunks_current --> Silver --> marts --> CSV in Drive
```

The goroutines of a run share the channel, the context and the counters; runs share the
state store, BigQuery and Drive. No lock guards a run: two of them may overlap.

### What is hard

* *Concurrency*: five goroutines and a feeder stop on the same context; every `select`
  chooses at random when both cases are ready.
* *Failure*: every remote call may fail after it took effect. A Load Job is not
  transactional with the status of the file, and may commit after the worker gave up on it.
* *Crash and restart*: a run may be killed between any two calls. What it left in BigQuery
  and in the state store is the input of the next one.
* *Staleness*: the checksum is read at discovery, the content at download; `UpdateStatus`
  names the file and not the version that was processed.
* *Ordering*: rows are ordered by the `ingested_at` that the worker stamped, not by their
  commit.

What makes each component correct:

* **Worker pool**: each file has one worker; done implies loaded; a run without errors
  returns nil only if everything is done; the counts in the error are exact; at most one
  metadata row per file and run; the run always returns.
* **Pipeline**: no file is stuck out of date; after a success the view shows Drive; the
  view never goes back; a forced run replaces the dates of unchanged documents.
* **State store**: both backends decide alike; a failed, renamed, changed or
  checksum-less file becomes pending again; a call takes effect once, on the current record.
* **Bronze view**: one row per chunk of the latest version, no tombstones.
* **Gold reports / verification**: each report is one file; a report of the verification says
  success only after every stage passed, and then both CSV files show one state of Silver.
* **Sprint periods / parser**: the chunks hold the text once and in order and are cut where they
  should be; an empty document, and no other, becomes a tombstone; every day belongs to one sprint.
* **OAuth helper**: it ends once it has a code, and the pages it shows tell the truth.

`PROJECT.json` lists each hazard at the line where it bites, with the properties aimed at it.

## 2. The modules

### WorkerPool: one call of `etl.Run`

The variables are the program's: `mpc` and `wpc[w]` say at which statement a goroutine is,
`queue` is the channel, `job[w]` the file a worker holds, `attempt[w]` the loop variable of
`insertRowsWithRetry`, `ctxDone` the context, `failedFiles` and `failedStatusUpdates` the
atomic counters, `status` the state store. Two ghosts, `chunkLoads` and `metaLoads`, count
the Load Jobs of the run that committed.

| Actions | Code |
|---|---|
| `StartupError`, `ListPending` | the calls before the workers are started |
| `Feed`, `StopFeeding`, `CloseJobs`, `Return` | the feeding loop and its `select`, `close(jobs)`, `wg.Wait()` and the verdict |
| `Take`, `Exit` | the `select` of a worker |
| `DownloadOk/Error` | `DownloadFile` and the construction of the rows |
| `StartAttempt`, `ChunksOk/Transient/Error`, `BackoffOver`, `StopRetrying` | `insertRowsWithRetry` and `waitForContext` |
| `MetadataOk/Error` | the Load Job of `drive_files`, which is not retried |
| `MarkDone`, `MarkFailed` | `UpdateStatus`, which may be applied and yet return an error |
| `Cancel` | `signal.NotifyContext` |

A remote call is one step, its return; the `ctx.Err()` check after a failed call belongs to
that step (a cancellation just before the check is a cancellation before the step). A Load
Job that returns an error has committed or not. The channel is a set: neither backend sorts
`ListPending`, so the order of the files carries no information.

### RunContract: what `cmd/worker` relies on

No workers, no channel, no Load Jobs: a run picks the pending files, gives each at most one
outcome, and returns a verdict consistent with them. `WorkerPool!Contract` is the refinement
mapping (`todo <- listed`, `failures <- failedFiles > 0`, `phase <- ...`);
`ImplementsContract` is checked by TLC and its safety part is proved.

### FileRepo: the decisions of the state store

`FirestoreUpsert` and `PostgresUpsert` map a record (or none) and a listing to the new
record; `WithStatus` and `IsPending` are `UpdateStatus` and the filter of `ListPending`.
MIME type and `updated_at` (which every write refreshes) take no part in any decision.

### StateStore and FirestoreRepo: concurrent calls

PostgreSQL makes each operation one statement. On Firestore, `Upsert` is a function that
`RunTransaction` may run several times: `Get` reads the document, `Commit` decides on what was
read and commits at most one write, unless the document was written since (`stale`), `Retry` is
an abort and the next attempt. `UpdateStatus` is one `Write`. A call may return an error at any
point, also after it took effect (`Answer`). Goroutines and runs are clients alike.

StateStore is the contract Pipeline is written against: a call takes effect at one moment
between its start and its return, at most once; nil means that it did, an error says nothing.
In the refinement mapping `FirestoreRepo!Contract` the effect of an `Upsert` is its commit.

### ChunksCurrent: the view

`Shown(rows, f)` follows the SQL: the version ingested last (ties by version), the row
ingested last per `chunk_index`, without tombstones. `ShownPolicies` are the settings of
`RETRO_SPRINT_FROM_MONTH` that the dates of those rows come from.

### Pipeline: runs over time

Composes FileRepo and ChunksCurrent with the life of successive (or overlapping) runs
against a Drive folder that is edited meanwhile. `StartRun` is `ListFiles`; `Register` and
`Requeue` are the loop of `runPipeline`; `StartPool` is the start of `etl.Run`, which reads the
sprint policy and the pending records; `DownloadOk` ...
`MarkFailed` are the life of one file in the pool; `FinishRun` is the verdict; `StopRun` is a
kill, a cancellation or an error of `etl.Run` before its workers start; `LateCommit` is a Load Job that the worker
gave up on and BigQuery did not. The goroutines are left to WorkerPool: here every file of
the pool may advance at any time, and one chunk load stands for its attempts, which append
identical rows. A file of the pool that is stopped at its chunk load may leave a Load Job
behind. `disturbed` and `current` are ghosts: whether Drive was edited after a run listed
it, and whether an undisturbed success lies behind us with no edit since. `backfilled` is the
sprint policy of the last such success with `REPROCESS_ALL`, until a pool has Markdown files to
load under another one.

### GoldDelivery and VerifyGold: the reports

GoldDelivery has the state after Pipeline: Silver, the two marts, the export folder and, per
exporter, where it is in `goldreport.Export`. `ReadMart` is `ExportTableCSV`, `Lookup` and
`Write` are the two calls of `UpsertFile`, `ExportError` a failure at any of them (a write may
have taken effect). A state of Silver is a number (0 is empty), and marts and CSV files carry
the number of the state they were computed from.

VerifyGold composes it with `cmd/verify_gold`, one action per call of `verify` and
`CheckDrive`; `stages`, `verdict` and `exit` are the report and the exit code. The stages never
go on after an error, so each stage has one action for all its errors. The verification is an
exporter itself. Silver changes at any time; worker exports come before or after a
verification, since docs/gold-verification.md asks to stop other exports meanwhile, and may
overlap each other if `Overlap` is TRUE. The ghost `seen` is the set of states Silver had during
the verification.

The refresh is one query job of two statements that `bq` submits from a script. If the script is
given up, the job may go on: `late` holds the marts it is yet to replace, `LateRefresh` replaces
one, at any time, also during the next verification; the ghost `calm` says that none was
replaced since that one began. (Two such jobs share their remaining statements in the model.)

### MarkdownParser, SprintPeriod, DocumentRows: what a document becomes

MarkdownParser follows `md.go`: a document is lines, a character is its line and its place in
it, so a text is a sequence of places and losing, repeating or reordering characters shows.
`Scan` is the loop that splits at headings, `Join` and `TrimSpace` make a section,
`SplitLongChunk` cuts it. SprintPeriod follows `retro_metadata.go` over months and days as
numbers; the calendar (`FirstDay`) is a parameter. DocumentRows composes both: an author
writes lines, each run reads a policy and makes the rows (`RowsOf`, the body of the worker for
Markdown files), or the tombstone. `MCDocumentRows` defines the proleptic Gregorian calendar.

### AuthCallback: the OAuth helper

The main goroutine (`main`), the goroutine of `ListenAndServe` (`server`), one handler per
request (`conn`), the unbuffered channel (a send and its receive are the one step `Receive`)
and `Shutdown`, which waits for the handlers and closes silent connections (`CloseIdle`).

The `MC...` modules give the constants their values. The `...Proofs` modules hold the proofs,
and `FoldLemmas` what they need of induction and of `FoldLeft`. The inductive invariants are at the end
of their module, that of Pipeline in `PipelineInvariant`. The operators named `...Faulty`
(and `MarkDoneUncounted`, `FirestoreUpsertNoRetry`, `FirestoreUpsertEmptyEqual`) are not
part of any specification: each is the definition it precedes with a plausible bug, used to
confirm that the properties notice it.

## 3. The runs

| Run | Instance | What it shows |
|---|---|---|
| `MCWorkerPool` | 2 workers, a Markdown file and two others, buffer 1, 2 attempts | outcomes, loads, counts and verdict agree under every interleaving, failure and cancellation; `IInv` is an invariant; the run returns, every file settles, a status is settled once, `RunContract` is implemented |
| `MCFirestoreRepo` | 2 clients, one file, one path, 2 checksums or none, 2 attempts | no transaction commits a stale decision, a done file is requeued for cause only, `StateStore` is implemented |
| `MCPipeline` | one Markdown file, two names, three contents (two chunks, then blank, then one chunk), 2 edits, 3 runs | nothing is forgotten, the view is current after a success and never goes back, a blank file disappears and comes back with its next content, a done file is shown with all its chunks, the backends agree |
| `MCPipelineMixed` | a Markdown and a Workspace file, `REPROCESS_ALL` on and off, 2 sprint policies, 2 edits, 3 runs | forced and checksum-less files always reach the pool; one file's failure spoils the verdict; a forced success replaces all dates, and late Load Jobs do not bring the old ones back |
| `MCDocumentRows` | documents of up to 3 lines of 13 kinds (blank, indented, tags, headings, titles at the edges of the calendar; lengths around the limit), with and without byte order mark, chunks of 4 characters, 3 policies | the rows hold the text once and in order, are cut only at headings and full chunks, are a tombstone for empty documents only, carry the title that leads the text; each day of a title's month has one title, and the period in the row has the days of its own |
| `MCVerifyGold` | one worker export, the verification with all flags, two states of Silver, one of them empty, refreshes that go on after they were given up | the report is truthful; a verification that did not fail vouches for one delivery of one state of Silver, or at least for two fresh ones if a late refresh interferes; without `--refresh-and-export` it only reads; it always ends; without overlaps there is one file per report |
| `MCAuthCallback` | 3 requests, 2 codes or none | only the code that was received is reported as a success, and before the process ends; nothing but a second code keeps the helper from ending |
| `MCWorkerPoolInFlight`, `MCPipeline{Revert,Overlap,Requeue}`, `MCVerifyGoldOverlap` | the same small instances | the disagreements of section 4 |

**Bounds.** Two workers are enough for a file to be with the wrong worker, for one to leave
while the other works, and for the counters to be shared; a buffer of one with three files
makes the feeder block while a worker is busy, and stay blocked when all of them leave. Two
attempts are a first that may be retried and a last that may not (the code has three; the proofs
take any number). Two clients of FirestoreRepo are a reader and the one who makes its read stale,
over and over; two attempts let the second one fail for good. In Pipeline `MaxEdits` and
`MaxStarts` cap the counters `edits` and `starts`. Three runs give one that leaves something
behind, one that meets it and one that has to put it right; two edits let the file change
before and after a listing, or become blank and get content again, each seen by a run of its own. Two sprint policies are the
old one and the new one. Two states of Silver let the marts and the files differ from it and from
each other (the empty one counts as a state like any other if `allowEmpty` is set); the safety
properties also hold with three states, an instance of 2.8 million states. `MaxLines` caps the
lines of a document: a text, a heading that ends it and what follows; joined and trimmed,
they are shorter than, as long as and longer than one or two chunks of four characters. Three requests are a code, another code
and a request without one. `Attempts` is a parameter of the service. Everything else is unbounded. `CHECK_DEADLOCK FALSE` is set because a returned run, or an idle pipeline at its
bounds, has nothing left to do; a run that stops early is caught by `Terminates`.

**Fairness.** `WF(Main)` and `WF(Worker(w))` in WorkerPool: Go schedules runnable
goroutines, timers fire, and a remote call returns. The last is an assumption about the
services, as the code sets no deadlines of its own; a cancellation makes calls return sooner
but no run needs one, and `Cancel` is not fair. Pipeline states weak fairness for the steps of
a started run only: nothing in the repository starts runs, and no property there is a
liveness property.

`WF(Step(c))` in FirestoreRepo: calls to the service return. `WF(Verify)` and
`WF(Export(Verifier))` in VerifyGold: the calls of the clients return at the deadline of 15
minutes. The script is killed at it, too, but `CombinedOutput` still waits for `bq`, which holds
the pipe: that the verification ends assumes that `bq` does. Starting a verification, the workers
and a late refresh are not fair. In AuthCallback the goroutines, the server's own steps and the
token endpoint are fair, browsers are not.

## 4. Where the code disagrees with its documentation

1. `MCWorkerPoolInFlight`: the jobs in progress get the cancelled context and are abandoned
   rather than completed (README.md section 2). In TLC's trace a worker takes a file, the
   cancellation follows, the download fails and the worker leaves; the file stays pending
   although no status update failed.
2. `MCPipelineRevert`: a file edited between discovery and download and then reverted keeps
   showing the intermediate content, with status done and a matching checksum.
3. `MCPipelineOverlap`: with two overlapping runs, the done of the first erases the requeue of
   the second; the change is never loaded. `FirestoreRepo` shows that the transaction is not to
   blame: `UpdateStatus` is unconditional in both backends.
4. `MCPipelineRequeue`: a failed forced status update is only counted, and the pool is started
   (docs/retro-metadata.md says the worker ends).
5. `MCVerifyGoldOverlap`: two overlapping worker runs that find no report of a name both create
   one (internal/drive/client.go says delivery is idempotent across worker runs). Later exports
   update one of the two, and every verification fails until somebody deletes the other.

Some more are plain from the code and have no run. A `select` with a job and a cancellation ready
takes either, so a worker may take new jobs after SIGTERM (README.md section 2). A file may stay
pending with its `drive_files` row committed, and the next run appends the row again (README.md
section 3). No code writes the status `processing` of README.md section 3. The worker does load
`drive_files`, which docs/architecture.md denies.

What the models show without contradicting a document: a late refresh can make a verification pass
whose two reports show two states of Silver (`VerifiedDelivered` needs `calm`, `DeliveryFresh` is
what remains); a second callback with a code hangs the OAuth helper in `Shutdown`, before it
prints the token (`EndsUnlessSecondCode`), and the page says success before the code is
exchanged; a byte order mark hides a heading in the first line from the chunker but not from the
title, and a file with nothing else is not empty.

Because of 2 and 3, `MCPipeline` and `MCPipelineMixed` check one run at a time
(`Runs = {r1}`) and contents that never return to an earlier one (`Revert = FALSE`); the
properties hold under these two conditions and TLC shows that neither can be dropped.

## 5. What is proved

Every safety property of the passing runs is a theorem for all values of the constants. Each component
has an inductive invariant (`IInv`) that TLC checks on its run (that of DocumentRows only follows the
steps, and is in no run) and that the proofs show to hold initially and to survive every action, one
lemma or step per action. Assumptions are the named ones of the modules and, where a theorem says so,
the three below.

| Assumption | Needed by | Why |
|---|---|---|
| `OneRun`: one run at a time (successive ones are unlimited) | most of Pipeline | the worker is one process that an operator or a scheduler outside the repository starts; nothing prevents a second one, and `MCPipelineOverlap` shows that the condition cannot be dropped |
| `~Revert`: no file returns to an earlier content | what compares versions in Pipeline | `MCPipelineRevert` shows that it cannot be dropped |
| `~Overlap`: worker runs do not export at the same time | `OneReport` | `MCVerifyGoldOverlap` shows that it cannot be dropped |

### The worker pool (`WorkerPoolProofs`)

From `PoolAssumption` alone (finitely many files and workers, at least one worker, positive
buffer and attempts):

* `Inductive`: `Spec => []IInv`. The safety properties are not inductive: that a file has one
  metadata row depends on what its worker knows of it (`InProgress`), which depends on no
  other worker having it (`SingleOwner`), which depends on the channel holding each file once.
  That nil means complete depends on where every listed file went (`Accounted`), on the
  channel being empty before a worker leaves an uncancelled run (`Drained`) and on the order
  in which the verdict is computed (`Verdict`). `Waiting` and `NotStarted` say that a file
  nobody took is pending and without rows. `Core` is the conjunction of these.
* `Counts` adds what the counters count. A failure is counted before its status is written, so
  between the two the worker itself (`Marking`) stands for the count; every count has a file of
  its own (`Counted`), and without a cancellation every file that was let go without an outcome
  (`Lost`) is a lost status update. With it `PendingIsReported` (no listed file is dropped without
  being reported) and `ReportExact` (bounds on both counters, from both sides).
* `TypeCorrect`, `NoSharedFile`, `DoneLoaded`, `AtMostOneMetadataRow`: conjuncts of `IInv`.
* `SuccessComplete`: at a nil result nobody holds a file, none is in the channel or unsent and
  no failure was counted, so by `Accounted` each listed file is done.
* `SettledOnce`: only `MarkFailed` and `MarkDone` change a status, and by `InProgress` their
  file was listed and is pending.
* `ContractSafety`: initial states of WorkerPool are initial states of RunContract and, under
  `Core`, every step is a step of it or a stutter.

### The state store (`FirestoreRepoProofs`)

* `BackendsEquivalent` (in `PipelineProofs`, which needs it): the two `Upsert`s agree on every record
  and listing, from the assumption that the empty string is no MD5 checksum.
* `FirestoreInductive`, `NoStaleDecision`: a transaction commits only what it decided on the current
  document, for any clients, files and attempts. The invariant says that a call that gets or commits
  is an `Upsert` and one that writes has a document to write to (`CallsInOrder`), and that `stale`
  is set whenever the document changed under a transaction (`FreshUnlessStale`).
* `RequeuedForCause`: therefore the step that makes a done document pending is an explicit update,
  or compared its listing with that very document.
* `StoreImplemented`: every step maps to a step of StateStore or to a stutter, since a commit that
  is not stale has the same outcome as the atomic `Upsert` at that moment.

### The pipeline (`PipelineInvariant`, `PipelineProofs`)

`PipelineTypes` and `BackendsAlwaysAgree` hold without further assumptions, from `TypeInv`: types,
which phase tasks belong to (`Tasks`), and which checksums listings have (`Listed`). With `OneRun`,
`PipelineInductive` adds:

* `Owned`: while the pool works on a file, nobody touches its record. This is what overlapping runs
  break.
* `Queued`: what registration has left pending as long as nothing failed. Gives
  `UncomparableAreQueued`.
* `Stamps`: a new load is stamped later than every load of its file, committed or still to come, so
  there always is one newest load, and the view follows it.
* `Settled`: the newest load of a file that is done, or about to be marked, is committed, has the
  name of its record and a content that is not older. With `Stamps` the view shows exactly the
  chunks of that load (`DeliveredShown`), which gives `DoneIsShown`.
* `Forced`, `Backfill`: once a forced run has loaded a file, whatever lands later either is older or
  has the same sprint policy. Gives `ReprocessingBackfills`.
* `Undisturbed`: a run during which nobody edits Drive registers what Drive says.
* With `~Revert`, `Growing` orders the contents of a file: loads by their timestamps, then the record,
  then the download, then Drive; `Current` says that after a good run all newer loads repeat it. Give
  `SuccessIsCurrent`, `NothingIsForgotten` (if the record is done with the checksum of Drive, the
  newest load is squeezed between two equal contents, and the view shows it; so a file that
  is not shown as it is in Drive is not left alone by the next run) and `ViewOnlyAdvances`.

### The reports (`VerifyGoldProofs`)

For any exporters and states of Silver:

* `TruthfulReport`: the report, its verdict and the exit code claim no more than the stages show. The
  invariant (`ReportInv`, a part of `IInv`) adds `Progress`: the stages before the current one are
  settled, the others untouched, and those that write are only reached if that was requested.
* `DeliveryInductive`: `Ids` and `Targets` say that exporters update a file of their own table, by an ID
  that no other file has; the lemmas `Updated` and `Created` say what that does to the number of files
  of a table. `Exclusive`: while a verification runs nobody else exports. `Compared`, `Checking`: what
  it has read is still true of the folder, and of the marts as long as it is `calm`. `Repeated`:
  exports after it deliver the same again.
* `Vouched` and `Fresh` follow, with overlapping worker runs before and after the verification as
  well; `OneReport` needs `~Overlap`.
* `ReadsOnly`: a verification without `--refresh-and-export` is never at a stage that writes
  (`Progress`), and as nobody else exports meanwhile (`Exclusive`), what changes the marts during it
  can only be a refresh that an earlier verification gave up.

### Documents and sprints (`FoldLemmas`, `MarkdownParserProofs`, `DocumentRowsProofs`)

For any lines (as far as `RowsAssumption` says what a line is), documents of any length, any limit on
chunks and any calendar whose months have 28 to 31 days:

* `EveryDayOwnedOnce`, `EveryDayHasOneTitle`: every day from the first Monday of the policy's first month
  to the last whole week belongs to exactly one title of its own or the previous month, and to none of
  any other month. The second part adds up the lengths of the months in between (`MonthsInOrder`).
* `RowsInductive`: the document is made of an author's lines, and the rows are `RowsOf` it. This
  invariant is simple; the rest is about what the parser computes.
* `EverythingKept`, `WellCut`, `TombstoneOnlyIfEmpty`, `TitleFirst`, `EveryRowDated`, `RowTypes`: the six
  properties of `MCDocumentRows`.

The argument follows the code. `TrimKeeps`: trimming keeps the visible characters and ends at visible
ones. `ScanStep` is the invariant of the loop over the lines (`Scanning`): the sections closed so far,
followed by the lines collected since, have the visible characters of the lines read, and the lines
collected have no heading but in front. Hence `SectionsGood`: the sections hold the text, each is
`Whole` (it has the start of a heading in no other place than the first), and all but the first start
with one. `CutExactly`: `SplitLongChunk` puts every place of a section into one piece, in order, and all
but the last piece are full; `ChunksGood` and `AllVisibleChunks` say what that makes of the sections.
`Lead` says what is seen first of a document, which settles the tombstone and, with the first two
chunks (`ChunkFacts`), the title.

`Join`, `Scanned`, `Parse` and `VisibleChars` are folds. The induction theorems of the library take an
operator as a parameter, which no prover here instantiates. `FoldLemmas` states induction over numbers
and sequences for sets instead of operators (from the well-foundedness of `<` on `Nat`), shows that the
recursion over sets of positions behind `FoldLeft` has one solution, and that it adds the elements one by
one (`FoldFacts`, for an operation given as a function). `VisibleFacts`, `JoinFacts`, `ScanFacts` and
`ParseCuts` carry this over to the four operators. `VisibleChars` is written as a fold because
`SelectSeq` has no definition the prover can expand.

### The OAuth helper (`AuthCallbackProofs`)

`AuthInductive`, `TruthfulPages`: for any requests and codes. Of the handlers that sent a code only the
one whose code was received returns (`Sends`), and `Shutdown` waits for its page (`Receipt`).

### Only model-checked

* Liveness: `Terminates`, `EveryFileSettles`, the liveness parts of `ImplementsContract` and
  `ImplementsStateStore`, `VerificationEnds`, `EndsUnlessSecondCode`. The prover cannot treat `ENABLED`
  and thus no fairness.

## 6. What is not modelled

* The text of files: a content is a number, its version hash the same number (hash collisions
  are left out), its chunks are counted by `NumChunks`, and its dates are the policy that made
  them. DocumentRows has the inside of a document, but not its letters: the regular expression of
  a title, `\r\n` and the parsing of dates are left out.
* The wall clock: `Stamp` reads a clock that moves on from stamp to stamp, across runs. The code
  takes the time of the host; if that is set back between two runs (or two hosts disagree), the rows
  of the later run are the older ones, and the properties about the view do not hold.
* The visible text only is followed through the rows (`NothingLost`): which spaces and line breaks
  between visible characters survive inside a chunk is not stated.
* The startup checks of `cmd/auth` on its environment, before there is a server.
* Paging of `ListFiles`: the folder is listed in one step (what pages show of a folder that
  changes meanwhile is up to the Drive API). Files that leave the folder keep
  their record and rows in the code; `Files` is constant here.
* Changes of a MIME type, the 60-day expiry of tables, another release of the parser between
  runs. Each is listed as a hazard.
* How Firestore decides which transaction to abort: any may be, and those that would commit on a
  changed document always are.
* Other people's refreshes or exports during a verification (the documentation asks to stop
  them), and the creation of a file that outlives its caller.
* How the marts are aggregated and rendered as CSV; two states of Silver with equal aggregates
  are taken to be different, which only makes checks fail more often.
* Panics of a worker goroutine end the process, which is `StopRun`.
* Silver and Gold views and their columns, monitoring, the smoke test, mocks, generated code, Terraform: no
  control of their own.

## 7. Plan

Done: all modules of section 2 and the proofs of section 5.

Left: in `Pipeline`: table expiry, MIME changes, a parser release.
