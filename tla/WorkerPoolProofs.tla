-------------------------- MODULE WorkerPoolProofs --------------------------
(***************************************************************************)
(* What etl.Run guarantees for any number of workers, files and attempts.   *)
(*                                                                          *)
(* IInv of WorkerPool is inductive. Its first half, Core, is: InitCore, one *)
(* lemma per action and StepCore. Its parts lean on each other. LoadsBounded *)
(* needs InProgress, which ties the loads of a file to the attempts of its  *)
(* worker; InProgress needs SingleOwner, or another worker could load the   *)
(* same file; the verdict needs Accounted and Drained, which say where each *)
(* listed file went. The second half, Counts, relates the two counters to   *)
(* the number of files and workers behind them, and is kept as long as Core *)
(* is. The safety theorems follow from IInv without further induction.      *)
(***************************************************************************)
EXTENDS WorkerPool, FiniteSetTheorems, TLAPS

\* Before a run nothing is listed, loaded or counted.
LEMMA InitCore == Init => Core
BY PoolAssumption
DEF Init, Core, TypeOK, WorkerPC, SyncStatus, SingleOwner, Busy, DoneMeansLoaded,
    LoadsBounded, NotStarted, Waiting, InProgress, Accounted, Drained, Closed, Verdict

-----------------------------------------------------------------------------
(* One lemma per action: it preserves the inductive invariant *)

\* A run that does not start leaves everything as it was.
LEMMA StartupErrorCore ==
    ASSUME Core, StartupError
    PROVE  Core'
<1> USE DEF Core, StartupError, loads, counters
<1>1. TypeOK' /\ LoadsBounded' /\ NotStarted' /\ Waiting' /\ Accounted'
  BY DEF TypeOK, LoadsBounded, NotStarted, Waiting, Accounted
<1>2. SingleOwner'
  BY DEF SingleOwner, Busy
<1>3. DoneMeansLoaded'
  BY DEF DoneMeansLoaded, NotStarted
<1>4. InProgress'
  BY DEF InProgress, Busy, NotStarted
<1>5. Drained'
  BY DEF Drained, NotStarted
<1>6. Verdict'
  BY DEF Verdict, NotStarted
<1> QED BY <1>1, <1>2, <1>3, <1>4, <1>5, <1>6

\* The listed files are pending, unsent and without rows; every worker is idle.
LEMMA ListPendingCore ==
    ASSUME Core, ListPending
    PROVE  Core'
<1> USE DEF Core, ListPending, loads, counters
<1>1. DoneMeansLoaded' /\ LoadsBounded' /\ NotStarted' /\ Accounted' /\ Verdict'
  BY DEF DoneMeansLoaded, LoadsBounded, NotStarted, Accounted, Verdict
<1>2. TypeOK'
  BY DEF TypeOK, WorkerPC
<1>3. SingleOwner'
  BY PoolAssumption DEF SingleOwner, Busy, NotStarted
<1>4. Waiting'
  BY DEF Waiting, NotStarted
<1>5. InProgress'
  BY DEF InProgress, Busy
<1>6. Drained'
  BY DEF Drained, Closed
<1> QED BY <1>1, <1>2, <1>3, <1>4, <1>5, <1>6

\* A file moves from the unsent ones to the channel: it is still in one place.
LEMMA FeedCore ==
    ASSUME Core, Feed
    PROVE  Core'
<1> USE DEF Core, Feed, loads, counters
<1>1. TypeOK' /\ LoadsBounded' /\ NotStarted'
      /\ Waiting' /\ Accounted' /\ Verdict'
  BY DEF TypeOK, LoadsBounded, NotStarted, Waiting, Accounted, Verdict
<1>2. SingleOwner'
  BY DEF SingleOwner, Busy
<1>3. DoneMeansLoaded'
  BY DEF DoneMeansLoaded, Loaded
<1>4. InProgress'
  BY DEF InProgress, Loaded, Busy
<1>5. Drained'
  BY DEF Drained, Closed
<1> QED BY <1>1, <1>2, <1>3, <1>4, <1>5

\* The channel is closed after the last file was sent.
LEMMA CloseJobsCore ==
    ASSUME Core, CloseJobs
    PROVE  Core'
<1> USE DEF Core, CloseJobs, loads, counters
<1>1. TypeOK' /\ LoadsBounded' /\ NotStarted'
      /\ Waiting' /\ Accounted' /\ Verdict'
  BY DEF TypeOK, LoadsBounded, NotStarted, Waiting, Accounted, Verdict
<1>2. SingleOwner'
  BY DEF SingleOwner, Busy
<1>3. DoneMeansLoaded'
  BY DEF DoneMeansLoaded, Loaded
<1>4. InProgress'
  BY DEF InProgress, Loaded, Busy
<1>5. Drained'
  BY DEF Drained, Closed
<1> QED BY <1>1, <1>2, <1>3, <1>4, <1>5

\* Files that are never sent are accounted for by the cancellation.
LEMMA StopFeedingCore ==
    ASSUME Core, StopFeeding
    PROVE  Core'
<1> USE DEF Core, StopFeeding, loads, counters
<1>1. TypeOK' /\ LoadsBounded' /\ NotStarted'
      /\ Waiting' /\ Accounted' /\ Drained' /\ Verdict'
  BY DEF TypeOK, LoadsBounded, NotStarted, Waiting, Accounted, Drained, Verdict
<1>2. SingleOwner'
  BY DEF SingleOwner, Busy
<1>3. DoneMeansLoaded'
  BY DEF DoneMeansLoaded, Loaded
<1>4. InProgress'
  BY DEF InProgress, Loaded, Busy
<1> QED BY <1>1, <1>2, <1>3, <1>4

\* When the last worker has left, the verdict sees the cancellation and the failures.
LEMMA ReturnCore ==
    ASSUME Core, Return
    PROVE  Core'
<1> USE DEF Core, Return, loads, counters
<1>1. TypeOK' /\ LoadsBounded' /\ NotStarted' /\ Waiting' /\ Accounted'
  BY DEF TypeOK, LoadsBounded, NotStarted, Waiting, Accounted
<1>2. SingleOwner'
  BY DEF SingleOwner, Busy
<1>3. DoneMeansLoaded'
  BY DEF DoneMeansLoaded, Loaded
<1>4. InProgress'
  BY DEF InProgress, Busy
<1>5. Drained'
  BY DEF Drained, Closed
<1>6. Verdict'
  BY DEF Verdict, TypeOK
<1> QED BY <1>1, <1>2, <1>3, <1>4, <1>5, <1>6

\* A cancellation weakens what Drained and Accounted ask for.
LEMMA CancelCore ==
    ASSUME Core, Cancel
    PROVE  Core'
<1> USE DEF Core, Cancel, mainVars, loads, counters
<1>1. TypeOK' /\ LoadsBounded' /\ NotStarted'
      /\ Waiting' /\ Accounted' /\ Drained' /\ Verdict'
  BY DEF TypeOK, LoadsBounded, NotStarted, Waiting, Accounted, Drained, Verdict
<1>2. SingleOwner'
  BY DEF SingleOwner, Busy
<1>3. DoneMeansLoaded'
  BY DEF DoneMeansLoaded, Loaded
<1>4. InProgress'
  BY DEF InProgress, Loaded, Busy
<1> QED BY <1>1, <1>2, <1>3, <1>4

\* A file moves from the channel to a worker that held none.
LEMMA TakeCore ==
    ASSUME Core, NEW w \in Workers, Take(w)
    PROVE  Core'
<1> USE DEF Core, Take, Goto, mainVars, loads, counters
<1>1. LoadsBounded' /\ NotStarted' /\ Waiting' /\ Verdict'
  BY DEF LoadsBounded, NotStarted, Waiting, Verdict
<1>2. TypeOK'
  BY PoolAssumption DEF TypeOK, WorkerPC
<1>3. SingleOwner'
  BY DEF SingleOwner, Busy, TypeOK
<1>4. DoneMeansLoaded'
  BY DEF DoneMeansLoaded, Loaded
<1>5. InProgress'
  BY DEF InProgress, Loaded, Busy, Waiting, TypeOK
<1>6. Accounted'
  BY PoolAssumption DEF Accounted, Busy, SingleOwner, TypeOK
<1>7. Drained'
  BY DEF Drained, Closed
<1> QED BY <1>1, <1>2, <1>3, <1>4, <1>5, <1>6, <1>7

\* A worker without a file leaves: the channel is closed and empty, or the run is cancelled.
LEMMA ExitCore ==
    ASSUME Core, NEW w \in Workers, Exit(w)
    PROVE  Core'
<1> USE DEF Core, Exit, Goto, mainVars, loads, counters
<1>1. LoadsBounded' /\ NotStarted' /\ Waiting' /\ Accounted' /\ Verdict'
  BY DEF LoadsBounded, NotStarted, Waiting, Accounted, Verdict
<1>2. TypeOK'
  BY DEF TypeOK, WorkerPC
<1>3. SingleOwner'
  BY DEF SingleOwner, Busy
<1>4. DoneMeansLoaded'
  BY DEF DoneMeansLoaded, Loaded
<1>5. InProgress'
  BY DEF InProgress, Loaded, Busy
<1>6. Drained'
  BY DEF Drained, Closed
<1> QED BY <1>1, <1>2, <1>3, <1>4, <1>5, <1>6

\* Markdown goes on to its chunks, everything else to the metadata.
LEMMA DownloadOkCore ==
    ASSUME Core, NEW w \in Workers, DownloadOk(w)
    PROVE  Core'
<1> USE DEF Core, DownloadOk, Goto, mainVars, loads, counters
<1>1. LoadsBounded' /\ NotStarted' /\ Waiting' /\ Accounted' /\ Verdict'
  BY DEF LoadsBounded, NotStarted, Waiting, Accounted, Verdict
<1>2. TypeOK'
  BY DEF TypeOK, WorkerPC
<1>3. SingleOwner'
  BY DEF SingleOwner, Busy
<1>4. DoneMeansLoaded'
  BY DEF DoneMeansLoaded, Loaded
<1>5. InProgress'
  BY PoolAssumption DEF InProgress, Loaded, Busy
<1>6. Drained'
  BY DEF Drained, Closed
<1> QED BY <1>1, <1>2, <1>3, <1>4, <1>5, <1>6

\* The worker gives its file up, to the cancellation or to the failure count.
LEMMA DownloadErrorCore ==
    ASSUME Core, NEW w \in Workers, DownloadError(w)
    PROVE  Core'
<1> USE DEF Core, DownloadError, GiveUp, Goto, Release, mainVars, loads
<1>1. LoadsBounded' /\ NotStarted' /\ Waiting' /\ Verdict'
  BY DEF LoadsBounded, NotStarted, Waiting, Verdict
<1>2. TypeOK'
  BY DEF TypeOK, WorkerPC
<1>3. SingleOwner'
  BY PoolAssumption DEF SingleOwner, Busy, TypeOK
<1>4. DoneMeansLoaded'
  BY DEF DoneMeansLoaded, Loaded
<1>5. InProgress'
  BY DEF InProgress, Loaded, Busy, TypeOK
<1>6. Accounted'
  BY DEF Accounted, TypeOK
<1>7. Drained'
  BY DEF Drained, Closed, TypeOK
<1> QED BY <1>1, <1>2, <1>3, <1>4, <1>5, <1>6, <1>7

\* There are fewer attempts than MaxAttempts before an attempt is started.
LEMMA StartAttemptCore ==
    ASSUME Core, NEW w \in Workers, StartAttempt(w)
    PROVE  Core'
<1> USE DEF Core, StartAttempt, Goto, mainVars, loads, counters
<1>1. LoadsBounded' /\ NotStarted' /\ Waiting' /\ Accounted' /\ Verdict'
  BY DEF LoadsBounded, NotStarted, Waiting, Accounted, Verdict
<1>2. TypeOK'
  BY PoolAssumption DEF TypeOK, WorkerPC, Busy, InProgress
<1>3. SingleOwner'
  BY DEF SingleOwner, Busy
<1>4. DoneMeansLoaded'
  BY DEF DoneMeansLoaded, Loaded
<1>5. InProgress'
  BY DEF InProgress, Loaded, Busy, TypeOK
<1>6. Drained'
  BY DEF Drained, Closed
<1> QED BY <1>1, <1>2, <1>3, <1>4, <1>5, <1>6

\* The file of the worker is accounted for by the cancellation.
LEMMA StopRetryingCore ==
    ASSUME Core, NEW w \in Workers, StopRetrying(w)
    PROVE  Core'
<1> USE DEF Core, StopRetrying, Goto, Release, mainVars, loads, counters
<1>1. LoadsBounded' /\ NotStarted' /\ Waiting'
      /\ Accounted' /\ Drained' /\ Verdict'
  BY DEF LoadsBounded, NotStarted, Waiting, Accounted, Drained, Verdict
<1>2. TypeOK'
  BY DEF TypeOK, WorkerPC
<1>3. SingleOwner'
  BY PoolAssumption DEF SingleOwner, Busy, TypeOK
<1>4. DoneMeansLoaded'
  BY DEF DoneMeansLoaded, Loaded
<1>5. InProgress'
  BY DEF InProgress, Loaded, Busy, TypeOK
<1> QED BY <1>1, <1>2, <1>3, <1>4, <1>5

\* The wait between two attempts changes nothing about the file.
LEMMA BackoffOverCore ==
    ASSUME Core, NEW w \in Workers, BackoffOver(w)
    PROVE  Core'
<1> USE DEF Core, BackoffOver, Goto, mainVars, loads, counters
<1>1. LoadsBounded' /\ NotStarted' /\ Waiting' /\ Accounted' /\ Verdict'
  BY DEF LoadsBounded, NotStarted, Waiting, Accounted, Verdict
<1>2. TypeOK'
  BY DEF TypeOK, WorkerPC
<1>3. SingleOwner'
  BY DEF SingleOwner, Busy
<1>4. DoneMeansLoaded'
  BY DEF DoneMeansLoaded, Loaded
<1>5. InProgress'
  BY DEF InProgress, Loaded, Busy
<1>6. Drained'
  BY DEF Drained, Closed
<1> QED BY <1>1, <1>2, <1>3, <1>4, <1>5, <1>6

\* The load of the current attempt is the first one that this attempt adds.
LEMMA ChunksOkCore ==
    ASSUME Core, NEW w \in Workers, ChunksOk(w)
    PROVE  Core'
<1> USE DEF Core, ChunksOk, Lands, Goto, mainVars, counters
<1>1. NotStarted' /\ Accounted' /\ Verdict'
  BY DEF NotStarted, Accounted, Verdict
<1>2. TypeOK'
  BY DEF TypeOK, WorkerPC, Busy, SingleOwner
<1>3. SingleOwner'
  BY DEF SingleOwner, Busy
<1>4. DoneMeansLoaded'
  BY DEF DoneMeansLoaded, Loaded, TypeOK
<1>5. LoadsBounded'
  BY PoolAssumption DEF LoadsBounded, InProgress, SingleOwner, TypeOK
<1>6. Waiting'
  BY DEF Waiting, SingleOwner
<1>7. InProgress'
  BY DEF InProgress, Loaded, Busy, SingleOwner, TypeOK
<1>8. Drained'
  BY DEF Drained, Closed
<1> QED BY <1>1, <1>2, <1>3, <1>4, <1>5, <1>6, <1>7, <1>8

\* At most one load per attempt, and an attempt is left.
LEMMA ChunksTransientCore ==
    ASSUME Core, NEW w \in Workers, ChunksTransient(w)
    PROVE  Core'
<1> USE DEF Core, ChunksTransient, MayLand, Goto, mainVars, counters
<1>1. NotStarted' /\ Accounted' /\ Verdict'
  BY DEF NotStarted, Accounted, Verdict
<1>2. TypeOK'
  BY DEF TypeOK, WorkerPC, Busy, SingleOwner
<1>3. SingleOwner'
  BY DEF SingleOwner, Busy
<1>4. DoneMeansLoaded'
  BY DEF DoneMeansLoaded, Loaded, TypeOK
<1>5. LoadsBounded'
  BY PoolAssumption DEF LoadsBounded, InProgress, SingleOwner, TypeOK
<1>6. Waiting'
  BY DEF Waiting, SingleOwner
<1>7. InProgress'
  BY DEF InProgress, Loaded, Busy, SingleOwner, TypeOK
<1>8. Drained'
  BY DEF Drained, Closed
<1> QED BY <1>1, <1>2, <1>3, <1>4, <1>5, <1>6, <1>7, <1>8

\* At most one load per attempt; the file is given up.
LEMMA ChunksErrorCore ==
    ASSUME Core, NEW w \in Workers, ChunksError(w)
    PROVE  Core'
<1> USE DEF Core, ChunksError, MayLand, GiveUp, Goto, Release, mainVars
<1>1. NotStarted' /\ Verdict'
  BY DEF NotStarted, Verdict
<1>2. TypeOK'
  BY DEF TypeOK, WorkerPC, Busy, SingleOwner
<1>3. SingleOwner'
  BY PoolAssumption DEF SingleOwner, Busy, TypeOK
<1>4. DoneMeansLoaded'
  BY DEF DoneMeansLoaded, Loaded, TypeOK
<1>5. LoadsBounded'
  BY PoolAssumption DEF LoadsBounded, InProgress, SingleOwner, TypeOK
<1>6. Waiting'
  BY DEF Waiting, SingleOwner
<1>7. InProgress'
  BY DEF InProgress, Loaded, Busy, SingleOwner, TypeOK
<1>8. Accounted'
  BY DEF Accounted, TypeOK
<1>9. Drained'
  BY DEF Drained, Closed, TypeOK
<1> QED BY <1>1, <1>2, <1>3, <1>4, <1>5, <1>6, <1>7, <1>8, <1>9

\* The only drive_files row of the file; its chunks are loaded already.
LEMMA MetadataOkCore ==
    ASSUME Core, NEW w \in Workers, MetadataOk(w)
    PROVE  Core'
<1> USE DEF Core, MetadataOk, Lands, Goto, mainVars, counters
<1>1. NotStarted' /\ Accounted' /\ Verdict'
  BY DEF NotStarted, Accounted, Verdict
<1>2. TypeOK'
  BY DEF TypeOK, WorkerPC, Busy, SingleOwner
<1>3. SingleOwner'
  BY DEF SingleOwner, Busy
<1>4. DoneMeansLoaded'
  BY DEF DoneMeansLoaded, Loaded, TypeOK
<1>5. LoadsBounded'
  BY DEF LoadsBounded, Busy, InProgress
<1>6. Waiting'
  BY DEF Waiting, SingleOwner
<1>7. InProgress'
  BY DEF InProgress, Loaded, Busy, SingleOwner, TypeOK
<1>8. Drained'
  BY DEF Drained, Closed
<1> QED BY <1>1, <1>2, <1>3, <1>4, <1>5, <1>6, <1>7, <1>8

\* The row may be there; the file is given up, so it stays the only one.
LEMMA MetadataErrorCore ==
    ASSUME Core, NEW w \in Workers, MetadataError(w)
    PROVE  Core'
<1> USE DEF Core, MetadataError, MayLand, GiveUp, Goto, Release, mainVars
<1>1. NotStarted' /\ Verdict'
  BY DEF NotStarted, Verdict
<1>2. TypeOK'
  BY PoolAssumption DEF TypeOK, WorkerPC, Busy, SingleOwner
<1>3. SingleOwner'
  BY PoolAssumption DEF SingleOwner, Busy, TypeOK
<1>4. DoneMeansLoaded'
  BY DEF DoneMeansLoaded, Loaded, TypeOK
<1>5. LoadsBounded'
  BY DEF LoadsBounded, Busy, InProgress
<1>6. Waiting'
  BY DEF Waiting, SingleOwner
<1>7. InProgress'
  BY DEF InProgress, Loaded, Busy, SingleOwner, TypeOK
<1>8. Accounted'
  BY DEF Accounted, TypeOK
<1>9. Drained'
  BY DEF Drained, Closed, TypeOK
<1> QED BY <1>1, <1>2, <1>3, <1>4, <1>5, <1>6, <1>7, <1>8, <1>9

\* The file was counted before; its worker lets it go, whatever the store did.
LEMMA MarkFailedCore ==
    ASSUME Core, NEW w \in Workers, MarkFailed(w)
    PROVE  Core'
<1> USE DEF Core, MarkFailed, StatusWritten, StatusUnknown, Goto, Release, mainVars,
           loads
<1>1. LoadsBounded' /\ NotStarted' /\ Verdict'
  BY DEF LoadsBounded, NotStarted, Verdict
<1>2. TypeOK'
  BY DEF TypeOK, SyncStatus, WorkerPC
<1>3. SingleOwner'
  BY PoolAssumption DEF SingleOwner, Busy, TypeOK
<1>4. DoneMeansLoaded'
  BY DEF DoneMeansLoaded, Loaded, TypeOK
<1>5. Waiting'
  BY DEF Waiting, SingleOwner, TypeOK
<1>6. InProgress'
  BY DEF InProgress, Loaded, Busy, SingleOwner, TypeOK
<1>7. Accounted'
  BY DEF Accounted, InProgress, SingleOwner, TypeOK
<1>8. Drained'
  BY DEF Drained, Closed
<1> QED BY <1>1, <1>2, <1>3, <1>4, <1>5, <1>6, <1>7, <1>8

\* The file is loaded; done or counted, its worker lets it go.
LEMMA MarkDoneCore ==
    ASSUME Core, NEW w \in Workers, MarkDone(w)
    PROVE  Core'
<1> USE DEF Core, MarkDone, StatusWritten, StatusUnknown, Goto, Release, mainVars,
           loads, counters
<1>1. LoadsBounded' /\ NotStarted' /\ Verdict'
  BY DEF LoadsBounded, NotStarted, Verdict
<1>2. TypeOK'
  BY DEF TypeOK, SyncStatus, WorkerPC
<1>3. SingleOwner'
  BY PoolAssumption DEF SingleOwner, Busy, TypeOK
<1>4. DoneMeansLoaded'
  BY DEF DoneMeansLoaded, Loaded, Busy, InProgress, TypeOK
<1>5. Waiting'
  BY DEF Waiting, SingleOwner, TypeOK
<1>6. InProgress'
  BY DEF InProgress, Loaded, Busy, SingleOwner, TypeOK
<1>7. Accounted'
  BY DEF Accounted, TypeOK
<1>8. Drained'
  BY DEF Drained, Closed
<1> QED BY <1>1, <1>2, <1>3, <1>4, <1>5, <1>6, <1>7, <1>8

\* Every step of a run preserves Core.
LEMMA StepCore == Core /\ [Next]_vars => Core'
<1> SUFFICES ASSUME Core, [Next]_vars PROVE Core'
  OBVIOUS
<1>1. CASE Main
  BY <1>1, StartupErrorCore, ListPendingCore, FeedCore, CloseJobsCore,
     StopFeedingCore, ReturnCore
  DEF Main
<1>2. CASE Cancel
  BY <1>2, CancelCore
<1>3. CASE \E w \in Workers : Worker(w)
  BY <1>3, TakeCore, ExitCore, DownloadOkCore, DownloadErrorCore, StartAttemptCore,
     StopRetryingCore, BackoffOverCore, ChunksOkCore, ChunksTransientCore,
     ChunksErrorCore, MetadataOkCore, MetadataErrorCore, MarkFailedCore,
     MarkDoneCore
  DEF Worker
<1>4. CASE UNCHANGED vars
  BY <1>4 DEF vars, Core, TypeOK, SingleOwner, DoneMeansLoaded, LoadsBounded,
      NotStarted, Waiting, InProgress, Accounted, Drained, Verdict, Busy, Loaded,
      Closed
<1> QED BY <1>1, <1>2, <1>3, <1>4 DEF Next

-----------------------------------------------------------------------------
(* The counters of a run *)

\* One more element, one element less, and a set between a set and that.
LEMMA CardinalitySteps ==
    ASSUME NEW S, IsFiniteSet(S), NEW x
    PROVE  /\ Cardinality(S) \in Nat
           /\ x \notin S => Cardinality(S \cup {x}) = Cardinality(S) + 1
           /\ x \in S => Cardinality(S \ {x}) = Cardinality(S) - 1
           /\ \A T \in SUBSET (S \cup {x}) :
                 Cardinality(T) \in Nat /\ Cardinality(T) <= Cardinality(S) + 1
<1>1. IsFiniteSet(S \cup {x}) /\ Cardinality(S) \in Nat /\ Cardinality(S \cup {x}) \in Nat
  BY FS_AddElement, FS_CardinalityType
<1>2. Cardinality(S \cup {x}) <= Cardinality(S) + 1
  BY <1>1, FS_AddElement
<1>3. \A T \in SUBSET (S \cup {x}) : IsFiniteSet(T) /\ Cardinality(T) <= Cardinality(S \cup {x})
  BY <1>1, FS_Subset
<1>4. \A T \in SUBSET (S \cup {x}) : Cardinality(T) \in Nat
  BY <1>3, FS_CardinalityType
<1> QED BY <1>1, <1>2, <1>3, <1>4, FS_AddElement, FS_RemoveElement

\* The sets that are counted are finite.
LEMMA CountedSets ==
    ASSUME Core
    PROVE  /\ \A S \in {Failed, LetGo, Lost, Counted} : S \subseteq Files /\ IsFiniteSet(S)
           /\ Marking \subseteq Workers /\ IsFiniteSet(Marking)
           /\ \A S \in {Failed, LetGo, Lost, Counted, Marking} : Cardinality(S) \in Nat
           /\ failedFiles \in Nat /\ failedStatusUpdates \in Nat
<1>1. Failed \subseteq Files /\ LetGo \subseteq Files /\ Lost \subseteq Files
  BY DEF Core, TypeOK, Failed, LetGo, Lost
<1>2. Counted \subseteq Files
  BY <1>1 DEF Counted, Marking, Core, TypeOK, SingleOwner, Busy
<1>3. Marking \subseteq Workers
  BY DEF Marking
<1>4. failedFiles \in Nat /\ failedStatusUpdates \in Nat
  BY DEF Core, TypeOK
<1>5. IsFiniteSet(Marking) /\ \A S \in SUBSET Files : IsFiniteSet(S)
  BY <1>3, PoolAssumption, FS_Subset
<1> QED BY <1>1, <1>2, <1>3, <1>4, <1>5, FS_CardinalityType

\* Steps that count nothing and write no status: at most, files are let go to a
\* cancellation.
LEMMA QuietCounts ==
    ASSUME Core, Core', Counts, UNCHANGED counters, Failed' = Failed, Marking' = Marking,
           Counted \subseteq Counted', ~ctxDone' => ~ctxDone /\ Lost' = Lost
    PROVE  Counts'
<1>1. /\ Counted' \in SUBSET Files /\ IsFiniteSet(Counted')
      /\ Cardinality(Counted') \in Nat
  <2>1. Counted' \subseteq Files
    BY DEF Counted, LetGo, Marking, Core, TypeOK, SingleOwner, Busy
  <2> QED BY <2>1, PoolAssumption, FS_Subset, FS_CardinalityType
<1>2. Cardinality(Counted) <= Cardinality(Counted') /\ Cardinality(Counted) \in Nat
  BY <1>1, FS_Subset, CountedSets
<1>3. failedFiles' <= Cardinality(Counted')
  BY <1>1, <1>2, CountedSets DEF Counts, counters
<1> QED BY <1>3 DEF Counts, counters

\* Files that are fed or taken are still under way.
LEMMA QuietMainCounts ==
    ASSUME Core, Core', Counts,
           \/ StartupError \/ Feed \/ CloseJobs \/ StopFeeding \/ Return
           \/ Cancel \/ UNCHANGED vars
    PROVE  Counts'
<1>1. /\ UNCHANGED counters /\ UNCHANGED <<listed, status, wpc, job>>
      /\ unfed' \cup queue' = unfed \cup queue
      /\ ~ctxDone' => ~ctxDone
  BY DEF StartupError, Feed, CloseJobs, StopFeeding, Return, Cancel, vars, counters, mainVars
<1>2. Failed' = Failed /\ Marking' = Marking /\ LetGo' = LetGo
  BY <1>1 DEF Failed, Marking, LetGo
<1>3. Counted' = Counted /\ Lost' = Lost
  BY <1>1, <1>2 DEF Counted, Lost
<1> QED BY <1>1, <1>2, <1>3, QuietCounts

\* A run starts with nothing counted, and with every file it listed under way.
LEMMA ListPendingCounts ==
    ASSUME Core, Core', Counts, ListPending
    PROVE  Counts'
<1>1. listed = {} /\ \A w \in Workers : wpc[w] = "none"
  BY DEF ListPending, Core, NotStarted
<1>2. Failed = {} /\ Marking = {} /\ LetGo = {} /\ Counted = {}
  BY <1>1 DEF Failed, Marking, LetGo, Counted
<1>3. failedFiles = 0 /\ failedStatusUpdates = 0
  BY <1>2, FS_EmptySet, CountedSets DEF Counts
<1>4. Failed' = {} /\ Marking' = {} /\ LetGo' = {}
  BY DEF ListPending, Failed, Marking, LetGo
<1>5. Counted' = {} /\ Lost' = {}
  BY <1>4 DEF Counted, Lost
<1> QED BY <1>3, <1>4, <1>5, FS_EmptySet DEF Counts, ListPending, counters

\* The worker goes on with its file, takes one or leaves without one.
LEMMA QuietWorkerCounts ==
    ASSUME Core, Core', Counts, NEW w \in Workers,
           \/ Take(w) \/ Exit(w) \/ DownloadOk(w) \/ StartAttempt(w) \/ BackoffOver(w)
           \/ ChunksOk(w) \/ ChunksTransient(w) \/ MetadataOk(w)
    PROVE  Counts'
<1>1. UNCHANGED <<failedFiles, failedStatusUpdates, listed, unfed, status, ctxDone>>
  BY DEF Take, Exit, DownloadOk, StartAttempt, BackoffOver, ChunksOk, ChunksTransient,
         MetadataOk, mainVars, counters
<1>2. wpc[w] # "mark_failed" /\ \E pc : pc # "mark_failed" /\ wpc' = [wpc EXCEPT ![w] = pc]
  BY DEF Take, Exit, DownloadOk, StartAttempt, BackoffOver, ChunksOk, ChunksTransient,
         MetadataOk, Goto
<1>3. Marking' = Marking
  BY <1>2 DEF Marking, Core, TypeOK
<1>4. /\ \A v \in Workers : v # w => job'[v] = job[v]
      /\ LetGo' = LetGo
  <2>1. CASE Take(w)
    <3>1. PICK f \in queue : queue' = queue \ {f} /\ job' = [job EXCEPT ![w] = f]
      BY <2>1 DEF Take
    <3>2. job[w] = NoFile /\ NoFile \notin listed
      BY <2>1, PoolAssumption DEF Take, Core, SingleOwner, Busy, TypeOK
    <3> QED BY <1>1, <3>1, <3>2 DEF LetGo, Core, TypeOK
  <2>2. CASE ~Take(w)
    <3>1. UNCHANGED <<queue, job>>
      BY <2>2 DEF Exit, DownloadOk, StartAttempt, BackoffOver, ChunksOk, ChunksTransient,
                  MetadataOk
    <3> QED BY <1>1, <3>1 DEF LetGo
  <2> QED BY <2>1, <2>2
<1>5. Failed' = Failed /\ Lost' = Lost
  BY <1>1, <1>4 DEF Failed, Lost
<1>6. Counted' = Counted
  BY <1>2, <1>3, <1>4 DEF Counted, Marking
<1> QED BY <1>1, <1>3, <1>5, <1>6, QuietCounts DEF counters

\* A worker that lets its file go to a cancellation counts nothing.
LEMMA DropCounts ==
    ASSUME Core, Core', Counts, NEW w \in Workers, ctxDone, ctxDone',
           Goto(w, "exited"), Release(w), wpc[w] # "mark_failed",
           UNCHANGED <<failedFiles, failedStatusUpdates, listed, unfed, queue, status>>
    PROVE  Counts'
<1>1. Marking' = Marking /\ Failed' = Failed
  BY DEF Goto, Marking, Failed, Core, TypeOK
<1>2. LetGo \subseteq LetGo'
  BY PoolAssumption DEF Release, LetGo, Core, TypeOK
<1>3. \A v \in Marking : job'[v] = job[v]
  BY DEF Release, Marking, Core, TypeOK
<1>4. Counted \subseteq Counted'
  BY <1>1, <1>2, <1>3 DEF Counted
<1> QED BY <1>1, <1>4, QuietCounts DEF counters

\* A failure is counted together with the worker that will record it, and for a file
\* that no failure was counted for before.
LEMMA FailCounts ==
    ASSUME Core, Core', Counts, NEW w \in Workers, Busy(w), wpc[w] # "mark_failed",
           Goto(w, "mark_failed"), failedFiles' = failedFiles + 1,
           UNCHANGED <<failedStatusUpdates, listed, unfed, queue, status, job, ctxDone>>
    PROVE  Counts'
<1>1. w \notin Marking /\ Marking' = Marking \cup {w} /\ Failed' = Failed /\ LetGo' = LetGo
  BY DEF Goto, Marking, Failed, LetGo, Core, TypeOK
<1>2. Counted' = Counted \cup {job[w]} /\ Lost' = Lost
  BY <1>1 DEF Counted, Lost
<1>3. job[w] \notin Counted
  BY <1>1 DEF Counted, LetGo, Marking, Core, SingleOwner
<1>4. /\ Cardinality(Marking') = Cardinality(Marking) + 1
      /\ Cardinality(Counted') = Cardinality(Counted) + 1
  BY <1>1, <1>2, <1>3, CountedSets, CardinalitySteps
<1> QED BY <1>1, <1>2, <1>4, CountedSets DEF Counts

\* A call that failed for good is a failure, or a file let go to the cancellation.
LEMMA GiveUpCounts ==
    ASSUME Core, Core', Counts, NEW w \in Workers,
           DownloadError(w) \/ StopRetrying(w) \/ ChunksError(w) \/ MetadataError(w)
    PROVE  Counts'
<1>1. Busy(w) /\ wpc[w] # "mark_failed"
  BY DEF DownloadError, StopRetrying, ChunksError, MetadataError, Busy
<1>2. UNCHANGED <<failedStatusUpdates, listed, unfed, queue, status, ctxDone>>
  BY DEF DownloadError, StopRetrying, ChunksError, MetadataError, mainVars, counters
<1>3. \/ ctxDone /\ Goto(w, "exited") /\ Release(w) /\ UNCHANGED failedFiles
      \/ GiveUp(w)
  BY DEF DownloadError, StopRetrying, ChunksError, MetadataError, counters
<1> QED BY <1>1, <1>2, <1>3, DropCounts, FailCounts DEF GiveUp

\* A worker that recorded an outcome, or could not, lets its file go.
LEMMA MarkLetsGo ==
    ASSUME Core, Core', NEW w \in Workers, MarkFailed(w) \/ MarkDone(w)
    PROVE  /\ job[w] \in listed /\ status[job[w]] = "pending"
           /\ LetGo' = LetGo \cup {job[w]} /\ job[w] \notin LetGo
           /\ \A f \in Files : f # job[w] => status'[f] = status[f]
           /\ \A v \in Workers : v # w => job'[v] = job[v] /\ wpc'[v] = wpc[v]
           /\ wpc'[w] = "idle"
           /\ UNCHANGED <<listed, unfed, queue, ctxDone>>
<1>1. /\ Busy(w) /\ Goto(w, "idle") /\ Release(w)
      /\ UNCHANGED <<listed, unfed, queue, ctxDone>>
  BY DEF MarkFailed, MarkDone, Busy, mainVars
<1>2. job[w] \in listed /\ status[job[w]] = "pending" /\ job[w] \in Files
  BY <1>1 DEF Core, InProgress, TypeOK
<1>3. /\ \A v \in Workers : v # w => job'[v] = job[v] /\ wpc'[v] = wpc[v]
      /\ wpc'[w] = "idle" /\ job'[w] = NoFile
  BY <1>1 DEF Goto, Release, Core, TypeOK
<1>4. job[w] \notin unfed \cup queue /\ \A v \in Workers : v # w => job[v] # job[w]
  BY <1>1 DEF Core, SingleOwner
<1>5. LetGo' = LetGo \cup {job[w]} /\ job[w] \notin LetGo
  BY <1>1, <1>2, <1>3, <1>4, PoolAssumption DEF LetGo, Core, TypeOK
<1>6. \A f \in Files : f # job[w] => status'[f] = status[f]
  BY DEF MarkFailed, MarkDone, StatusWritten, StatusUnknown, Core, TypeOK
<1> QED BY <1>1, <1>2, <1>3, <1>5, <1>6

\* A failure that was counted gets its record, or is a failed update, or both.
LEMMA MarkFailedCounts ==
    ASSUME Core, Core', Counts, NEW w \in Workers, MarkFailed(w)
    PROVE  Counts'
<1>1. w \in Marking /\ Marking' = Marking \ {w} /\ failedFiles' = failedFiles
  BY MarkLetsGo DEF Marking, MarkFailed
<1>2. Counted' = Counted
  BY <1>1, MarkLetsGo DEF Counted, Marking
<1>3. Cardinality(Marking') = Cardinality(Marking) - 1
  BY <1>1, CountedSets, CardinalitySteps
<1>4. job[w] \notin Failed /\ Failed \subseteq Files /\ listed \subseteq Files
  BY MarkLetsGo DEF Failed, Core, TypeOK
<1>5. CASE status'[job[w]] = "failed" /\ failedStatusUpdates' = failedStatusUpdates
  <2>1. Failed' = Failed \cup {job[w]}
    BY <1>4, <1>5, MarkLetsGo DEF Failed
  <2>2. Cardinality(Failed') = Cardinality(Failed) + 1
    BY <1>4, <2>1, CountedSets, CardinalitySteps
  <2>3. Lost' = Lost
    BY <1>4, <1>5, MarkLetsGo DEF Lost, LetGo
  <2> QED BY <1>1, <1>2, <1>3, <1>5, <2>2, <2>3, MarkLetsGo, CountedSets DEF Counts
<1>6. CASE failedStatusUpdates' = failedStatusUpdates + 1
  <2>1. Failed \subseteq Failed' /\ Failed' \in SUBSET (Failed \cup {job[w]})
    BY <1>4, MarkLetsGo DEF Failed
  <2>2. /\ Cardinality(Failed') \in Nat
        /\ Cardinality(Failed) <= Cardinality(Failed')
        /\ Cardinality(Failed') <= Cardinality(Failed) + 1
    <3>1. IsFiniteSet(Failed')
      BY <1>4, <2>1, PoolAssumption, FS_Subset, MarkLetsGo DEF Core, TypeOK
    <3> QED BY <2>1, <3>1, FS_Subset, CountedSets, CardinalitySteps
  <2>3. Lost' \in SUBSET (Lost \cup {job[w]})
    BY <1>4, MarkLetsGo DEF Lost, LetGo
  <2>4. Cardinality(Lost') \in Nat /\ Cardinality(Lost') <= Cardinality(Lost) + 1
    BY <2>3, CountedSets, CardinalitySteps
  <2> QED BY <1>1, <1>2, <1>3, <1>6, <2>2, <2>4, MarkLetsGo, CountedSets DEF Counts
<1>7. \/ status'[job[w]] = "failed" /\ failedStatusUpdates' = failedStatusUpdates
      \/ failedStatusUpdates' = failedStatusUpdates + 1
  BY MarkLetsGo DEF MarkFailed, StatusWritten, Core, TypeOK
<1> QED BY <1>5, <1>6, <1>7

\* A file is recorded as done, or a failure and a failed update are counted for it.
LEMMA MarkDoneCounts ==
    ASSUME Core, Core', Counts, NEW w \in Workers, MarkDone(w)
    PROVE  Counts'
<1>1. Marking' = Marking /\ wpc[w] # "mark_failed" /\ Busy(w)
  BY MarkLetsGo DEF Marking, MarkDone, Busy
<1>2. job[w] \notin Counted /\ Counted' = Counted \cup {job[w]}
  BY <1>1, MarkLetsGo DEF Counted, Marking, Core, SingleOwner
<1>3. Cardinality(Counted') = Cardinality(Counted) + 1
  BY <1>2, CountedSets, CardinalitySteps
<1>4. listed \subseteq Files /\ status'[job[w]] \in {"pending", "done"}
  BY MarkLetsGo DEF MarkDone, StatusWritten, StatusUnknown, Core, TypeOK
<1>5. Failed' = Failed
  BY <1>4, MarkLetsGo DEF Failed
<1>6. CASE status'[job[w]] = "done" /\ UNCHANGED counters
  <2>1. Lost' = Lost
    BY <1>4, <1>6, MarkLetsGo DEF Lost, LetGo
  <2> QED BY <1>1, <1>3, <1>5, <1>6, <2>1, MarkLetsGo, CountedSets DEF Counts, counters
<1>7. CASE /\ failedFiles' = failedFiles + 1
           /\ failedStatusUpdates' = failedStatusUpdates + 1
  <2>1. Lost' \in SUBSET (Lost \cup {job[w]})
    BY <1>4, MarkLetsGo DEF Lost, LetGo
  <2>2. Cardinality(Lost') \in Nat /\ Cardinality(Lost') <= Cardinality(Lost) + 1
    BY <2>1, CountedSets, CardinalitySteps
  <2> QED BY <1>1, <1>3, <1>5, <1>7, <2>2, MarkLetsGo, CountedSets DEF Counts
<1>8. \/ status'[job[w]] = "done" /\ UNCHANGED counters
      \/ failedFiles' = failedFiles + 1 /\ failedStatusUpdates' = failedStatusUpdates + 1
  BY MarkLetsGo DEF MarkDone, StatusWritten, Core, TypeOK
<1> QED BY <1>6, <1>7, <1>8

\* Before a run everything is zero.
LEMMA InitCounts == Init => Counts
<1> SUFFICES ASSUME Init PROVE Counts
  OBVIOUS
<1>1. Failed = {} /\ Marking = {} /\ LetGo = {}
  BY DEF Init, Failed, Marking, LetGo
<1>2. Counted = {} /\ Lost = {}
  BY <1>1 DEF Counted, Lost
<1> QED BY <1>1, <1>2, FS_EmptySet DEF Init, Counts

\* Every step keeps the counters in step with the files.
LEMMA StepCounts == Core /\ Core' /\ Counts /\ [Next]_vars => Counts'
BY QuietMainCounts, ListPendingCounts, QuietWorkerCounts, GiveUpCounts, MarkFailedCounts,
   MarkDoneCounts
DEF Next, Main, Worker

-----------------------------------------------------------------------------
(* The inductive invariant and the theorems that follow from it *)

\* The inductive invariant of a run: where each listed file is, what the worker that
\* holds it knows of it, and what the counters and the verdict say of all of them.
THEOREM Inductive == Spec => []IInv
<1>1. Init => IInv
  BY InitCore, InitCounts DEF IInv
<1>2. IInv /\ [Next]_vars => IInv'
  BY StepCore, StepCounts DEF IInv
<1> QED BY <1>1, <1>2, PTL DEF Spec

\* The part of it that does not count.
LEMMA AlwaysCore == Spec => []Core
<1>1. IInv => Core
  BY DEF IInv
<1> QED BY Inductive, <1>1, PTL

\* Every variable of a run keeps its type; no worker submits more than
\* MaxAttempts Load Jobs for the chunks of a file.
THEOREM TypeCorrect == Spec => []TypeOK
<1>1. Core => TypeOK
  BY DEF Core
<1> QED BY AlwaysCore, <1>1, PTL

\* The channel hands every file to one worker: no file is processed twice at
\* the same time by a run.
THEOREM NoSharedFile == Spec => []SingleOwner
<1>1. Core => SingleOwner
  BY DEF Core
<1> QED BY AlwaysCore, <1>1, PTL

\* A file the run recorded as done has its rows in BigQuery, whichever calls
\* failed before.
THEOREM DoneLoaded == Spec => []DoneMeansLoaded
<1>1. Core => DoneMeansLoaded
  BY DEF Core
<1> QED BY AlwaysCore, <1>1, PTL

\* A run appends at most one drive_files row per file and at most MaxAttempts
\* copies of its chunks, although it retries and errors may have committed.
THEOREM AtMostOneMetadataRow == Spec => []LoadsBounded
<1>1. Core => LoadsBounded
  BY DEF Core
<1> QED BY AlwaysCore, <1>1, PTL

\* When Run returns nil, every file it listed is recorded as done and loaded: a
\* worker that left early, a file still in the channel or a failure nobody counted
\* would show in the verdict.
THEOREM SuccessComplete == Spec => []SuccessMeansComplete
<1>1. Core => SuccessMeansComplete
  <2> SUFFICES ASSUME Core, result = "ok", NEW f \in listed
               PROVE  status[f] = "done" /\ Loaded(f)
    BY DEF SuccessMeansComplete
  <2>1. ~ctxDone /\ failedFiles = 0 /\ mpc = "returned"
    BY DEF Core, Verdict
  <2>2. \A w \in Workers : wpc[w] = "exited" /\ job[w] = NoFile
    BY DEF Core, Verdict, SingleOwner, Busy
  <2>3. unfed = {} /\ queue = {}
    BY <2>1, <2>2, PoolAssumption DEF Core, Drained, Closed
  <2>4. f # NoFile
    BY PoolAssumption DEF Core, TypeOK
  <2>5. status[f] = "done"
    BY <2>1, <2>2, <2>3, <2>4 DEF Core, Accounted
  <2> QED BY <2>5 DEF Core, DoneMeansLoaded
<1> QED BY AlwaysCore, <1>1, PTL

\* A run changes the status of files it listed, from pending, once: no outcome it
\* recorded is overwritten by a late worker.
THEOREM SettledOnce == Spec => StatusSettledOnce
<1> DEFINE Settles == \A f \in Files :
               status'[f] # status[f] => f \in listed /\ status[f] = "pending"
<1>1. Core /\ [Next]_vars => [Settles]_vars
  <2> SUFFICES ASSUME Core, Next, NEW f \in Files, status'[f] # status[f]
               PROVE  f \in listed /\ status[f] = "pending"
    BY DEF vars
  <2>1. PICK w \in Workers : MarkFailed(w) \/ MarkDone(w)
    BY DEF Next, Main, StartupError, ListPending, Feed, CloseJobs, StopFeeding, Return,
           Cancel, Worker, Take, Exit, DownloadOk, DownloadError, StartAttempt,
           StopRetrying, BackoffOver, ChunksOk, ChunksTransient, ChunksError,
           MetadataOk, MetadataError
  <2>2. f = job[w]
    BY <2>1 DEF MarkFailed, MarkDone, StatusWritten, StatusUnknown, Core, TypeOK
  <2> QED BY <2>1, <2>2 DEF MarkFailed, MarkDone, Core, InProgress, Busy
<1> QED BY AlwaysCore, <1>1, PTL DEF Spec, StatusSettledOnce

\* A run that was not cancelled leaves a listed file pending only if it could not write
\* its status, and then it counts that.
THEOREM PendingIsReported == Spec => []NoFileLost
<1>1. ASSUME IInv, result \in {"ok", "failed"}
      PROVE  Cardinality({f \in listed : status[f] = "pending"}) <= failedStatusUpdates
  <2>1. mpc = "returned" /\ ~ctxDone /\ \A w \in Workers : job[w] = NoFile
    BY <1>1 DEF IInv, Core, Verdict, SingleOwner, Busy
  <2>2. unfed = {} /\ queue = {}
    BY <1>1, <2>1, PoolAssumption DEF IInv, Core, Verdict, Drained, Closed
  <2>3. Lost = {f \in listed : status[f] = "pending"}
    BY <1>1, <2>1, <2>2, PoolAssumption DEF Lost, LetGo, IInv, Core, TypeOK
  <2> QED BY <1>1, <2>1, <2>3 DEF IInv, Counts
<1>2. IInv => NoFileLost
  BY <1>1 DEF NoFileLost
<1> QED BY <1>2, Inductive, PTL

\* The counts in the error of Run are exact: at most one failure per listed file, none
\* for nothing, and no file recorded as failed without one.
THEOREM ReportExact == Spec => []FailureReportExact
<1>1. ASSUME IInv
      PROVE  /\ failedStatusUpdates <= failedFiles
             /\ failedFiles <= Cardinality(listed)
             /\ Cardinality(Failed) <= failedFiles
             /\ failedFiles <= Cardinality(Failed) + failedStatusUpdates
                                  + Cardinality(Marking)
  <2>1. Core /\ Counts
    BY <1>1 DEF IInv
  <2>2. Counted \subseteq listed
    BY <2>1 DEF Counted, LetGo, Marking, Core, InProgress, Busy
  <2>3. IsFiniteSet(listed)
    BY <2>1, PoolAssumption, FS_Subset DEF Core, TypeOK
  <2>4. Cardinality(Counted) <= Cardinality(listed) /\ Cardinality(listed) \in Nat
    BY <2>2, <2>3, FS_Subset, FS_CardinalityType
  <2> QED BY <2>1, <2>4, CountedSets DEF Counts
<1>2. IInv => FailureReportExact
  BY <1>1 DEF FailureReportExact, Failed, Marking
<1> QED BY <1>2, Inductive, PTL

-----------------------------------------------------------------------------
(* The contract: initial states map to initial states, and under Core every step of the *)
(* main goroutine or of a worker maps to a step of the contract or to a stutter. That    *)
(* every run returns is liveness, and model-checked only.                                *)

\* A worker holds a file only while the run is under way, and the file is listed and
\* has no outcome.
LEMMA BusyRunning ==
    ASSUME Core, NEW w \in Workers, Busy(w)
    PROVE  /\ mpc \in {"feed", "wait"}
           /\ job[w] \in listed /\ job[w] \in Files /\ status[job[w]] = "pending"
BY DEF Core, TypeOK, NotStarted, Verdict, InProgress, Busy

\* What the main goroutine does is allowed by the contract; in particular it returns
\* nil only when every listed file is done.
LEMMA MainContract == Core /\ Main => [Contract!Next]_(Contract!vars)
<1> SUFFICES ASSUME Core, Main PROVE [Contract!Next]_(Contract!vars)
  OBVIOUS
<1>1. CASE StartupError
  BY <1>1 DEF StartupError, counters, Contract!Next, Contract!Refuse
<1>2. CASE ListPending
  BY <1>2 DEF ListPending, counters, Contract!Next, Contract!Start, Contract!vars
<1>3. CASE Feed \/ CloseJobs \/ StopFeeding
  BY <1>3 DEF Feed, CloseJobs, StopFeeding, counters, Contract!vars
<1>4. CASE Return
  <2>1. mpc = "wait" /\ ~ctxDone /\ failedFiles = 0
          => \A f \in listed : status[f] = "done"
    BY <1>4, PoolAssumption
    DEF Return, Core, TypeOK, SingleOwner, Busy, Drained, Closed, Accounted
  <2>2. failedFiles \in Nat
    BY DEF Core, TypeOK
  <2> QED BY <1>4, <2>1, <2>2 DEF Return, counters, Contract!Next, Contract!Return
<1> QED BY <1>1, <1>2, <1>3, <1>4 DEF Main

\* What a worker does is allowed by the contract: it settles a file that has no
\* outcome, or something went wrong, or nobody outside notices.
LEMMA WorkerContract ==
    ASSUME Core, NEW w \in Workers, Worker(w)
    PROVE  [Contract!Next]_(Contract!vars)
<1>1. CASE Take(w) \/ Exit(w)
  BY <1>1 DEF Take, Exit, mainVars, counters, Contract!vars
<1>2. CASE DownloadOk(w) \/ StartAttempt(w) \/ StopRetrying(w) \/ BackoffOver(w)
  BY <1>2 DEF DownloadOk, StartAttempt, StopRetrying, BackoffOver, mainVars, counters,
              Contract!vars
<1>3. CASE ChunksOk(w) \/ ChunksTransient(w) \/ MetadataOk(w)
  BY <1>3 DEF ChunksOk, ChunksTransient, MetadataOk, mainVars, counters, Contract!vars
<1>4. CASE DownloadError(w) \/ ChunksError(w) \/ MetadataError(w)
  <2>1. Busy(w)
    BY <1>4 DEF DownloadError, ChunksError, MetadataError, Busy
  <2>2. failedFiles \in Nat
    BY DEF Core, TypeOK
  <2>3. GiveUp(w) /\ UNCHANGED <<mpc, listed, ctxDone, status, result>>
    BY <1>4 DEF DownloadError, ChunksError, MetadataError, mainVars
  <2>4. CASE ctxDone
    BY <2>3, <2>4 DEF GiveUp, Contract!vars
  <2>5. CASE ~ctxDone
    <3>1. failedFiles' > 0
      BY <2>2, <2>3, <2>5 DEF GiveUp
    <3> QED BY <2>1, <2>3, <3>1, BusyRunning DEF Contract!Next, Contract!Trouble
  <2> QED BY <2>4, <2>5
<1>5. CASE MarkFailed(w)
  <2>1. Busy(w) /\ failedFiles > 0
    BY <1>5 DEF MarkFailed, Busy, Core, InProgress
  <2>2. UNCHANGED <<mpc, listed, ctxDone, result, failedFiles>>
    BY <1>5 DEF MarkFailed, mainVars
  <2>3. CASE status' = status
    BY <2>2, <2>3 DEF Contract!vars
  <2>4. CASE status' = [status EXCEPT ![job[w]] = "failed"]
    BY <2>1, <2>2, <2>4, BusyRunning DEF Contract!Next, Contract!Settle
  <2> QED BY <1>5, <2>3, <2>4 DEF MarkFailed, StatusWritten, StatusUnknown
<1>6. CASE MarkDone(w)
  <2>1. Busy(w) /\ failedFiles \in Nat
    BY <1>6 DEF MarkDone, Busy, Core, TypeOK
  <2>2. UNCHANGED <<mpc, listed, ctxDone, result>>
        /\ (failedFiles' = failedFiles \/ failedFiles' = failedFiles + 1)
    BY <1>6 DEF MarkDone, mainVars, counters
  <2>3. CASE status' = status
    <3>1. CASE failedFiles' = failedFiles
      BY <2>2, <2>3, <3>1 DEF Contract!vars
    <3>2. CASE failedFiles' = failedFiles + 1
      <4>1. failedFiles' > 0
        BY <2>1, <3>2
      <4> QED BY <2>1, <2>2, <2>3, <4>1, BusyRunning DEF Contract!Next, Contract!Trouble
    <3> QED BY <2>2, <3>1, <3>2
  <2>4. CASE status' = [status EXCEPT ![job[w]] = "done"]
    <3>1. failedFiles > 0 => failedFiles' > 0
      BY <2>1, <2>2
    <3>2. Contract!Settle(job[w])
      BY <2>1, <2>2, <2>4, <3>1, BusyRunning DEF Contract!Settle
    <3> QED BY <2>1, <3>2, BusyRunning DEF Contract!Next
  <2> QED BY <1>6, <2>3, <2>4 DEF MarkDone, StatusWritten, StatusUnknown
<1> QED BY <1>1, <1>2, <1>3, <1>4, <1>5, <1>6 DEF Worker

\* Every run is, seen from cmd/worker, a run of the contract: the order in which the
\* workers interleave cannot be seen in the outcomes or in the verdict.
THEOREM ContractSafety == Spec => Contract!Init /\ [][Contract!Next]_(Contract!vars)
<1>1. Init => Contract!Init
  BY DEF Init, Contract!Init, SyncStatus
<1>2. Core /\ [Next]_vars => [Contract!Next]_(Contract!vars)
  <2> SUFFICES ASSUME Core, [Next]_vars PROVE [Contract!Next]_(Contract!vars)
    OBVIOUS
  <2>1. CASE Main
    BY <2>1, MainContract
  <2>2. CASE Cancel
    BY <2>2 DEF Cancel, mainVars, counters, Contract!Next, Contract!Cancel
  <2>3. CASE \E w \in Workers : Worker(w)
    BY <2>3, WorkerContract
  <2>4. CASE UNCHANGED vars
    BY <2>4 DEF vars, Contract!vars
  <2> QED BY <2>1, <2>2, <2>3, <2>4 DEF Next
<1> QED BY <1>1, <1>2, AlwaysCore, PTL DEF Spec

=============================================================================
