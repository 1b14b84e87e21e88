------------------------- MODULE PipelineInvariant --------------------------
(***************************************************************************)
(* The inductive invariant of Pipeline, for runs that do not overlap: what  *)
(* the record of a file, the pool's work on it and the loads made of it say *)
(* of each other at every step. The clauses on versions hold when no Drive  *)
(* file returns to an earlier content.                                      *)
(***************************************************************************)
EXTENDS Pipeline

\* One run at a time: the worker is one process that an operator or a scheduler starts, and
\* nothing in the repository prevents a second one.
OneRun == \A r, s \in Runs : r = s

\* Tasks, and the forced requeue, are of registered files and belong to a phase.
Tasks ==
    \A r \in Runs :
        /\ requeue[r] # NoFile => phase[r] = "register" /\ store[requeue[r]] # NoDoc
        /\ \A f \in Files : task[r][f] # NoTask =>
              /\ phase[r] = "pool" /\ policy[r] \in Policies
              /\ store[f] # NoDoc
              /\ task[r][f].stage \in {"got", "chunks"} => f \in Markdown
              /\ task[r][f].stage = "mark_failed" => failed[r]

\* A listing is worked off during registration; Workspace files have no checksum.
Listed ==
    \A r \in Runs :
        /\ phase[r] # "register" => DOMAIN listing[r] = {}
        /\ \A f \in DOMAIN listing[r] :
              listing[r][f].checksum = NoChecksum <=> f \in Workspace

\* While the pool works on f, nobody else touches its record.
Owned ==
    \A r \in Runs, f \in Files :
        task[r][f] # NoTask => store[f] = task[r][f].doc /\ store[f].status = "pending"

\* As long as no registration failed, every file that was forced or cannot be compared
\* is pending, and the other ones are not left in failed; the pool takes what is pending.
Queued ==
    \A r \in Runs : ~failed[r] /\ phase[r] # "off" => \A f \in Files \ DOMAIN listing[r] :
        /\ store[f] # NoDoc /\ store[f].status # "failed"
        /\ (phase[r] = "register" /\ requeue[r] # f /\ (force[r] \/ f \in Workspace))
              => store[f].status = "pending"
        /\ (phase[r] = "pool" /\ store[f].status = "pending") => task[r][f] # NoTask

HasNewest(S) ==
    \A k \in S : \E l \in S : l.file = k.file /\ \A m \in S : m.file = k.file => m.at <= l.at

\* ingested_at tells the loads of a file apart, and a task that was stamped is newer
\* than all of them; so one of the loads that were committed is the newest one.
Stamps ==
    /\ \A l \in Sent : l.at <= clock
    /\ \A l, m \in Sent : l.file = m.file /\ l.at = m.at => l = m
    /\ \A r \in Runs, f \in Files : At(r, f, "chunks") =>
          /\ task[r][f].at <= clock
          /\ \A l \in Sent : l.file = f => l.at < task[r][f].at
    /\ HasNewest(loads)

\* Contents only grow: from load to load, ...
GrowingLoads ==
    /\ \A l \in Sent : l.version <= drive[l.file].content
    /\ \A l, m \in Sent : l.file = m.file /\ l.at < m.at => l.version <= m.version

\* ... from the listing over the record to Drive, ...
GrowingRecords ==
    \A f \in Markdown :
        /\ store[f] # NoDoc =>
              store[f].checksum \in Checksums /\ store[f].checksum <= drive[f].content
        /\ \A r \in Runs :
              f \in DOMAIN listing[r] => listing[r][f].checksum <= drive[f].content

\* The pool has the content of f, and has not loaded it yet.
Holds(r, f) == At(r, f, "got") \/ At(r, f, "chunks")

\* ... and from the record, or the load before, over the download to Drive.
GrowingTasks ==
    \A r \in Runs, f \in Markdown : Holds(r, f) =>
        /\ task[r][f].content <= drive[f].content
        /\ store[f].checksum <= task[r][f].content
        /\ \A l \in Sent : l.file = f => l.version <= task[r][f].content

Growing == GrowingLoads /\ GrowingRecords /\ GrowingTasks

\* The newest load of f has the name of its record, and a content that is not older.
Delivered(f) ==
    \E l \in loads :
        /\ l.file = f /\ Newest(l)
        /\ l.name = store[f].path
        /\ ~Revert => store[f].checksum <= l.version

\* The pool has loaded the chunks of f, and has yet to mark it done.
Loaded(f) == \E r \in Runs : At(r, f, "metadata") \/ At(r, f, "mark_done")

\* A file that is done, or about to be, was delivered.
Settled == \A f \in Markdown : Done(f) \/ Loaded(f) => Delivered(f)

\* A forced run that has not failed loads every Markdown file with its setting.
Forced ==
    \A r \in Runs, f \in Markdown :
        /\ phase[r] = "pool" /\ force[r] /\ ~failed[r]
        /\ task[r][f] = NoTask \/ At(r, f, "metadata") \/ At(r, f, "mark_done")
        => \E l \in loads : l.file = f /\ Newest(l) /\ l.policy = policy[r]

\* After one that succeeded, newer loads have that setting, too, if there are any.
Backfill ==
    backfilled # NoPolicy => \A f \in Markdown :
        /\ \A r \in Runs : task[r][f] # NoTask => policy[r] = backfilled
        /\ \E l \in loads :
              /\ l.file = f /\ l.policy = backfilled
              /\ \A m \in Sent : m.file = f /\ m.at > l.at => m.policy = backfilled

\* The record of f was registered from what Drive says of it now.
Registered(f) ==
    store[f] # NoDoc /\ store[f].path = drive[f].name /\ store[f].checksum = drive[f].content

\* An undisturbed run that has not failed registers what Drive says now.
Undisturbed ==
    \A r \in Runs : ~disturbed[r] /\ phase[r] # "off" => \A f \in Markdown :
        /\ f \in DOMAIN listing[r] => listing[r][f] = ListingOf(f)
        /\ ~failed[r] /\ f \notin DOMAIN listing[r] => Registered(f)

\* After a good run, and until Drive is edited, every load that is newer than its load
\* repeats what Drive says, and so will the next one.
Current ==
    current => \A f \in Markdown :
        /\ Registered(f)
        /\ \A r \in Runs :
              /\ f \in DOMAIN listing[r] => listing[r][f] = ListingOf(f)
              /\ Holds(r, f) => task[r][f].content = drive[f].content
        /\ \E l \in loads :
              /\ l.file = f
              /\ \A m \in Sent : m.file = f /\ m.at >= l.at =>
                    m.version = drive[f].content /\ m.name = drive[f].name

TypeInv == TypeOK /\ Tasks /\ Listed

IInv ==
    /\ TypeInv /\ Owned /\ Queued /\ Stamps /\ Settled /\ Forced /\ Backfill
    /\ Undisturbed
    /\ ~Revert => Growing /\ Current

=============================================================================
