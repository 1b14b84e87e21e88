----------------------------- MODULE VerifyGold -----------------------------
(***************************************************************************)
(* cmd/verify_gold: stages that refresh the marts, compare them with Silver *)
(* and, once or twice, export the reports and check the files in Drive.     *)
(* It runs beside an ETL that changes Silver. Worker runs, which export the *)
(* reports as well, come before or after a verification, as its             *)
(* documentation asks; if Overlap is TRUE, they may overlap each other.     *)
(*                                                                          *)
(* A stage does not go on after an error, so each error is one action that  *)
(* ends the verification; it may happen at any call (every call shares one  *)
(* deadline of 15 minutes). A refresh that was given up may go on in BigQuery *)
(* and replace the marts later.                                             *)
(***************************************************************************)
EXTENDS GoldDelivery

CONSTANTS Verifier,   \* the verification as an exporter
          NoReport,   \* no verification has been run
          Overlap     \* worker runs may overlap each other

ASSUME VerifyAssumption ==
    /\ Verifier \in Exporters /\ Overlap \in BOOLEAN
    /\ NoReport \notin {"failed", "partial", "success"}

VARIABLES
    vpc,        \* where the verification is
    options,    \* its flags
    stages,     \* report.Stages: the status of each stage
    verdict,    \* report.Status
    exit,       \* the exit code of the process
    round,      \* the CSV round
    table,      \* the table CheckDrive is looking at
    listed,     \* what ListFiles returned to CheckDrive
    want,       \* the mart as CheckDrive read it
    previous,   \* previous[t]: the file ID of t in round 1
    late,       \* the marts that a refresh which was given up is yet to replace
    calm,       \* it has replaced none since the verification began
    seen        \* the states Silver had during the verification, unless it failed

report == <<stages, verdict, exit>>
check == <<round, table, listed, want, previous>>
history == <<calm, seen>>
vars == <<delivery, vpc, options, report, check, late, history>>

Options == [mutate : BOOLEAN, allowEmpty : BOOLEAN, dataOnly : BOOLEAN]
Ordered == <<"configuration", "refresh", "comparison", "csv1", "csv2">>
Stages == {Ordered[i] : i \in 1..5} \cup {"dashboard"}
StageStatus == {"not_run", "not_requested", "unverified", "passed", "failed"}
CSVStage == IF round = 1 THEN "csv1" ELSE "csv2"

\* Where the verification is, and its report.
ReportTypeOK ==
    /\ vpc \in {"off", "configure", "refresh_daily", "refresh_latest", "compare",
                "export", "exporting", "list", "want", "got", "end"}
    /\ options \in Options
    /\ stages \in [Stages -> StageStatus]
    /\ verdict \in {NoReport, "failed", "partial", "success"}
    /\ exit \in 0..2
    /\ round \in {1, 2}

TypeOK ==
    /\ DeliveryTypeOK
    /\ ReportTypeOK
    /\ table \in Tables
    /\ listed \subseteq File
    /\ want \in Versions
    /\ previous \in [Tables -> Nat \cup {NoFile}]
    /\ late \subseteq Tables /\ calm \in BOOLEAN
    /\ seen \subseteq Versions

\* newReport
NewStages(o) ==
    [s \in Stages |->
        IF s \in {"refresh", "csv2"} /\ ~o.mutate THEN "not_requested"
        ELSE IF s = "dashboard"
             THEN IF o.dataOnly THEN "not_requested" ELSE "unverified"
        ELSE "not_run"]

Init ==
    /\ DeliveryInit
    /\ vpc = "off"
    /\ options \in Options
    /\ stages = NewStages(options) /\ verdict = NoReport /\ exit = 0
    /\ round = 1 /\ table = Daily /\ listed = {} /\ want = 0
    /\ previous = [t \in Tables |-> NoFile]
    /\ late = {} /\ calm = TRUE /\ seen = {}

-----------------------------------------------------------------------------
(* The environment *)

Running == vpc \notin {"off", "end"}

\* The ETL loads something, or the tables behind Silver expire.
SilverChanges ==
    /\ \E v \in Versions \ {silver} :
          /\ silver' = v
          /\ seen' = IF Running THEN seen \cup {v} ELSE seen
    /\ UNCHANGED <<mart, folder, exp, vpc, options, late, calm>>
    /\ UNCHANGED report /\ UNCHANGED check

\* A statement of a refresh that was given up takes effect, the first one first.
LateRefresh ==
    /\ \E t \in late :
          /\ t = Latest => Daily \notin late
          /\ ReplaceMart(t)
          /\ late' = late \ {t}
    /\ calm' = FALSE
    /\ UNCHANGED <<silver, folder, exp, vpc, options, seen>>
    /\ UNCHANGED report /\ UNCHANGED check

Nobody == ~Running /\ \A e \in Exporters : ~Exporting(e)

\* A worker run whose pool succeeded exports the reports.
WorkerExport(e) ==
    /\ e # Verifier
    /\ Nobody \/ (Overlap /\ ~Running)
    /\ StartExport(e)
    /\ UNCHANGED <<vpc, options, late, history>> /\ UNCHANGED report /\ UNCHANGED check

\* A step of goldreport.Export, of a worker or of the verification.
Export(e) ==
    /\ ExportStep(e)
    /\ UNCHANGED <<vpc, options, late, history>> /\ UNCHANGED report /\ UNCHANGED check

-----------------------------------------------------------------------------
(* The verification *)

Pass(s) == stages' = [stages EXCEPT ![s] = "passed"] /\ UNCHANGED <<verdict, exit>>

\* The process ends, and its local variables with it.
End ==
    /\ vpc' = "end"
    /\ round' = 1 /\ table' = Daily /\ listed' = {} /\ want' = 0
    /\ previous' = [t \in Tables |-> NoFile]

\* report.fail: the verification ends, with exit code 1.
Fail(s) ==
    /\ stages' = [stages EXCEPT ![s] = "failed"]
    /\ exit' = 1
    /\ End /\ seen' = {}
    /\ UNCHANGED <<verdict, options, calm>>

Start ==
    /\ Nobody
    /\ vpc' = "configure"
    /\ \E o \in Options : options' = o /\ stages' = NewStages(o)
    /\ verdict' = "failed" /\ exit' = 1
    /\ seen' = {silver} /\ calm' = TRUE
    /\ UNCHANGED <<delivery, late>> /\ UNCHANGED check

Configure ==
    /\ vpc = "configure"
    /\ Pass("configuration")
    /\ vpc' = IF options.mutate THEN "refresh_daily" ELSE "compare"
    /\ UNCHANGED <<delivery, options, late, history>> /\ UNCHANGED check

ConfigureError ==
    /\ vpc = "configure"
    /\ Fail("configuration")
    /\ UNCHANGED <<delivery, late>>

\* The two statements of the refresh, each atomic.
RefreshDaily ==
    /\ vpc = "refresh_daily"
    /\ ReplaceMart(Daily)
    /\ vpc' = "refresh_latest"
    /\ UNCHANGED <<silver, folder, exp, options, late, history>>
    /\ UNCHANGED report /\ UNCHANGED check

RefreshLatest ==
    /\ vpc = "refresh_latest"
    /\ ReplaceMart(Latest)
    /\ Pass("refresh")
    /\ vpc' = "compare"
    /\ UNCHANGED <<silver, folder, exp, options, late, history>> /\ UNCHANGED check

\* The script fails, before or after a statement took effect; or bq gives up a
\* query whose remaining statements are still to take effect. (Of two refreshes
\* that were given up, the statements they share are represented once.)
RefreshError ==
    /\ \/ /\ vpc = "refresh_daily"
          /\ UNCHANGED mart
          /\ late' \in {late, late \cup Tables}
       \/ /\ vpc = "refresh_latest"
          /\ UNCHANGED mart
          /\ late' \in {late, late \cup {Latest}}
       \/ vpc = "refresh_latest" /\ ReplaceMart(Latest) /\ UNCHANGED late
    /\ Fail("refresh")
    /\ UNCHANGED <<silver, folder, exp>>

\* Faulty: the differences of mart_file_latest are not looked at.
GoldMatchesFaulty ==
    /\ mart[Daily] = silver /\ mart[Latest] # NoMart
    /\ options.allowEmpty \/ silver # 0

\* One query counts the differences between Silver and both marts.
GoldMatches ==
    /\ \A t \in Tables : mart[t] = silver
    /\ options.allowEmpty \/ silver # 0

\* Faulty: every round exports, also if only a check was requested.
CompareFaulty ==
    /\ vpc = "compare"
    /\ GoldMatches
    /\ Pass("comparison")
    /\ vpc' = "export"
    /\ UNCHANGED <<delivery, options, late, history>> /\ UNCHANGED check

Compare ==
    /\ vpc = "compare"
    /\ GoldMatches
    /\ Pass("comparison")
    /\ vpc' = IF options.mutate THEN "export" ELSE "list"
    /\ UNCHANGED <<delivery, options, late, history>> /\ UNCHANGED check

\* Faulty: the failed stage is recorded and the next one is run.
CompareFailsFaulty ==
    /\ vpc = "compare"
    /\ stages' = [stages EXCEPT !["comparison"] = "failed"]
    /\ vpc' = "list"
    /\ UNCHANGED <<delivery, verdict, exit, options, late, history>> /\ UNCHANGED check

\* The query failed, or found a difference or an unexpected empty input.
CompareFails ==
    /\ vpc = "compare"
    /\ Fail("comparison")
    /\ UNCHANGED <<delivery, late>>

\* ops.export: goldreport.Export, as the exporter Verifier.
StartRound ==
    /\ vpc = "export"
    /\ StartExport(Verifier)
    /\ vpc' = "exporting"
    /\ UNCHANGED <<options, late, history>> /\ UNCHANGED report /\ UNCHANGED check

Exported ==
    /\ vpc = "exporting" /\ exp[Verifier].pc = "ok"
    /\ vpc' = "list"
    /\ UNCHANGED <<delivery, options, late, history>> /\ UNCHANGED report /\ UNCHANGED check

ListFiles ==
    /\ vpc = "list"
    /\ listed' = folder /\ table' = Daily
    /\ vpc' = "want"
    /\ UNCHANGED <<delivery, options, late, history, round, want, previous>> /\ UNCHANGED report

\* There is one file of the table's name; the mart is read to compare with it.
ReadWant ==
    /\ vpc = "want"
    /\ Cardinality(FilesOf(listed, table)) = 1
    /\ mart[table] # NoMart
    /\ want' = mart[table]
    /\ vpc' = "got"
    /\ UNCHANGED <<delivery, options, late, history, round, table, listed, previous>>
    /\ UNCHANGED report

\* The ID of the only listed file of t.
IdOf(t) == (CHOOSE f \in listed : f.table = t).id

\* Faulty: CheckCSV looks at the shape of the file only.
MatchesFaulty ==
    /\ \E f \in folder : f.id = IdOf(table)
    /\ want # 0 \/ options.allowEmpty
    /\ round = 2 => previous[table] = IdOf(table)

\* CheckCSV and the comparison of the file ID with the one of round 1.
Matches ==
    /\ \E f \in folder : f.id = IdOf(table) /\ f.content = want
    /\ want # 0 \/ options.allowEmpty
    /\ round = 2 => previous[table] = IdOf(table)

CheckDaily ==
    /\ vpc = "got" /\ table = Daily
    /\ Matches
    /\ table' = Latest /\ vpc' = "want"
    /\ UNCHANGED <<delivery, options, late, history, round, listed, want, previous>>
    /\ UNCHANGED report

\* Faulty: one round too many.
NextRoundFaulty ==
    /\ vpc = "got" /\ table = Latest
    /\ options.mutate
    /\ Matches
    /\ Pass(CSVStage)
    /\ round' = round + 1 /\ vpc' = "export"
    /\ previous' = [t \in Tables |-> IdOf(t)]
    /\ UNCHANGED <<delivery, options, late, history, table, listed, want>>

\* Round 1 of 2 is over; its file IDs have to come back in round 2.
NextRound ==
    /\ vpc = "got" /\ table = Latest
    /\ options.mutate /\ round = 1
    /\ Matches
    /\ Pass(CSVStage)
    /\ round' = 2 /\ vpc' = "export"
    /\ previous' = [t \in Tables |-> IdOf(t)]
    /\ UNCHANGED <<delivery, options, late, history, table, listed, want>>

\* The last round is over. The exit code is 1 if the summary cannot be saved.
Finish ==
    /\ vpc = "got" /\ table = Latest
    /\ options.mutate => round = 2
    /\ Matches
    /\ stages' = [stages EXCEPT ![CSVStage] = "passed"]
    /\ verdict' = IF options.dataOnly THEN "success" ELSE "partial"
    /\ exit' \in {1, IF options.dataOnly THEN 0 ELSE 2}
    /\ End
    /\ UNCHANGED <<delivery, options, late, history>>

\* Faulty: the error of the export is not returned.
RoundFailsFaulty ==
    /\ vpc \in {"export", "list", "want", "got"}
    /\ Fail(CSVStage)
    /\ UNCHANGED <<delivery, late>>

\* The export failed; or the listing, a read or a download did; or there is not
\* exactly one file, its content differs, is empty, or its ID changed.
RoundFails ==
    /\ \/ vpc \in {"export", "list", "want", "got"}
       \/ vpc = "exporting" /\ exp[Verifier].pc = "failed"
    /\ Fail(CSVStage)
    /\ UNCHANGED <<delivery, late>>

\* The steps of a verification that was started.
Verify ==
    \/ Configure \/ ConfigureError
    \/ RefreshDaily \/ RefreshLatest \/ RefreshError
    \/ Compare \/ CompareFails
    \/ StartRound \/ Exported \/ ListFiles \/ ReadWant
    \/ CheckDaily \/ NextRound \/ Finish \/ RoundFails

Next ==
    \/ SilverChanges \/ LateRefresh
    \/ \E e \in Exporters : WorkerExport(e) \/ Export(e)
    \/ Start \/ Verify

\* Every call of a verification returns: the clients' at the deadline, and the
\* script when bq does. Nothing in the repository starts verifications or worker
\* runs, and a refresh that was given up may never take effect.
Spec == Init /\ [][Next]_vars /\ WF_vars(Verify) /\ WF_vars(Export(Verifier))

-----------------------------------------------------------------------------
(* Properties *)

\* The report tells how far the verification came: a stage has a result only if
\* all earlier ones passed (or were not requested), a verdict other than failed
\* needs all of them, and exit code 0 a success without any failed stage.
ReportTruthful ==
    LET settled == {"passed", "not_requested"} IN
    /\ \A j \in 1..5 : stages[Ordered[j]] \in {"passed", "failed"} =>
          \A i \in 1..(j - 1) : stages[Ordered[i]] \in settled
    /\ verdict \in {"partial", "success"} =>
          \A i \in 1..5 : stages[Ordered[i]] \in settled
    /\ vpc = "end" => (verdict = "failed" <=> \E s \in Stages : stages[s] = "failed")
    /\ vpc = "end" /\ exit = 0 => verdict = "success"

\* The inductive invariant behind ReportTruthful: while a verification runs, the
\* stages before the current one are settled and the others are untouched, and it
\* refreshes and exports only if that was requested; a new one starts with round 1.
Current ==
    IF vpc = "configure" THEN 1
    ELSE IF vpc \in {"refresh_daily", "refresh_latest"} THEN 2
    ELSE IF vpc = "compare" THEN 3
    ELSE IF round = 1 THEN 4 ELSE 5

Progress ==
    IF ~Running THEN round = 1 ELSE
        /\ verdict = "failed"
        /\ stages["dashboard"] # "failed"
        /\ \A i \in 1..5 :
              IF i < Current THEN stages[Ordered[i]] \in {"passed", "not_requested"}
              ELSE stages[Ordered[i]] \in {"not_run", "not_requested"}
        /\ ~options.mutate => /\ stages["refresh"] = "not_requested"
                              /\ stages["csv2"] = "not_requested"
                              /\ round = 1
        /\ vpc \in {"refresh_daily", "refresh_latest", "export", "exporting"}
              => options.mutate
        /\ vpc \in {"configure", "refresh_daily", "refresh_latest", "compare"}
              => round = 1

ReportInv == ReportTypeOK /\ ReportTruthful /\ Progress

\* A verification that did not fail vouches for the delivery: one file per table,
\* both with one and the same state of Silver, which is in the marts, which
\* Silver had during the verification, and which is empty only if that was
\* allowed. The ETL may change Silver meanwhile; a refresh that an earlier
\* verification gave up may be running, as long as it replaces nothing.
VerifiedDelivered ==
    vpc = "end" /\ verdict # "failed" /\ calm =>
        \E v \in seen :
            /\ v = 0 => options.allowEmpty
            /\ \A t \in Tables :
                /\ mart[t] = v
                /\ {f.content : f \in FilesOf(folder, t)} = {v}
                /\ Cardinality(FilesOf(folder, t)) = 1

\* Even if such a refresh replaces the marts between the export and the check, or
\* between the checks of the two tables, a verification that ends well leaves one
\* file per table, each with a state that Silver had during the verification (not
\* the same one, then), and empty only if that was allowed.
DeliveryFresh ==
    [][vpc' = "end" /\ vpc # "end" /\ verdict' # "failed" =>
        \A t \in Tables :
            /\ Cardinality(FilesOf(folder, t)) = 1
            /\ \A f \in FilesOf(folder, t) :
                  f.content \in seen /\ (f.content = 0 => options.allowEmpty)]_vars

\* docs/gold-verification.md: without --refresh-and-export a verification only reads.
\* While it runs, no report in Drive is created or replaced, no refresh is left behind,
\* and the marts change only by one that an earlier verification gave up; whichever
\* stages it goes through, and although it shares them with the writing mode.
ReadOnlyUnlessRequested ==
    [][Running /\ ~options.mutate =>
        /\ UNCHANGED folder
        /\ late' \subseteq late
        /\ late' = late => UNCHANGED mart]_vars

\* Every verification that is started ends, whatever fails.
VerificationEnds == Running ~> vpc = "end"

-----------------------------------------------------------------------------
(* The inductive invariant behind the delivery *)

\* The files in the folder have different IDs, which are counted from 1.
Ids ==
    /\ IsFiniteSet(folder)
    /\ \A f, g \in folder : f.id = g.id => f = g
    /\ \A f \in folder : f.id <= Cardinality(folder)

\* An exporter updates a file of the table it delivers. Unless worker runs overlap, it is
\* alone, and creates a file only for a table that has none.
Targets ==
    /\ \A e \in Exporters : exp[e].pc = "write" /\ exp[e].target # NoFile =>
          \E f \in folder : f.id = exp[e].target /\ f.table = exp[e].table
    /\ ~Overlap =>
          /\ OneReportPerTable
          /\ \A e, d \in Exporters : Exporting(e) /\ Exporting(d) => e = d
          /\ \A e \in Exporters : exp[e].pc = "write" /\ exp[e].target = NoFile =>
                FilesOf(folder, exp[e].table) = {}

\* While a verification runs, nobody else exports, and it knows the states of Silver.
Exclusive ==
    Running =>
        /\ \A e \in Exporters : Exporting(e) => e = Verifier /\ vpc = "exporting"
        /\ silver \in seen

\* Since the comparison passed, the marts show states that Silver had meanwhile, and
\* one and the same unless a late refresh got between.
Compared ==
    vpc \in {"export", "exporting", "list", "want", "got"} =>
        /\ \A t \in Tables : mart[t] \in seen
        /\ calm => mart[Daily] = mart[Latest] /\ (mart[Daily] = 0 => options.allowEmpty)

\* The report of t is one file, with a state that Silver had meanwhile.
Sound(t) ==
    /\ Cardinality(FilesOf(folder, t)) = 1
    /\ \A f \in FilesOf(folder, t) :
          /\ f.content \in seen /\ (f.content = 0 => options.allowEmpty)
          /\ calm => f.content = mart[t]

\* CheckDrive still sees the folder as it listed it; the table before was sound.
Checking ==
    vpc \in {"want", "got"} =>
        /\ listed = folder
        /\ table = Latest => Sound(Daily)
        /\ vpc = "got" => /\ Cardinality(FilesOf(folder, table)) = 1
                          /\ want \in seen /\ (calm => want = mart[table])

\* After a verification that did not fail, exports repeat what was verified.
Repeated ==
    vpc = "end" /\ verdict # "failed" /\ calm =>
        \A e \in Exporters :
            /\ exp[e].pc \in {"lookup", "write"} => exp[e].content = mart[exp[e].table]
            /\ exp[e].pc = "write" => exp[e].target # NoFile

IInv ==
    /\ TypeOK /\ ReportInv
    /\ Ids /\ Targets /\ Exclusive /\ Compared /\ Checking /\ VerifiedDelivered /\ Repeated

=============================================================================
