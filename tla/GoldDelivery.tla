---------------------------- MODULE GoldDelivery ----------------------------
(***************************************************************************)
(* The Gold marts and their delivery as CSV files (goldreport.Export). The  *)
(* two marts are tables that a refresh replaces one after the other with    *)
(* aggregates of Silver. An exporter, a worker run or a verification, reads *)
(* each mart and puts it into the Drive file of the same name: it looks the *)
(* name up, then updates the file it found or creates one.                  *)
(*                                                                          *)
(* A state of Silver is a number, 0 when it is empty. The marts and files   *)
(* computed from it are represented by the same number: different states of *)
(* Silver are taken to have different aggregates.                           *)
(***************************************************************************)
EXTENDS Naturals, FiniteSets

CONSTANTS Exporters,   \* those who call goldreport.Export
          Versions,    \* the states of Silver
          NoMart,      \* the mart has not been created yet
          NoFile       \* the name is not in the folder

ASSUME DeliveryAssumption ==
    /\ Versions \subseteq Nat /\ 0 \in Versions
    /\ NoMart \notin Nat /\ NoFile \notin Nat

VARIABLES
    silver,   \* the state of Silver
    mart,     \* mart[t]: the state of Silver that mart t shows
    folder,   \* the CSV files in the export folder
    exp       \* exp[e]: where exporter e is

delivery == <<silver, mart, folder, exp>>

Daily == "mart_ingestion_daily"
Latest == "mart_file_latest"
Tables == {Daily, Latest}    \* delivered in this order

File == [id : Nat \ {0}, table : Tables, content : Versions]

\* About to read the mart of table, to look up its file, or to write content to
\* target; or Export returned nil ("ok") or an error.
Exporter == [pc : {"off", "read", "lookup", "write", "ok", "failed"},
             table : Tables, content : Versions, target : Nat \cup {NoFile}]

At(pc, table) == [pc |-> pc, table |-> table, content |-> 0, target |-> NoFile]

FilesOf(files, t) == {f \in files : f.table = t}

DeliveryTypeOK ==
    /\ silver \in Versions
    /\ mart \in [Tables -> Versions \cup {NoMart}]
    /\ folder \subseteq File
    /\ exp \in [Exporters -> Exporter]

\* Nothing was refreshed or delivered yet.
DeliveryInit ==
    /\ silver \in Versions
    /\ mart = [t \in Tables |-> NoMart]
    /\ folder = {}
    /\ exp = [e \in Exporters |-> At("off", Daily)]

\* One CREATE OR REPLACE TABLE of the refresh.
ReplaceMart(t) == mart' = [mart EXCEPT ![t] = silver]

Exporting(e) == exp[e].pc \in {"read", "lookup", "write"}

StartExport(e) ==
    /\ ~Exporting(e)
    /\ exp' = [exp EXCEPT ![e] = At("read", Daily)]
    /\ UNCHANGED <<silver, mart, folder>>

\* ExportTableCSV: one query, a snapshot of the table.
ReadMart(e) ==
    /\ exp[e].pc = "read"
    /\ mart[exp[e].table] # NoMart
    /\ exp' = [exp EXCEPT ![e].pc = "lookup", ![e].content = mart[exp[e].table]]
    /\ UNCHANGED <<silver, mart, folder>>

\* Faulty: the query of the lookup never matches the name.
LookupFaulty(e) ==
    /\ exp[e].pc = "lookup"
    /\ exp' = [exp EXCEPT ![e].pc = "write", ![e].target = NoFile]
    /\ UNCHANGED <<silver, mart, folder>>

\* UpsertFile: Files.List by name; of several files the first one is taken.
Lookup(e) ==
    /\ exp[e].pc = "lookup"
    /\ LET found == {f.id : f \in FilesOf(folder, exp[e].table)} IN
       \E id \in IF found = {} THEN {NoFile} ELSE found :
          exp' = [exp EXCEPT ![e].pc = "write", ![e].target = id]
    /\ UNCHANGED <<silver, mart, folder>>

\* Files.Update of the file that was found, or Files.Create.
Written(e) ==
    LET x == exp[e] IN
    folder' = IF x.target = NoFile
              THEN folder \cup {[id |-> Cardinality(folder) + 1,
                                 table |-> x.table, content |-> x.content]}
              ELSE {IF f.id = x.target THEN [f EXCEPT !.content = x.content] ELSE f :
                      f \in folder}

\* UpsertFile returned nil; the next table, or the end.
Write(e) ==
    /\ exp[e].pc = "write"
    /\ Written(e)
    /\ exp' = [exp EXCEPT ![e] = IF exp[e].table = Daily THEN At("read", Latest)
                                 ELSE At("ok", Daily)]
    /\ UNCHANGED <<silver, mart>>

\* A call failed, a write possibly after it took effect; the tables that follow
\* are not delivered, and what was delivered stays.
ExportError(e) ==
    /\ Exporting(e)
    /\ UNCHANGED folder \/ (exp[e].pc = "write" /\ Written(e))
    /\ exp' = [exp EXCEPT ![e] = At("failed", Daily)]
    /\ UNCHANGED <<silver, mart>>

ExportStep(e) == ReadMart(e) \/ Lookup(e) \/ Write(e) \/ ExportError(e)

\* Every report is one file, which later exports update in place: links to it
\* and the dashboards behind it do not meet a second report of the same name.
OneReportPerTable == \A t \in Tables : Cardinality(FilesOf(folder, t)) <= 1

=============================================================================
