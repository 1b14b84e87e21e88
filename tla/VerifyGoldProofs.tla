-------------------------- MODULE VerifyGoldProofs --------------------------
(***************************************************************************)
(* The report of cmd/verify_gold tells the truth about its stages and about *)
(* what is delivered, for any number of exporters and states of Silver,     *)
(* overlapping or not. ReportTruthful alone is not inductive: that a stage  *)
(* which passes now has no failed stage before it is what Progress says of  *)
(* a running verification. Nor is VerifiedDelivered: what the check has     *)
(* seen stays true until the verdict because nobody else exports meanwhile  *)
(* (Exclusive), and after it because later exports repeat it (Repeated).    *)
(***************************************************************************)
EXTENDS VerifyGold, FiniteSetTheorems, TLAPS

\* Without a report there is nothing to be untruthful about.
LEMMA InitReportInv == Init => ReportInv
BY VerifyAssumption
DEF Init, ReportInv, ReportTypeOK, ReportTruthful, Progress, Running, NewStages,
    Stages, Ordered, StageStatus, Options

\* newReport: no stage has a result, and what the flags exclude is not requested.
LEMMA NewReport ==
    ASSUME NEW o \in Options
    PROVE  /\ NewStages(o) \in [Stages -> StageStatus]
           /\ NewStages(o)["dashboard"] # "failed"
           /\ \A i \in 1..5 : NewStages(o)[Ordered[i]] \in {"not_run", "not_requested"}
           /\ ~o.mutate => /\ NewStages(o)["refresh"] = "not_requested"
                           /\ NewStages(o)["csv2"] = "not_requested"
BY DEF NewStages, Stages, Ordered, StageStatus

\* Every step of the verification, of an exporter or of the ETL keeps the report
\* truthful.
LEMMA StepReportInv == ReportInv /\ [Next]_vars => ReportInv'
<1> SUFFICES ASSUME ReportInv, [Next]_vars PROVE ReportInv'
  OBVIOUS
<1> USE DEF ReportInv
<1>1. CASE SilverChanges \/ LateRefresh
  BY <1>1 DEF SilverChanges, LateRefresh, report, check, ReportTypeOK, ReportTruthful,
              Progress, Running, Current
<1>2. CASE \E e \in Exporters : WorkerExport(e) \/ Export(e)
  BY <1>2 DEF WorkerExport, Export, report, check, ReportTypeOK, ReportTruthful,
              Progress, Running, Current
<1>3. CASE Start
  <2>1. PICK o \in Options : options' = o /\ stages' = NewStages(o)
    BY <1>3 DEF Start
  <2>2. vpc' = "configure" /\ verdict' = "failed" /\ exit' = 1 /\ round' = round
    BY <1>3 DEF Start, check
  <2>3. round = 1
    BY <1>3 DEF Start, Nobody, Progress
  <2> QED
    BY <2>1, <2>2, <2>3, NewReport
    DEF ReportTypeOK, ReportTruthful, Progress, Running, Current
<1>4. CASE Configure
  BY <1>4 DEF Configure, Pass, check, Stages, Ordered, StageStatus, Options,
              ReportTypeOK, ReportTruthful, Progress, Running, Current
<1>5. CASE ConfigureError
  BY <1>5 DEF ConfigureError, Fail, End, Stages, Ordered, StageStatus, Options,
              ReportTypeOK, ReportTruthful, Progress, Running, Current
<1>6. CASE RefreshDaily
  BY <1>6 DEF RefreshDaily, report, check, ReportTypeOK, ReportTruthful, Progress,
              Running, Current
<1>7. CASE RefreshLatest
  BY <1>7 DEF RefreshLatest, Pass, check, Stages, Ordered, StageStatus, Options,
              ReportTypeOK, ReportTruthful, Progress, Running, Current
<1>8. CASE RefreshError
  BY <1>8 DEF RefreshError, Fail, End, Stages, Ordered, StageStatus, Options,
              ReportTypeOK, ReportTruthful, Progress, Running, Current
<1>9. CASE Compare
  BY <1>9 DEF Compare, Pass, check, Stages, Ordered, StageStatus, Options,
              ReportTypeOK, ReportTruthful, Progress, Running, Current
<1>10. CASE CompareFails
  BY <1>10 DEF CompareFails, Fail, End, Stages, Ordered, StageStatus, Options,
               ReportTypeOK, ReportTruthful, Progress, Running, Current
<1>11. CASE StartRound \/ Exported \/ ListFiles \/ ReadWant \/ CheckDaily
  BY <1>11 DEF StartRound, Exported, ListFiles, ReadWant, CheckDaily, report, check,
               ReportTypeOK, ReportTruthful, Progress, Running, Current
<1>12. CASE NextRound
  BY <1>12 DEF NextRound, Pass, CSVStage, Stages, Ordered, StageStatus, Options,
               ReportTypeOK, ReportTruthful, Progress, Running, Current
<1>13. CASE Finish
  BY <1>13 DEF Finish, End, CSVStage, Stages, Ordered, StageStatus, Options,
               ReportTypeOK, ReportTruthful, Progress, Running, Current
<1>14. CASE RoundFails
  BY <1>14 DEF RoundFails, Fail, End, CSVStage, Stages, Ordered, StageStatus,
               Options, ReportTypeOK, ReportTruthful, Progress, Running, Current
<1>15. CASE UNCHANGED vars
  BY <1>15 DEF vars, report, check, ReportTypeOK, ReportTruthful, Progress, Running,
               Current
<1> QED
  BY <1>1, <1>2, <1>3, <1>4, <1>5, <1>6, <1>7, <1>8, <1>9, <1>10, <1>11, <1>12,
     <1>13, <1>14, <1>15
  DEF Next, Verify

\* The stages before the current one are settled and the others untouched, in every
\* verification.
LEMMA ReportInductive == Spec => []ReportInv
BY InitReportInv, StepReportInv, PTL DEF Spec

\* The report of a verification names the stage that failed and no later result,
\* and neither verdict nor exit code claims more than the stages do.
THEOREM TruthfulReport == Spec => []ReportTruthful
<1>1. ReportInv => ReportTruthful
  BY DEF ReportInv
<1> QED BY ReportInductive, <1>1, PTL

-----------------------------------------------------------------------------
(* The folder *)

\* Exactly one file means one file that can be named.
LEMMA CardinalityOne ==
    ASSUME NEW S, IsFiniteSet(S)
    PROVE  Cardinality(S) = 1 <=> \E x : S = {x}
BY FS_Singleton

\* G is F with the content c in the file old, or with a new file of table t.
IsUpdate(F, old, c, G) ==
    G = {IF f.id = old.id THEN [f EXCEPT !.content = c] ELSE f : f \in F}

IsCreation(F, t, c, G) ==
    G = F \cup {[id |-> Cardinality(F) + 1, table |-> t, content |-> c]}

\* Files.Update of one file leaves the number of files and their names alone.
LEMMA Updated ==
    ASSUME NEW F \in SUBSET File, IsFiniteSet(F),
           \A f, g \in F : f.id = g.id => f = g,
           NEW old \in F, NEW c \in Versions,
           NEW G, IsUpdate(F, old, c, G)
    PROVE  /\ G \subseteq File /\ IsFiniteSet(G) /\ Cardinality(G) = Cardinality(F)
           /\ \A f, g \in G : f.id = g.id => f = g
           /\ \A g \in G : \E f \in F : f.id = g.id /\ f.table = g.table
           /\ \A f \in F : \E g \in G : f.id = g.id /\ f.table = g.table
           /\ \A g \in G : g \in F \/ (g.table = old.table /\ g.content = c)
           /\ \A t \in Tables : /\ IsFiniteSet(FilesOf(G, t))
                                /\ Cardinality(FilesOf(G, t)) = Cardinality(FilesOf(F, t))
<1> DEFINE new == [old EXCEPT !.content = c]
<1>1. /\ old \in File /\ new \in File
      /\ new.id = old.id /\ new.table = old.table /\ new.content = c
  BY DEF File
<1>2. G = (F \ {old}) \cup {new}
  <2>1. ASSUME NEW f \in F
        PROVE  (IF f.id = old.id THEN [f EXCEPT !.content = c] ELSE f)
               = IF f = old THEN new ELSE f
    OBVIOUS
  <2> HIDE DEF new
  <2>2. G = {IF f = old THEN new ELSE f : f \in F}
    BY <2>1 DEF IsUpdate
  <2> QED BY <2>2
<1>3. new \notin F \ {old}
  BY <1>1
<1> HIDE DEF new
<1>4. ASSUME NEW S \in SUBSET F, old \in S
      PROVE  /\ IsFiniteSet((S \ {old}) \cup {new})
             /\ Cardinality((S \ {old}) \cup {new}) = Cardinality(S)
  <2>1. IsFiniteSet(S)
    BY FS_Subset
  <2>2. IsFiniteSet(S \ {old}) /\ Cardinality(S \ {old}) = Cardinality(S) - 1
    BY <2>1, <1>4, FS_RemoveElement
  <2>3. new \notin S \ {old}
    BY <1>3
  <2>4. /\ IsFiniteSet((S \ {old}) \cup {new})
        /\ Cardinality((S \ {old}) \cup {new}) = Cardinality(S \ {old}) + 1
    BY <2>2, <2>3, FS_AddElement
  <2>5. Cardinality(S) \in Nat
    BY <2>1, FS_CardinalityType
  <2> QED BY <2>2, <2>4, <2>5
<1>5. IsFiniteSet(G) /\ Cardinality(G) = Cardinality(F)
  BY <1>2, <1>4
<1>6. ASSUME NEW t \in Tables
      PROVE  /\ IsFiniteSet(FilesOf(G, t))
             /\ Cardinality(FilesOf(G, t)) = Cardinality(FilesOf(F, t))
  <2>1. CASE old.table = t
    <3>1. FilesOf(G, t) = (FilesOf(F, t) \ {old}) \cup {new}
      BY <1>1, <1>2, <2>1 DEF FilesOf
    <3>2. FilesOf(F, t) \in SUBSET F /\ old \in FilesOf(F, t)
      BY <2>1 DEF FilesOf
    <3> QED BY <3>1, <3>2, <1>4
  <2>2. CASE old.table # t
    <3>1. FilesOf(G, t) = FilesOf(F, t) /\ FilesOf(F, t) \subseteq F
      BY <1>1, <1>2, <2>2 DEF FilesOf
    <3> QED BY <3>1, FS_Subset
  <2> QED BY <2>1, <2>2
<1>7. G \subseteq File
  BY <1>1, <1>2
<1>8. \A f, g \in G : f.id = g.id => f = g
  BY <1>1, <1>2
<1>9. /\ \A g \in G : \E f \in F : f.id = g.id /\ f.table = g.table
      /\ \A f \in F : \E g \in G : f.id = g.id /\ f.table = g.table
      /\ \A g \in G : g \in F \/ (g.table = old.table /\ g.content = c)
  BY <1>1, <1>2
<1> QED BY <1>5, <1>6, <1>7, <1>8, <1>9

\* Files.Create adds one file, with an ID that none has.
LEMMA Created ==
    ASSUME NEW F \in SUBSET File, IsFiniteSet(F),
           \A f, g \in F : f.id = g.id => f = g,
           \A f \in F : f.id <= Cardinality(F),
           NEW tb \in Tables, NEW c \in Versions,
           NEW G, IsCreation(F, tb, c, G)
    PROVE  /\ G \subseteq File /\ IsFiniteSet(G) /\ Cardinality(G) = Cardinality(F) + 1
           /\ \A f, g \in G : f.id = g.id => f = g
           /\ \A f \in G : f.id <= Cardinality(G)
           /\ \A f \in F : \E g \in G : f.id = g.id /\ f.table = g.table
           /\ \A g \in G : g \in F \/ (g.table = tb /\ g.content = c)
           /\ \A t \in Tables : FilesOf(G, t) = FilesOf(F, t)
                                \/ (t = tb /\ (FilesOf(F, t) = {} =>
                                               Cardinality(FilesOf(G, t)) = 1))
<1> DEFINE new == [id |-> Cardinality(F) + 1, table |-> tb, content |-> c]
<1>1. Cardinality(F) \in Nat
  BY FS_CardinalityType
<1>2. /\ new \in File
      /\ new.id = Cardinality(F) + 1 /\ new.table = tb /\ new.content = c
  BY <1>1 DEF File
<1>3. G = F \cup {new}
  BY DEF IsCreation
<1> HIDE DEF new
<1>4. new \notin F
  BY <1>1, <1>2
<1>5. IsFiniteSet(G) /\ Cardinality(G) = Cardinality(F) + 1
  <2>1. /\ IsFiniteSet(F \cup {new})
        /\ Cardinality(F \cup {new}) = Cardinality(F) + 1
    BY <1>4, FS_AddElement
  <2> QED BY <1>3, <2>1
<1>6. \A f \in F : f.id \in Nat
  BY DEF File
<1>7. /\ \A f, g \in G : f.id = g.id => f = g
      /\ \A f \in G : f.id <= Cardinality(G)
  BY <1>1, <1>2, <1>3, <1>5, <1>6
<1>8. ASSUME NEW t \in Tables
      PROVE  FilesOf(G, t) = FilesOf(F, t)
             \/ (t = tb /\ (FilesOf(F, t) = {} => Cardinality(FilesOf(G, t)) = 1))
  <2>1. CASE t = tb
    <3>1. FilesOf(G, t) = FilesOf(F, t) \cup {new}
      BY <1>2, <1>3, <2>1 DEF FilesOf
    <3>2. FilesOf(F, t) = {} => FilesOf(G, t) = {new}
      BY <3>1
    <3> QED BY <3>2, <2>1, FS_Singleton
  <2>2. CASE t # tb
    BY <1>2, <1>3, <2>2 DEF FilesOf
  <2> QED BY <2>1, <2>2
<1> QED BY <1>2, <1>3, <1>5, <1>7, <1>8

\* UpsertFile: a file of the table that is delivered gets the content; the others stay,
\* and a second one of a table appears only where none was found.
LEMMA WriteEffect ==
    ASSUME TypeOK, Ids, Targets, NEW e \in Exporters, exp[e].pc = "write", Written(e)
    PROVE  /\ folder' \subseteq File /\ Ids'
           /\ \A f \in folder : \E g \in folder' : f.id = g.id /\ f.table = g.table
           /\ \A g \in folder' : g \in folder \/ (g.table = exp[e].table
                                                  /\ g.content = exp[e].content)
           /\ exp[e].target # NoFile =>
                 \A t \in Tables : Cardinality(FilesOf(folder', t))
                                   = Cardinality(FilesOf(folder, t))
           /\ exp[e].target = NoFile =>
                 \A t \in Tables : FilesOf(folder', t) = FilesOf(folder, t)
                                   \/ (t = exp[e].table /\
                                       (FilesOf(folder, t) = {} =>
                                        Cardinality(FilesOf(folder', t)) = 1))
<1>1. /\ folder \in SUBSET File /\ IsFiniteSet(folder)
      /\ \A f, g \in folder : f.id = g.id => f = g
      /\ \A f \in folder : f.id <= Cardinality(folder)
  BY DEF TypeOK, DeliveryTypeOK, Ids
<1>2. exp[e].table \in Tables /\ exp[e].content \in Versions
  BY DEF TypeOK, DeliveryTypeOK, Exporter
<1>3. CASE exp[e].target = NoFile
  <2>1. IsCreation(folder, exp[e].table, exp[e].content, folder')
    BY <1>3 DEF Written, IsCreation
  <2>2. /\ folder' \subseteq File /\ IsFiniteSet(folder')
        /\ \A f, g \in folder' : f.id = g.id => f = g
        /\ \A f \in folder' : f.id <= Cardinality(folder')
        /\ \A f \in folder : \E g \in folder' : f.id = g.id /\ f.table = g.table
        /\ \A g \in folder' : g \in folder \/ (g.table = exp[e].table
                                               /\ g.content = exp[e].content)
        /\ \A t \in Tables : FilesOf(folder', t) = FilesOf(folder, t)
                             \/ (t = exp[e].table /\
                                 (FilesOf(folder, t) = {} =>
                                  Cardinality(FilesOf(folder', t)) = 1))
    BY <1>1, <1>2, <2>1, Created
  <2> QED BY <1>3, <2>2 DEF Ids
<1>4. CASE exp[e].target # NoFile
  <2>1. PICK old \in folder : old.id = exp[e].target /\ old.table = exp[e].table
    BY <1>4 DEF Targets
  <2>2. IsUpdate(folder, old, exp[e].content, folder')
    BY <1>4, <2>1 DEF Written, IsUpdate
  <2>3. /\ folder' \subseteq File /\ IsFiniteSet(folder')
        /\ Cardinality(folder') = Cardinality(folder)
        /\ \A f, g \in folder' : f.id = g.id => f = g
        /\ \A g \in folder' : \E f \in folder : f.id = g.id /\ f.table = g.table
        /\ \A f \in folder : \E g \in folder' : f.id = g.id /\ f.table = g.table
        /\ \A g \in folder' : g \in folder \/ (g.table = old.table
                                               /\ g.content = exp[e].content)
        /\ \A t \in Tables : Cardinality(FilesOf(folder', t))
                             = Cardinality(FilesOf(folder, t))
    BY <1>1, <1>2, <2>1, <2>2, Updated
  <2>4. Ids'
    BY <1>1, <2>3 DEF Ids
  <2> QED BY <1>4, <2>1, <2>3, <2>4
<1> QED BY <1>3, <1>4

\* The files of a table are finitely many.
LEMMA FilesFinite == ASSUME Ids, NEW t PROVE IsFiniteSet(FilesOf(folder, t))
<1> FilesOf(folder, t) \in SUBSET folder
  BY DEF FilesOf
<1> QED BY FS_Subset DEF Ids

\* IdOf gives the ID of the only file of a table.
LEMMA OnlyFile ==
    ASSUME TypeOK, Ids, listed = folder, NEW t \in Tables,
           Cardinality(FilesOf(folder, t)) = 1
    PROVE  \E f \in File : /\ f \in folder /\ f.table = t
                           /\ FilesOf(folder, t) = {f} /\ IdOf(t) = f.id
<1>1. PICK f : FilesOf(folder, t) = {f}
  BY FilesFinite, CardinalityOne
<1>2. f \in folder /\ f.table = t
  BY <1>1 DEF FilesOf
<1>3. \A g \in listed : g.table = t => g = f
  BY <1>1 DEF FilesOf
<1>4. IdOf(t) = f.id
  BY <1>2, <1>3 DEF IdOf
<1>5. f \in File
  BY <1>2 DEF TypeOK, DeliveryTypeOK
<1> QED BY <1>1, <1>2, <1>4, <1>5

-----------------------------------------------------------------------------
(* An exporter's step *)

\* The step keeps the types of the folder and of the exporters.
LEMMA ExportTypes ==
    ASSUME TypeOK, Ids, Targets, NEW e \in Exporters, ExportStep(e)
    PROVE  DeliveryTypeOK' /\ Ids'
<1> DeliveryTypeOK
  BY DEF TypeOK
<1>0. /\ exp \in [Exporters -> Exporter] /\ exp[e] \in Exporter
      /\ mart \in [Tables -> Versions \cup {NoMart}]
  BY DEF DeliveryTypeOK
<1>1. CASE ReadMart(e)
  <2>1. mart[exp[e].table] \in Versions
    BY <1>0, <1>1 DEF ReadMart, Exporter
  <2>2. exp' \in [Exporters -> Exporter]
    BY <1>0, <1>1, <2>1 DEF ReadMart, Exporter
  <2> QED BY <1>1, <2>2 DEF ReadMart, DeliveryTypeOK, Ids
<1>2. CASE Lookup(e)
  <2> DEFINE found == {f.id : f \in FilesOf(folder, exp[e].table)}
  <2>1. found \subseteq Nat
    BY DEF FilesOf, DeliveryTypeOK, File
  <2>2. PICK id \in IF found = {} THEN {NoFile} ELSE found :
           exp' = [exp EXCEPT ![e].pc = "write", ![e].target = id]
    BY <1>2 DEF Lookup
  <2>3. id \in Nat \cup {NoFile}
    BY <2>1, <2>2
  <2> HIDE DEF found
  <2>4. exp' \in [Exporters -> Exporter]
    BY <1>0, <2>2, <2>3 DEF Exporter
  <2> QED BY <1>2, <2>4 DEF Lookup, DeliveryTypeOK, Ids
<1>3. CASE Write(e)
  <2>1. folder' \subseteq File /\ Ids'
    BY <1>3, WriteEffect DEF Write
  <2>2. exp' \in [Exporters -> Exporter]
    BY <1>0, <1>3, DeliveryAssumption DEF Write, At, Exporter, Tables
  <2> QED BY <1>3, <2>1, <2>2 DEF Write, DeliveryTypeOK
<1>4. CASE ExportError(e)
  <2>1. folder' \subseteq File /\ Ids'
    BY <1>4, WriteEffect DEF ExportError, DeliveryTypeOK, Ids
  <2>2. exp' \in [Exporters -> Exporter]
    BY <1>0, <1>4, DeliveryAssumption DEF ExportError, At, Exporter, Tables
  <2> QED BY <1>4, <2>1, <2>2 DEF ExportError, DeliveryTypeOK
<1> QED BY <1>1, <1>2, <1>3, <1>4 DEF ExportStep

\* What an exporter is to update stays in the folder, and unless worker runs overlap,
\* what it is to create is still missing: nobody else writes.
LEMMA ExportTargets ==
    ASSUME TypeOK, Ids, Targets, NEW e \in Exporters, ExportStep(e)
    PROVE  Targets'
<1>0. /\ exp \in [Exporters -> Exporter] /\ exp[e] \in Exporter
      /\ exp[e].table \in Tables /\ exp[e].content \in Versions
  BY DEF TypeOK, DeliveryTypeOK, Exporter
<1>1. CASE ReadMart(e)
  <2>1. /\ exp'[e].pc = "lookup"
        /\ \A d \in Exporters \ {e} : exp'[d] = exp[d]
        /\ folder' = folder /\ exp[e].pc = "read"
    BY <1>0, <1>1 DEF ReadMart, Exporter
  <2> QED BY <2>1 DEF Targets, Exporting, OneReportPerTable
<1>2. CASE Lookup(e)
  <2> DEFINE found == {f.id : f \in FilesOf(folder, exp[e].table)}
  <2>1. PICK id \in IF found = {} THEN {NoFile} ELSE found :
           exp' = [exp EXCEPT ![e].pc = "write", ![e].target = id]
    BY <1>2 DEF Lookup
  <2>2. id # NoFile => \E f \in folder : f.id = id /\ f.table = exp[e].table
    BY <2>1 DEF FilesOf
  <2>3. id = NoFile => FilesOf(folder, exp[e].table) = {}
    <3>1. \A f \in folder : f.id \in Nat
      BY DEF TypeOK, DeliveryTypeOK, File
    <3> QED BY <2>1, <3>1, DeliveryAssumption DEF FilesOf
  <2> HIDE DEF found
  <2>4. /\ exp'[e].pc = "write" /\ exp'[e].target = id /\ exp'[e].table = exp[e].table
        /\ \A d \in Exporters \ {e} : exp'[d] = exp[d]
        /\ folder' = folder /\ exp[e].pc = "lookup"
    BY <1>0, <1>2, <2>1 DEF Lookup, Exporter
  <2> QED BY <2>2, <2>3, <2>4 DEF Targets, Exporting, OneReportPerTable
<1>3. CASE exp[e].pc = "write" /\ Written(e) /\ (Write(e) \/ ExportError(e))
  <2>1. /\ exp'[e].pc \in {"read", "ok", "failed"}
        /\ \A d \in Exporters \ {e} : exp'[d] = exp[d]
    BY <1>0, <1>3 DEF Write, ExportError, At
  <2>2. \A d \in Exporters : exp'[d].pc = "write" /\ exp'[d].target # NoFile =>
           \E f \in folder' : f.id = exp'[d].target /\ f.table = exp'[d].table
    <3> SUFFICES ASSUME NEW d \in Exporters, exp'[d].pc = "write", exp'[d].target # NoFile
                 PROVE  \E f \in folder' : f.id = exp'[d].target /\ f.table = exp'[d].table
      OBVIOUS
    <3>1. exp'[d] = exp[d]
      BY <2>1
    <3>2. PICK f \in folder : f.id = exp[d].target /\ f.table = exp[d].table
      BY <3>1 DEF Targets
    <3> QED BY <1>3, <3>1, <3>2, WriteEffect
  <2>3. ASSUME ~Overlap
        PROVE  /\ OneReportPerTable'
               /\ \A b, d \in Exporters : Exporting(b)' /\ Exporting(d)' => b = d
               /\ \A d \in Exporters : exp'[d].pc # "write"
    <3>1. \A d \in Exporters \ {e} : ~Exporting(d)
      BY <1>3, <2>3 DEF Targets, Exporting
    <3>2. \A d \in Exporters \ {e} : ~Exporting(d)'
      BY <2>1, <3>1 DEF Exporting
    <3>3. \A d \in Exporters : exp'[d].pc # "write"
      BY <2>1, <3>2 DEF Exporting
    <3>4. OneReportPerTable'
      <4> SUFFICES ASSUME NEW t \in Tables PROVE Cardinality(FilesOf(folder', t)) <= 1
        BY DEF OneReportPerTable
      <4>1. Cardinality(FilesOf(folder, t)) <= 1
        BY <2>3 DEF Targets, OneReportPerTable
      <4>2. CASE exp[e].target # NoFile
        BY <1>3, <4>1, <4>2, WriteEffect
      <4>3. CASE exp[e].target = NoFile
        <5>1. FilesOf(folder, exp[e].table) = {}
          BY <1>3, <2>3, <4>3 DEF Targets
        <5>2. \/ FilesOf(folder', t) = FilesOf(folder, t)
              \/ Cardinality(FilesOf(folder', t)) = 1
          BY <1>3, <4>3, <5>1, WriteEffect
        <5> QED BY <4>1, <5>2
      <4> QED BY <4>2, <4>3
    <3> QED BY <3>2, <3>3, <3>4
  <2> QED BY <2>2, <2>3 DEF Targets
<1>4. CASE ExportError(e) /\ UNCHANGED folder
  <2>1. /\ exp'[e].pc = "failed" /\ \A d \in Exporters \ {e} : exp'[d] = exp[d]
        /\ folder' = folder
    BY <1>0, <1>4 DEF ExportError, At
  <2> QED BY <2>1 DEF Targets, Exporting, OneReportPerTable
<1> QED BY <1>1, <1>2, <1>3, <1>4 DEF ExportStep, Write, ExportError

\* After a verification that did not fail, the step repeats what was verified.
LEMMA ExportRepeats ==
    ASSUME TypeOK, Ids, Targets, VerifiedDelivered, Repeated,
           NEW e \in Exporters, Export(e)
    PROVE  VerifiedDelivered' /\ Repeated'
<1> ExportStep(e) /\ vpc' = vpc /\ verdict' = verdict /\ calm' = calm /\ seen' = seen
    /\ options' = options /\ mart' = mart
  BY DEF Export, ExportStep, ReadMart, Lookup, Write, ExportError, report, history
<1>0. /\ exp \in [Exporters -> Exporter] /\ exp[e] \in Exporter
      /\ exp[e].table \in Tables /\ exp[e].content \in Versions
  BY DEF TypeOK, DeliveryTypeOK, Exporter
<1> SUFFICES ASSUME vpc = "end", verdict # "failed", calm
             PROVE  VerifiedDelivered' /\ Repeated'
  BY DEF VerifiedDelivered, Repeated
<1>1. PICK v \in seen :
        /\ v = 0 => options.allowEmpty
        /\ \A t \in Tables : /\ mart[t] = v
                             /\ {f.content : f \in FilesOf(folder, t)} = {v}
                             /\ Cardinality(FilesOf(folder, t)) = 1
  BY DEF VerifiedDelivered
<1>2. \A d \in Exporters :
        /\ exp[d].pc \in {"lookup", "write"} => exp[d].content = mart[exp[d].table]
        /\ exp[d].pc = "write" => exp[d].target # NoFile
  BY DEF Repeated
<1>3. CASE ReadMart(e)
  <2>1. /\ exp'[e].pc = "lookup" /\ exp'[e].content = mart[exp'[e].table]
        /\ \A d \in Exporters \ {e} : exp'[d] = exp[d]
        /\ folder' = folder
    BY <1>0, <1>3 DEF ReadMart, Exporter
  <2>2. VerifiedDelivered'
    BY <1>1, <2>1 DEF VerifiedDelivered
  <2> QED BY <1>2, <2>1, <2>2 DEF Repeated
<1>4. CASE Lookup(e)
  <2> DEFINE found == {f.id : f \in FilesOf(folder, exp[e].table)}
  <2>1. PICK id \in IF found = {} THEN {NoFile} ELSE found :
           exp' = [exp EXCEPT ![e].pc = "write", ![e].target = id]
    BY <1>4 DEF Lookup
  <2>2. id # NoFile
    <3>1. PICK f : FilesOf(folder, exp[e].table) = {f}
      BY <1>0, <1>1, FilesFinite, CardinalityOne
    <3>2. f.id \in Nat /\ f.id \in found
      BY <3>1 DEF FilesOf, TypeOK, DeliveryTypeOK, File
    <3>3. found \subseteq Nat
      BY DEF FilesOf, TypeOK, DeliveryTypeOK, File
    <3> QED BY <2>1, <3>2, <3>3, DeliveryAssumption
  <2> HIDE DEF found
  <2>3. /\ exp'[e].pc = "write" /\ exp'[e].target = id /\ exp'[e].table = exp[e].table
        /\ exp'[e].content = exp[e].content /\ exp[e].pc = "lookup"
        /\ \A d \in Exporters \ {e} : exp'[d] = exp[d]
        /\ folder' = folder
    BY <1>0, <1>4, <2>1 DEF Lookup, Exporter
  <2>4. VerifiedDelivered'
    BY <1>1, <2>3 DEF VerifiedDelivered
  <2> QED BY <1>2, <2>2, <2>3, <2>4 DEF Repeated
<1>5. CASE exp[e].pc = "write" /\ Written(e) /\ (Write(e) \/ ExportError(e))
  <2>1. /\ exp'[e].pc \in {"read", "ok", "failed"}
        /\ \A d \in Exporters \ {e} : exp'[d] = exp[d]
    BY <1>0, <1>5 DEF Write, ExportError, At
  <2>2. exp[e].target # NoFile /\ exp[e].content = v
    BY <1>0, <1>1, <1>2, <1>5
  <2>3. \A t \in Tables : Cardinality(FilesOf(folder', t)) = 1
    BY <1>1, <1>5, <2>2, WriteEffect
  <2>4. ASSUME NEW t \in Tables
        PROVE  {f.content : f \in FilesOf(folder', t)} = {v}
    <3>1. Ids'
      BY <1>5, WriteEffect
    <3>2. IsFiniteSet(FilesOf(folder', t))
      BY <3>1, FS_Subset DEF Ids, FilesOf
    <3>3. PICK g : FilesOf(folder', t) = {g}
      BY <2>3, <3>2, CardinalityOne
    <3>4. g \in folder' /\ g.table = t
      BY <3>3 DEF FilesOf
    <3>5. g \in folder \/ g.content = v
      BY <1>5, <2>2, <3>4, WriteEffect
    <3>6. g \in folder => g.content \in {f.content : f \in FilesOf(folder, t)}
      BY <3>4 DEF FilesOf
    <3>7. g.content = v
      BY <1>1, <3>5, <3>6
    <3> QED BY <3>3, <3>7
  <2>5. VerifiedDelivered'
    BY <1>1, <2>3, <2>4 DEF VerifiedDelivered
  <2> QED BY <1>2, <2>1, <2>5 DEF Repeated
<1>6. CASE ExportError(e) /\ UNCHANGED folder
  <2>1. /\ exp'[e].pc = "failed" /\ \A d \in Exporters \ {e} : exp'[d] = exp[d]
        /\ folder' = folder
    BY <1>0, <1>6 DEF ExportError, At
  <2>2. VerifiedDelivered'
    BY <1>1, <2>1 DEF VerifiedDelivered
  <2> QED BY <1>2, <2>1, <2>2 DEF Repeated
<1> QED BY <1>3, <1>4, <1>5, <1>6 DEF ExportStep, Write, ExportError

-----------------------------------------------------------------------------
(* A step of the system *)

\* Nothing is delivered at first.
LEMMA InitIInv == Init => IInv
<1> SUFFICES ASSUME Init PROVE IInv
  OBVIOUS
<1> USE DEF Init, DeliveryInit
<1>1. ReportInv
  BY InitReportInv
<1>2. \A e \in Exporters : exp[e] = At("off", Daily)
  OBVIOUS
<1>3. DeliveryTypeOK
  BY <1>2, DeliveryAssumption DEF DeliveryTypeOK, At, Exporter, Tables
<1>4. TypeOK
  BY <1>1, <1>3, DeliveryAssumption DEF TypeOK, ReportInv, Tables
<1>5. Ids
  BY FS_EmptySet DEF Ids
<1>6. \A t : FilesOf(folder, t) = {}
  BY DEF FilesOf
<1>7. Targets
  BY <1>2, <1>6, FS_EmptySet DEF Targets, OneReportPerTable, Exporting, At
<1>8. Exclusive /\ Compared /\ Checking /\ VerifiedDelivered /\ Repeated
  BY DEF Exclusive, Running, Compared, Checking, VerifiedDelivered, Repeated
<1> QED BY <1>1, <1>4, <1>5, <1>7, <1>8 DEF IInv

\* The ETL, or a refresh that was given up, changes what Silver or the marts show: the
\* running verification learns of the one, and is not calm about the other.
LEMMA EnvironmentIInv ==
    ASSUME IInv, ReportInv', SilverChanges \/ LateRefresh
    PROVE  IInv'
<1> TypeOK /\ Ids /\ Targets /\ Exclusive /\ Compared /\ Checking /\ VerifiedDelivered
    /\ Repeated
  BY DEF IInv
<1>1. /\ folder' = folder /\ exp' = exp /\ vpc' = vpc /\ options' = options
      /\ verdict' = verdict /\ table' = table /\ listed' = listed /\ want' = want
      /\ previous' = previous
  BY DEF SilverChanges, LateRefresh, report, check
<1>2. Ids' /\ Targets'
  BY <1>1 DEF Ids, Targets, Exporting, OneReportPerTable
<1>3. CASE SilverChanges
  <2>1. PICK v \in Versions :
           silver' = v /\ seen' = IF Running THEN seen \cup {v} ELSE seen
    BY <1>3 DEF SilverChanges
  <2>2. mart' = mart /\ calm' = calm /\ late' = late /\ (Running' <=> Running)
    BY <1>1, <1>3 DEF SilverChanges, Running
  <2>3. seen \subseteq seen'
    BY <2>1
  <2>4. TypeOK'
    BY <1>1, <2>1, <2>2 DEF TypeOK, DeliveryTypeOK, ReportInv
  <2>5. Exclusive'
    BY <1>1, <2>1, <2>2 DEF Exclusive, Exporting
  <2>6. Compared'
    BY <1>1, <2>2, <2>3 DEF Compared
  <2>7. Checking'
    BY <1>1, <2>2, <2>3 DEF Checking, Sound
  <2>8. VerifiedDelivered' /\ Repeated'
    BY <1>1, <2>2, <2>3 DEF VerifiedDelivered, Repeated
  <2> QED BY <1>2, <2>4, <2>5, <2>6, <2>7, <2>8 DEF IInv
<1>4. CASE LateRefresh
  <2>1. PICK t \in late : mart' = [mart EXCEPT ![t] = silver] /\ late' = late \ {t}
    BY <1>4 DEF LateRefresh, ReplaceMart
  <2>2. calm' = FALSE /\ seen' = seen /\ silver' = silver /\ (Running' <=> Running)
    BY <1>1, <1>4 DEF LateRefresh, Running
  <2>3. TypeOK'
    BY <1>1, <2>1, <2>2 DEF TypeOK, DeliveryTypeOK, ReportInv
  <2>4. Exclusive'
    BY <1>1, <2>2 DEF Exclusive, Exporting
  <2>5. \A u \in Tables : mart'[u] \in {mart[u], silver}
    BY <2>1 DEF TypeOK, DeliveryTypeOK
  <2>6. Compared'
    BY <1>1, <2>2, <2>5 DEF Compared, Exclusive, Running
  <2>7. Checking'
    BY <1>1, <2>2 DEF Checking, Sound
  <2>8. VerifiedDelivered' /\ Repeated'
    BY <2>2 DEF VerifiedDelivered, Repeated
  <2> QED BY <1>2, <2>3, <2>4, <2>6, <2>7, <2>8 DEF IInv
<1> QED BY <1>3, <1>4

\* Exports start, and go on, while no verification runs, or they are its own.
LEMMA ExportIInv ==
    ASSUME IInv, ReportInv', NEW e \in Exporters, WorkerExport(e) \/ Export(e)
    PROVE  IInv'
<1> TypeOK /\ Ids /\ Targets /\ Exclusive /\ Compared /\ Checking /\ VerifiedDelivered
    /\ Repeated
  BY DEF IInv
<1>1. /\ vpc' = vpc /\ options' = options /\ verdict' = verdict /\ table' = table
      /\ listed' = listed /\ want' = want /\ previous' = previous /\ late' = late
      /\ calm' = calm /\ seen' = seen /\ silver' = silver /\ mart' = mart
  BY DEF WorkerExport, Export, StartExport, ExportStep, ReadMart, Lookup, Write,
         ExportError, report, check, history
<1>2. exp \in [Exporters -> Exporter] /\ exp[e] \in Exporter
  BY DEF TypeOK, DeliveryTypeOK
<1>3. Compared'
  BY <1>1 DEF Compared
<1>4. CASE WorkerExport(e)
  <2>1. /\ ~Running /\ ~Exporting(e) /\ folder' = folder
        /\ exp' = [exp EXCEPT ![e] = At("read", Daily)]
        /\ Overlap \/ \A d \in Exporters : ~Exporting(d)
    BY <1>4 DEF WorkerExport, StartExport, Nobody
  <2>2. exp'[e].pc = "read" /\ \A d \in Exporters \ {e} : exp'[d] = exp[d]
    BY <1>2, <2>1 DEF At
  <2>3. exp' \in [Exporters -> Exporter]
    BY <1>2, <2>1, DeliveryAssumption DEF At, Exporter, Tables
  <2>4. TypeOK'
    BY <1>1, <2>1, <2>3 DEF TypeOK, DeliveryTypeOK, ReportInv
  <2>5. Ids' /\ Targets'
    BY <2>1, <2>2 DEF Ids, Targets, Exporting, OneReportPerTable
  <2>6. Exclusive' /\ Checking'
    BY <1>1, <2>1 DEF Exclusive, Checking, Running
  <2>7. VerifiedDelivered' /\ Repeated'
    BY <1>1, <2>1, <2>2 DEF VerifiedDelivered, Repeated
  <2> QED BY <1>3, <2>4, <2>5, <2>6, <2>7 DEF IInv
<1>5. CASE Export(e)
  <2>1. ExportStep(e) /\ Exporting(e)
    BY <1>5 DEF Export, ExportStep, ReadMart, Lookup, Write, ExportError, Exporting
  <2>2. DeliveryTypeOK' /\ Ids' /\ Targets'
    BY <2>1, ExportTypes, ExportTargets
  <2>3. VerifiedDelivered' /\ Repeated'
    BY <1>5, ExportRepeats
  <2>4. TypeOK'
    BY <1>1, <2>2 DEF TypeOK, ReportInv
  <2>5. Running => e = Verifier /\ vpc = "exporting"
    BY <2>1 DEF Exclusive
  <2>6. Checking'
    BY <1>1, <2>5 DEF Checking, Running
  <2>7. \A d \in Exporters \ {e} : exp'[d] = exp[d]
    BY <1>2, <2>1 DEF ExportStep, ReadMart, Lookup, Write, ExportError
  <2>8. Exclusive'
    BY <1>1, <2>5, <2>7 DEF Exclusive, Exporting, Running
  <2> QED BY <1>3, <2>2, <2>3, <2>4, <2>6, <2>8 DEF IInv
<1> QED BY <1>4, <1>5

\* CheckCSV: the only file of the table has the content that the mart had when it was
\* read, and it is empty only if that was allowed.
LEMMA CheckedSound ==
    ASSUME TypeOK, Ids, Checking, vpc = "got", Matches
    PROVE  Sound(table) /\ \A f \in FilesOf(folder, table) : f.content = want
<1>1. /\ listed = folder /\ table \in Tables
      /\ Cardinality(FilesOf(folder, table)) = 1
      /\ want \in seen /\ (calm => want = mart[table])
  BY DEF TypeOK, Checking
<1>2. PICK f \in File : /\ f \in folder /\ f.table = table
                        /\ FilesOf(folder, table) = {f} /\ IdOf(table) = f.id
  BY <1>1, OnlyFile
<1>3. PICK g \in folder : g.id = IdOf(table) /\ g.content = want
  BY DEF Matches
<1>4. f = g
  BY <1>2, <1>3 DEF Ids
<1> QED BY <1>1, <1>2, <1>3, <1>4 DEF Sound, Matches

\* A verification starts when nobody exports, and forgets the one before.
LEMMA StartIInv == ASSUME IInv, ReportInv', Start PROVE IInv'
<1> TypeOK /\ Ids /\ Targets
  BY DEF IInv
<1>1. /\ folder' = folder /\ exp' = exp /\ silver' = silver /\ mart' = mart
      /\ vpc' = "configure" /\ seen' = {silver} /\ calm' = TRUE /\ late' = late
      /\ table' = table /\ listed' = listed /\ want' = want /\ previous' = previous
      /\ \A e \in Exporters : ~Exporting(e)
  BY DEF Start, Nobody, check, delivery
<1>2. Ids' /\ Targets'
  BY <1>1 DEF Ids, Targets, Exporting, OneReportPerTable
<1>3. TypeOK'
  BY <1>1 DEF TypeOK, DeliveryTypeOK, ReportInv
<1>4. Exclusive'
  BY <1>1 DEF Exclusive, Exporting
<1>5. Compared' /\ Checking' /\ VerifiedDelivered' /\ Repeated'
  BY <1>1 DEF Compared, Checking, VerifiedDelivered, Repeated
<1> QED BY <1>2, <1>3, <1>4, <1>5 DEF IInv

\* A verification that fails claims nothing, and leaves folder and exporters alone.
LEMMA FailIInv ==
    ASSUME IInv, ReportInv',
           ConfigureError \/ RefreshError \/ CompareFails \/ RoundFails
    PROVE  IInv'
<1> TypeOK /\ Ids /\ Targets
  BY DEF IInv
<1>1. Running /\ verdict = "failed"
  BY DEF IInv, ReportInv, Progress, Running, ConfigureError, RefreshError, CompareFails,
         RoundFails
<1>2. /\ folder' = folder /\ exp' = exp /\ silver' = silver
      /\ vpc' = "end" /\ seen' = {} /\ verdict' = verdict /\ calm' = calm
      /\ table' = Daily /\ listed' = {} /\ want' = 0
      /\ previous' = [t \in Tables |-> NoFile]
  BY DEF ConfigureError, RefreshError, CompareFails, RoundFails, Fail, End, delivery
<1>3. mart' \in [Tables -> Versions \cup {NoMart}]
  BY DEF ConfigureError, RefreshError, CompareFails, RoundFails, delivery, ReplaceMart,
         TypeOK, DeliveryTypeOK
<1>4. late' \subseteq Tables
  BY DEF ConfigureError, RefreshError, CompareFails, RoundFails, TypeOK, Tables
<1>5. TypeOK'
  BY <1>2, <1>3, <1>4, DeliveryAssumption DEF TypeOK, DeliveryTypeOK, ReportInv, Tables
<1>6. Ids' /\ Targets'
  BY <1>2 DEF Ids, Targets, Exporting, OneReportPerTable
<1>7. /\ Exclusive' /\ Compared' /\ Checking' /\ VerifiedDelivered' /\ Repeated'
  BY <1>1, <1>2 DEF Exclusive, Compared, Checking, VerifiedDelivered, Repeated, Running
<1> QED BY <1>5, <1>6, <1>7 DEF IInv

\* Up to the comparison, which finds both marts equal to Silver.
LEMMA PrepareIInv ==
    ASSUME IInv, ReportInv', Configure \/ RefreshDaily \/ RefreshLatest \/ Compare
    PROVE  IInv'
<1> TypeOK /\ Ids /\ Targets /\ Exclusive
  BY DEF IInv
<1>1. /\ folder' = folder /\ exp' = exp /\ silver' = silver /\ options' = options
      /\ table' = table /\ listed' = listed /\ want' = want /\ previous' = previous
      /\ late' = late /\ calm' = calm /\ seen' = seen
      /\ vpc \in {"configure", "refresh_daily", "refresh_latest", "compare"}
  BY DEF Configure, RefreshDaily, RefreshLatest, Compare, Pass, report, check, history,
         delivery
<1>2. vpc' \in {"refresh_daily", "refresh_latest", "compare"}
      \/ (Compare /\ vpc' \in {"export", "list"})
  BY DEF Configure, RefreshDaily, RefreshLatest, Compare
<1>3. mart' \in [Tables -> Versions \cup {NoMart}]
  BY DEF Configure, RefreshDaily, RefreshLatest, Compare, ReplaceMart, delivery, TypeOK,
         DeliveryTypeOK
<1>4. TypeOK'
  BY <1>1, <1>3 DEF TypeOK, DeliveryTypeOK, ReportInv
<1>5. Ids' /\ Targets'
  BY <1>1 DEF Ids, Targets, Exporting, OneReportPerTable
<1>6. silver \in seen /\ \A e \in Exporters : ~Exporting(e)
  BY <1>1 DEF Exclusive, Running
<1>7. Exclusive'
  BY <1>1, <1>6 DEF Exclusive, Exporting
<1>8. Compared'
  <2>1. CASE Compare
    <3>1. /\ \A t \in Tables : mart'[t] = silver
          /\ options.allowEmpty \/ silver # 0
      BY <2>1 DEF Compare, GoldMatches, delivery
    <3>2. mart'[Daily] = silver /\ mart'[Latest] = silver
      BY <3>1 DEF Tables
    <3> QED BY <1>1, <1>6, <3>1, <3>2 DEF Compared
  <2>2. CASE ~Compare
    BY <1>2, <2>2 DEF Compared
  <2> QED BY <2>1, <2>2
<1>9. Checking' /\ VerifiedDelivered' /\ Repeated'
  BY <1>2 DEF Checking, VerifiedDelivered, Repeated
<1> QED BY <1>4, <1>5, <1>7, <1>8, <1>9 DEF IInv

\* The round's export, the listing, and the check of one table after the other.
LEMMA RoundIInv ==
    ASSUME IInv, ReportInv',
           StartRound \/ Exported \/ ListFiles \/ ReadWant \/ CheckDaily \/ NextRound
    PROVE  IInv'
<1> TypeOK /\ Ids /\ Targets /\ Exclusive /\ Compared /\ Checking
  BY DEF IInv
<1>1. /\ folder' = folder /\ silver' = silver /\ mart' = mart /\ options' = options
      /\ late' = late /\ calm' = calm /\ seen' = seen
      /\ vpc \in {"export", "exporting", "list", "want", "got"}
      /\ vpc' \in {"export", "exporting", "list", "want", "got"}
  BY DEF StartRound, Exported, ListFiles, ReadWant, CheckDaily, NextRound, StartExport,
         report, check, history, delivery
<1>2. Compared'
  BY <1>1 DEF Compared
<1>3. Running /\ silver \in seen
  BY <1>1 DEF Exclusive, Running
<1>4. VerifiedDelivered' /\ Repeated'
  BY <1>1 DEF VerifiedDelivered, Repeated
<1>5. CASE StartRound
  <2>1. /\ exp' = [exp EXCEPT ![Verifier] = At("read", Daily)]
        /\ vpc = "export" /\ vpc' = "exporting"
        /\ table' = table /\ listed' = listed /\ want' = want /\ previous' = previous
    BY <1>5 DEF StartRound, StartExport, check
  <2>2. \A e \in Exporters : ~Exporting(e)
    BY <1>3, <2>1 DEF Exclusive
  <2>3. /\ \A e \in Exporters \ {Verifier} : exp'[e] = exp[e]
        /\ exp'[Verifier].pc = "read" /\ Verifier \in Exporters
    BY <2>1, VerifyAssumption DEF TypeOK, DeliveryTypeOK, At
  <2>4. exp' \in [Exporters -> Exporter]
    BY <2>1, DeliveryAssumption DEF TypeOK, DeliveryTypeOK, At, Exporter, Tables
  <2>5. TypeOK'
    BY <1>1, <2>1, <2>4 DEF TypeOK, DeliveryTypeOK, ReportInv
  <2>6. Ids' /\ Targets'
    BY <1>1, <2>2, <2>3 DEF Ids, Targets, Exporting, OneReportPerTable
  <2>7. Exclusive' /\ Checking'
    BY <1>1, <1>3, <2>1, <2>2, <2>3 DEF Exclusive, Exporting, Checking
  <2> QED BY <1>2, <1>4, <2>5, <2>6, <2>7 DEF IInv
<1>6. CASE Exported \/ ListFiles \/ ReadWant \/ CheckDaily \/ NextRound
  <2>1. exp' = exp
    BY <1>6 DEF Exported, ListFiles, ReadWant, CheckDaily, NextRound, delivery
  <2>2. Ids' /\ Targets'
    BY <1>1, <2>1 DEF Ids, Targets, Exporting, OneReportPerTable
  <2>3. \A e \in Exporters : ~Exporting(e)
    BY <1>3, <1>6, VerifyAssumption
    DEF Exported, ListFiles, ReadWant, CheckDaily, NextRound, Exclusive, Exporting
  <2>4. Exclusive'
    BY <1>1, <1>3, <2>1, <2>3 DEF Exclusive, Exporting
  <2>5. DeliveryTypeOK'
    BY <1>1, <2>1 DEF TypeOK, DeliveryTypeOK
  <2>6. CASE Exported
    <3>1. /\ vpc' = "list" /\ table' = table /\ listed' = listed /\ want' = want
          /\ previous' = previous
      BY <2>6 DEF Exported, check
    <3>2. TypeOK' /\ Checking'
      BY <1>1, <2>5, <3>1 DEF TypeOK, ReportInv, Checking
    <3> QED BY <1>2, <1>4, <2>2, <2>4, <3>2 DEF IInv
  <2>7. CASE ListFiles
    <3>1. /\ vpc' = "want" /\ table' = Daily /\ listed' = folder /\ want' = want
          /\ previous' = previous
      BY <2>7 DEF ListFiles
    <3>2. TypeOK' /\ Checking'
      BY <1>1, <2>5, <3>1
      DEF TypeOK, DeliveryTypeOK, ReportInv, Checking, Tables, Daily, Latest
    <3> QED BY <1>2, <1>4, <2>2, <2>4, <3>2 DEF IInv
  <2>8. CASE ReadWant
    <3>1. /\ vpc = "want" /\ vpc' = "got" /\ table' = table /\ listed' = listed
          /\ previous' = previous /\ want' = mart[table] /\ mart[table] # NoMart
          /\ Cardinality(FilesOf(listed, table)) = 1
      BY <2>8 DEF ReadWant
    <3>2. mart[table] \in Versions /\ mart[table] \in seen /\ listed = folder
      BY <3>1 DEF TypeOK, DeliveryTypeOK, Compared, Checking
    <3>3. TypeOK'
      BY <1>1, <2>5, <3>1, <3>2 DEF TypeOK, ReportInv
    <3>4. Checking'
      BY <1>1, <3>1, <3>2 DEF Checking, Sound
    <3> QED BY <1>2, <1>4, <2>2, <2>4, <3>3, <3>4 DEF IInv
  <2>9. CASE CheckDaily
    <3>1. /\ vpc = "got" /\ table = Daily /\ Matches
          /\ vpc' = "want" /\ table' = Latest /\ listed' = listed /\ want' = want
          /\ previous' = previous
      BY <2>9 DEF CheckDaily
    <3>2. TypeOK'
      BY <1>1, <2>5, <3>1 DEF TypeOK, ReportInv, Tables
    <3>3. Sound(Daily)
      BY <3>1, CheckedSound DEF Tables
    <3>4. Checking'
      BY <1>1, <3>1, <3>3 DEF Checking, Sound
    <3> QED BY <1>2, <1>4, <2>2, <2>4, <3>2, <3>4 DEF IInv
  <2>10. CASE NextRound
    <3>1. /\ vpc = "got" /\ table = Latest
          /\ vpc' = "export" /\ table' = table /\ listed' = listed /\ want' = want
          /\ previous' = [t \in Tables |-> IdOf(t)]
      BY <2>10 DEF NextRound
    <3>2. \A t \in Tables : Cardinality(FilesOf(folder, t)) = 1
      BY <3>1 DEF Checking, Sound, Tables
    <3>3. listed = folder
      BY <3>1 DEF Checking
    <3>4. \A t \in Tables : IdOf(t) \in Nat
      BY <3>2, <3>3, OnlyFile DEF File
    <3>5. TypeOK'
      BY <1>1, <2>5, <3>1, <3>4 DEF TypeOK, ReportInv
    <3>6. Checking'
      BY <3>1 DEF Checking
    <3> QED BY <1>2, <1>4, <2>2, <2>4, <3>5, <3>6 DEF IInv
  <2> QED BY <1>6, <2>6, <2>7, <2>8, <2>9, <2>10
<1> QED BY <1>5, <1>6

\* When the last round is over, both reports are sound, and calm reports are the same.
LEMMA FinishSound ==
    ASSUME IInv, Finish
    PROVE  /\ \A t \in Tables : Sound(t)
           /\ calm => \A t \in Tables : /\ mart[t] = want
                                        /\ \A f \in FilesOf(folder, t) : f.content = want
           /\ want \in seen /\ (want = 0 => options.allowEmpty)
<1>1. /\ TypeOK /\ Ids /\ Compared /\ Checking
      /\ vpc = "got" /\ table = Latest /\ Matches
  BY DEF IInv, Finish
<1>2. Sound(Daily) /\ want \in seen /\ (calm => want = mart[Latest])
  BY <1>1 DEF Checking
<1>3. Sound(Latest) /\ \A f \in FilesOf(folder, Latest) : f.content = want
  BY <1>1, CheckedSound
<1>4. want = 0 => options.allowEmpty
  BY <1>1 DEF Matches
<1>5. calm => mart[Daily] = mart[Latest]
  BY <1>1 DEF Compared
<1>6. calm => \A f \in FilesOf(folder, Daily) : f.content = want
  BY <1>2, <1>5 DEF Sound
<1> QED BY <1>2, <1>3, <1>4, <1>5, <1>6 DEF Tables

\* The verdict claims what the last round has found, and no export is under way.
LEMMA FinishIInv == ASSUME IInv, ReportInv', Finish PROVE IInv'
<1> TypeOK /\ Ids /\ Targets /\ Exclusive
  BY DEF IInv
<1>1. /\ folder' = folder /\ exp' = exp /\ silver' = silver /\ mart' = mart
      /\ options' = options /\ late' = late /\ calm' = calm /\ seen' = seen
      /\ vpc = "got" /\ vpc' = "end"
      /\ table' = Daily /\ listed' = {} /\ want' = 0
      /\ previous' = [t \in Tables |-> NoFile]
  BY DEF Finish, End, delivery, history
<1>2. TypeOK'
  BY <1>1, DeliveryAssumption DEF TypeOK, DeliveryTypeOK, ReportInv, Tables
<1>3. Ids' /\ Targets'
  BY <1>1 DEF Ids, Targets, Exporting, OneReportPerTable
<1>4. \A e \in Exporters : ~Exporting(e)
  BY <1>1 DEF Exclusive, Running
<1>5. Exclusive' /\ Compared' /\ Checking'
  BY <1>1 DEF Exclusive, Compared, Checking, Running
<1>6. Repeated'
  BY <1>1, <1>4 DEF Repeated, Exporting
<1>7. VerifiedDelivered'
  <2> SUFFICES ASSUME calm PROVE VerifiedDelivered'
    BY <1>1 DEF VerifiedDelivered
  <2>1. ASSUME NEW t \in Tables
        PROVE  /\ mart'[t] = want /\ Cardinality(FilesOf(folder', t)) = 1
               /\ {f.content : f \in FilesOf(folder', t)} = {want}
    <3>1. /\ mart[t] = want /\ \A f \in FilesOf(folder, t) : f.content = want
          /\ Cardinality(FilesOf(folder, t)) = 1
      BY FinishSound DEF Sound
    <3>2. PICK f : FilesOf(folder, t) = {f}
      BY <3>1, FilesFinite, CardinalityOne
    <3> QED BY <1>1, <3>1, <3>2
  <2>2. want \in seen' /\ (want = 0 => options'.allowEmpty)
    BY <1>1, FinishSound
  <2> QED BY <2>1, <2>2 DEF VerifiedDelivered
<1> QED BY <1>2, <1>3, <1>5, <1>6, <1>7 DEF IInv

\* No step makes a verification claim what is not delivered.
LEMMA StepIInv == IInv /\ [Next]_vars => IInv'
<1> SUFFICES ASSUME IInv, [Next]_vars PROVE IInv'
  OBVIOUS
<1>0. ReportInv'
  BY StepReportInv DEF IInv
<1>1. CASE SilverChanges \/ LateRefresh
  BY <1>0, <1>1, EnvironmentIInv
<1>2. CASE \E e \in Exporters : WorkerExport(e) \/ Export(e)
  BY <1>0, <1>2, ExportIInv
<1>3. CASE Start
  BY <1>0, <1>3, StartIInv
<1>4. CASE ConfigureError \/ RefreshError \/ CompareFails \/ RoundFails
  BY <1>0, <1>4, FailIInv
<1>5. CASE Configure \/ RefreshDaily \/ RefreshLatest \/ Compare
  BY <1>0, <1>5, PrepareIInv
<1>6. CASE StartRound \/ Exported \/ ListFiles \/ ReadWant \/ CheckDaily \/ NextRound
  BY <1>0, <1>6, RoundIInv
<1>7. CASE Finish
  BY <1>0, <1>7, FinishIInv
<1>8. CASE UNCHANGED vars
  <2>1. UNCHANGED <<silver, mart, folder, exp, vpc, options, table, listed, want,
                    previous, late, calm, seen>> /\ UNCHANGED <<verdict, round>>
    BY <1>8 DEF vars, delivery, report, check, history
  <2>2. TypeOK'
    BY <1>0, <2>1 DEF IInv, TypeOK, DeliveryTypeOK, ReportInv
  <2>3. Ids' /\ Targets' /\ Exclusive'
    BY <2>1 DEF IInv, Ids, Targets, Exclusive, Exporting, OneReportPerTable, Running
  <2>4. Compared' /\ Checking' /\ VerifiedDelivered' /\ Repeated'
    BY <2>1 DEF IInv, Compared, Checking, Sound, VerifiedDelivered, Repeated
  <2> QED BY <1>0, <2>2, <2>3, <2>4 DEF IInv
<1> QED BY <1>1, <1>2, <1>3, <1>4, <1>5, <1>6, <1>7, <1>8 DEF Next, Verify

-----------------------------------------------------------------------------
(* The delivery *)

\* What the exporters, the check and the report know of the folder and the marts is
\* consistent in every reachable state, also if worker runs overlap.
THEOREM DeliveryInductive == Spec => []IInv
BY InitIInv, StepIInv, PTL DEF Spec

\* A verification that did not fail vouches for one file per table with one and the
\* same state of Silver, also if worker runs overlap each other before and after it.
THEOREM Vouched == Spec => []VerifiedDelivered
<1>1. IInv => VerifiedDelivered
  BY DEF IInv
<1> QED BY DeliveryInductive, <1>1, PTL

\* If worker runs do not overlap, no report ever has a second file of its name.
THEOREM OneReport == ASSUME ~Overlap PROVE Spec => []OneReportPerTable
<1>1. IInv => OneReportPerTable
  BY DEF IInv, Targets
<1> QED BY DeliveryInductive, <1>1, PTL

\* The step that ends a verification well finds one file per table with a state that
\* Silver had meanwhile, whatever late refreshes do and whether worker runs overlap.
THEOREM Fresh == Spec => DeliveryFresh
<1>1. ASSUME IInv, [Next]_vars
      PROVE  [vpc' = "end" /\ vpc # "end" /\ verdict' # "failed" =>
                \A t \in Tables :
                    /\ Cardinality(FilesOf(folder, t)) = 1
                    /\ \A f \in FilesOf(folder, t) :
                          f.content \in seen /\ (f.content = 0 => options.allowEmpty)]_vars
  <2> SUFFICES ASSUME vpc' = "end", vpc # "end", verdict' # "failed"
               PROVE  \A t \in Tables : Sound(t)
    BY DEF Sound
  <2>1. ~(UNCHANGED vars)
    BY DEF vars
  <2>2. ~(SilverChanges \/ LateRefresh \/ Start)
    BY DEF SilverChanges, LateRefresh, Start
  <2>3. ~(\E e \in Exporters : WorkerExport(e) \/ Export(e))
    BY DEF WorkerExport, Export
  <2>4. ~(Configure \/ RefreshDaily \/ RefreshLatest \/ Compare)
    BY DEF Configure, RefreshDaily, RefreshLatest, Compare
  <2>5. ~(StartRound \/ Exported \/ ListFiles \/ ReadWant \/ CheckDaily \/ NextRound)
    BY DEF StartRound, Exported, ListFiles, ReadWant, CheckDaily, NextRound
  <2>6. ~(ConfigureError \/ RefreshError \/ CompareFails \/ RoundFails)
    BY <1>1 DEF IInv, ReportInv, Progress, Running, ConfigureError, RefreshError,
                CompareFails, RoundFails, Fail
  <2>7. Finish
    BY <1>1, <2>1, <2>2, <2>3, <2>4, <2>5, <2>6 DEF Next, Verify
  <2> QED BY <1>1, <2>7, FinishSound
<1> QED BY DeliveryInductive, <1>1, PTL DEF Spec, DeliveryFresh

\* A verification that was not asked to refresh and export leaves the reports alone, and
\* the marts, too, which only an earlier refresh may still replace.
THEOREM ReadsOnly == Spec => ReadOnlyUnlessRequested
<1>1. ASSUME IInv, [Next]_vars
      PROVE  [Running /\ ~options.mutate =>
                /\ UNCHANGED folder
                /\ late' \subseteq late
                /\ late' = late => UNCHANGED mart]_vars
  <2> SUFFICES ASSUME Running, ~options.mutate
               PROVE  /\ UNCHANGED folder
                      /\ late' \subseteq late
                      /\ late' = late => UNCHANGED mart
    OBVIOUS
  <2>1. vpc \notin {"refresh_daily", "refresh_latest", "export", "exporting"}
    BY <1>1 DEF IInv, ReportInv, Progress
  <2>2. \A e \in Exporters : ~Exporting(e)
    BY <1>1, <2>1 DEF IInv, Exclusive
  <2>3. CASE LateRefresh
    <3>1. PICK t \in late : late' = late \ {t}
      BY <2>3 DEF LateRefresh
    <3>2. UNCHANGED folder
      BY <2>3 DEF LateRefresh
    <3> QED BY <3>1, <3>2
  <2>4. CASE \E e \in Exporters : WorkerExport(e) \/ Export(e)
    <3>1. ~(\E e \in Exporters : Export(e))
      BY <2>2 DEF Export, ExportStep, ReadMart, Lookup, Write, ExportError, Exporting
    <3> QED BY <2>4, <3>1 DEF WorkerExport, StartExport
  <2>5. ~(RefreshDaily \/ RefreshLatest \/ RefreshError \/ Start)
    BY <2>1 DEF RefreshDaily, RefreshLatest, RefreshError, Start, Nobody
  <2>6. CASE \/ SilverChanges \/ Configure \/ ConfigureError \/ Compare \/ CompareFails
             \/ StartRound \/ Exported \/ ListFiles \/ ReadWant \/ CheckDaily
             \/ NextRound \/ Finish \/ RoundFails \/ UNCHANGED vars
    BY <2>6
    DEF SilverChanges, Configure, ConfigureError, Compare, CompareFails, StartRound,
        StartExport, Exported, ListFiles, ReadWant, CheckDaily, NextRound, Finish,
        RoundFails, delivery, vars
  <2> QED BY <1>1, <2>3, <2>4, <2>5, <2>6 DEF Next, Verify
<1> QED BY DeliveryInductive, <1>1, PTL DEF Spec, ReadOnlyUnlessRequested

=============================================================================
