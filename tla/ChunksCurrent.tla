---------------------------- MODULE ChunksCurrent ---------------------------
(***************************************************************************)
(* The view etl_raw.chunks_current over the append-only table chunks         *)
(* (iac/bigquery.tf). A row is [file, version, index, at, deleted, name]:    *)
(* version stands for content_version (and the content of the chunk, which   *)
(* the version determines), at for ingested_at, name for document_name,      *)
(* policy for the dates of the sprint, which the content and the setting of  *)
(* RETRO_SPRINT_FROM_MONTH determine.                                        *)
(* Identical rows, which retries of a Load Job append, are one element.      *)
(***************************************************************************)
EXTENDS Integers

RowsOfFile(rows, f) == {r \in rows : r.file = f}

\* Faulty: DESC is missing from ORDER BY version_ingested_at.
LatestVersionFaulty(mine) ==
    (CHOOSE r \in mine : \A s \in mine :
        r.at < s.at \/ (r.at = s.at /\ r.version >= s.version)).version

\* latest_versions: the version that was ingested last, a tie broken by the
\* version itself. mine are the rows of one file, and not empty.
LatestVersion(mine) ==
    (CHOOSE r \in mine : \A s \in mine :
        r.at > s.at \/ (r.at = s.at /\ r.version >= s.version)).version

\* Faulty: of the rows of a chunk, the first one is kept.
LatestChunksFaulty(mine) ==
    LET rows == {r \in mine : r.version = LatestVersion(mine)}
    IN  {r \in rows : \A s \in rows : s.index = r.index => s.at >= r.at}

\* deduplicated_chunks, joined with latest_versions: per chunk of the latest
\* version, the row that was ingested last.
LatestChunks(mine) ==
    LET rows == {r \in mine : r.version = LatestVersion(mine)}
    IN  {r \in rows : \A s \in rows : s.index = r.index => s.at <= r.at}

\* The rows of f in the view: without tombstones.
Live(rows, f) == {r \in LatestChunks(RowsOfFile(rows, f)) : ~r.deleted}

\* What the view shows of f, and the settings its dates come from.
Shown(rows, f) ==
    {[index |-> r.index, version |-> r.version, name |-> r.name] : r \in Live(rows, f)}

ShownPolicies(rows, f) == {r.policy : r \in Live(rows, f)}

=============================================================================
