----------------------------- MODULE MCPipeline -----------------------------
(* Pipeline with one Markdown file, edited and renamed, over a few runs. *)
EXTENDS PipelineInvariant

CONSTANTS r1, r2, m1, d1, n1, n2, q1, q2

MCOneRun == {r1}
MCTwoRuns == {r1, r2}
MCMarkdown == {m1}
MCMixed == {m1, d1}
MCWorkspace == {d1}
MCPaths == {n1, n2}
MCOnePath == {n1}
MCContents == 1..3
MCTwoContents == 1..2
MCOnePolicy == {q1}
MCPolicies == {q1, q2}

\* Content 1 has one chunk, 2 has two, 3 is blank.
MCNumChunks == [c \in Checksums |-> IF c = 3 THEN 0 ELSE c]

\* Content 1 has two chunks, 2 is blank, 3 has one.
MCBlankBetween == [c \in Checksums |-> IF c = 1 THEN 2 ELSE IF c = 2 THEN 0 ELSE 1]

=============================================================================
