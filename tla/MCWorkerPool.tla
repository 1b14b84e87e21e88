---------------------------- MODULE MCWorkerPool ----------------------------
(* WorkerPool on two workers, a channel of one and two attempts. *)
EXTENDS WorkerPool

CONSTANTS w1, w2, m1, p1, p2

MCWorkers == {w1, w2}
MCMarkdown == {m1}
MCFiles == {m1, p1, p2}

\* Two files still fill the channel while one is unsent.
MCFewFiles == {m1, p1}

=============================================================================
