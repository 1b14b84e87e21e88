----------------------------- MODULE RunContract ----------------------------
(***************************************************************************)
(* What cmd/worker/main.go relies on when it calls etl.Run: no workers, no  *)
(* channel, no Load Jobs. Run picks the pending files once, gives each of   *)
(* them at most one outcome in any order, and returns a verdict that is     *)
(* consistent with these outcomes. WorkerPool implements this module.       *)
(***************************************************************************)
EXTENDS Naturals

CONSTANT Files

VARIABLES
    phase,      \* "idle", "running", "returned"
    todo,       \* the files this run has to process
    status,     \* status[f]: sync_status in the state store
    cancelled,  \* the context is done
    failures,   \* something went wrong with at least one file
    result      \* what Run returns

vars == <<phase, todo, status, cancelled, failures, result>>

Init ==
    /\ phase = "idle"
    /\ todo = {}
    /\ status \in [Files -> {"pending", "done", "failed"}]
    /\ cancelled \in BOOLEAN
    /\ failures = FALSE
    /\ result = "none"

\* Nothing is started and no status is touched.
Refuse ==
    /\ phase = "idle"
    /\ phase' = "returned" /\ result' = "startup"
    /\ UNCHANGED <<todo, status, cancelled, failures>>

Start ==
    /\ phase = "idle"
    /\ phase' = "running"
    /\ todo' = {f \in Files : status[f] = "pending"}
    /\ UNCHANGED <<status, cancelled, failures, result>>

\* Something went wrong with a file that has no outcome yet.
Trouble ==
    /\ phase = "running"
    /\ \E f \in todo : status[f] = "pending"
    /\ failures' = TRUE
    /\ UNCHANGED <<phase, todo, status, cancelled, result>>

\* A file gets its only outcome; it is "failed" only after trouble.
Settle(f) ==
    /\ phase = "running"
    /\ f \in todo /\ status[f] = "pending"
    /\ \E s \in {"done", "failed"} :
        /\ status' = [status EXCEPT ![f] = s]
        /\ s = "failed" => failures
    /\ failures' \in BOOLEAN /\ (failures => failures')
    /\ UNCHANGED <<phase, todo, cancelled, result>>

Cancel ==
    /\ phase # "returned"
    /\ cancelled' = TRUE
    /\ UNCHANGED <<phase, todo, status, failures, result>>

\* nil promises that every file of the run is done; without a cancellation
\* anything else is reported as a failure.
Return ==
    /\ phase = "running"
    /\ phase' = "returned"
    /\ \/ cancelled /\ result' = "cancelled"
       \/ ~cancelled /\ failures /\ result' = "failed"
       \/ /\ ~cancelled /\ ~failures
          /\ \A f \in todo : status[f] = "done"
          /\ result' = "ok"
    /\ UNCHANGED <<todo, status, cancelled, failures>>

Next == Refuse \/ Start \/ Trouble \/ Cancel \/ Return \/ \E f \in Files : Settle(f)

Spec == Init /\ [][Next]_vars /\ <>(phase = "returned")

=============================================================================
