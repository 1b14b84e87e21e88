--------------------------- MODULE MCFirestoreRepo --------------------------
(* FirestoreRepo with two clients that use the record of one file. *)
EXTENDS FirestoreRepo

CONSTANTS c1, c2, f1, n1

MCClients == {c1, c2}
MCFiles == {f1}
MCPaths == {n1}
MCChecksums == 1..2

=============================================================================
