------------------------------ MODULE MCBackup ------------------------------
(* A small instance of Backup for TLC. *)
EXTENDS Backup, TLC

CONSTANTS r1, r2, b1, b2, b3

MCOn == b1 :> r1 @@ b2 :> r1 @@ b3 :> r2

\* Two backups that overlap on one replica; one on each of two replicas; one beside a twin.
MCSettings ==
    {[backups |-> {b1, b2}, twin |-> FALSE, failures |-> 1, overlaps |-> 2, restarts |-> 0],
     [backups |-> {b1, b3}, twin |-> FALSE, failures |-> 0, overlaps |-> 0, restarts |-> 2],
     [backups |-> {b1}, twin |-> TRUE, failures |-> 1, overlaps |-> 2, restarts |-> 1]}
=============================================================================
