----------------------------- MODULE MCParallel -----------------------------
(***************************************************************************)
(* Small instances of the parallel executor: a backup from standby with    *)
(* two clients on the standby, whose caller may throw on a job error or    *)
(* record it; and archive-get or archive-push with one client, which       *)
(* record errors.                                                          *)
(***************************************************************************)
EXTENDS Parallel

CONSTANTS j1, j2, j3

\* The jobs may be exchanged: it is enough to begin with the queues in which
\* they are in order
Ordered ==
    LET order == <<j1, j2, j3>>
    IN  \A i, k \in DOMAIN order, p, q \in QueueIdx :
            i < k /\ order[i] \in queue[p] /\ order[k] \in queue[q] => p <= q

\* Both queues of the standby hold files: its clients meet in either of them
Shared == queue[1] # {} /\ queue[2] # {}

SharedInit == Init /\ Ordered /\ Shared

SharedSpec == SharedInit /\ [][Next]_vars /\ Fairness
=============================================================================
