------------------------------ MODULE MCBackup ------------------------------
(***************************************************************************)
(* Instances of Backup for TLC: the cluster writes while its files are     *)
(* copied, backups are killed and resumed, and files come from a standby.  *)
(***************************************************************************)
EXTENDS Backup

TwoFiles == <<"f", "g">>
\* a second backup refers to the first, or the first is resumed
Writing == [standby |-> FALSE, sizes |-> {0, 1}, writes |-> 2, kills |-> 0, backups |-> 2, until |-> 3]
Killed == [Writing EXCEPT !.kills = 1, !.backups = 1]
\* a backup that was resumed, and a second one
KilledOnce == [Writing EXCEPT !.sizes = {1}, !.kills = 1, !.writes = 1]
\* time for three backups, each of which resumes the last
KilledTwice == [Killed EXCEPT !.sizes = {1}, !.writes = 1, !.kills = 2, !.until = 4]
OnStandby == [KilledOnce EXCEPT !.standby = TRUE, !.backups = 1]
Copying == {Writing, Killed, KilledOnce, KilledTwice, OnStandby}
Resuming == {KilledTwice}
=============================================================================
