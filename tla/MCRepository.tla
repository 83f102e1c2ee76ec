---------------------------- MODULE MCRepository ----------------------------
(***************************************************************************)
(* Two parts, each on instances of its own: the backups of a stanza in a   *)
(* repository, and the stanza commands.  A behaviour is one of the part    *)
(* chosen at first.                                                        *)
(***************************************************************************)
EXTENDS BackupRepo, Stanza

CONSTANT Parts

VARIABLE part

vars == <<part, repoVars, stanzaVars>>

\* by count, with the options for diff and history
Count == [retention |-> {[full |-> 1, time |-> FALSE, diff |-> 1, history |-> 1]},
          adhoc |-> FALSE, types |-> {"full", "diff", "incr"}, until |-> 3, faults |-> 1]
\* by time, without them
Time == [retention |-> {[full |-> 1, time |-> TRUE, diff |-> 0, history |-> T + 1]},
         adhoc |-> FALSE, types |-> {"full", "incr"}, until |-> 4, faults |-> 1]
\* expire --set
Adhoc == [retention |-> {[NoRetention EXCEPT !.history = 1]},
          adhoc |-> TRUE, types |-> {"full", "incr"}, until |-> 2, faults |-> 1]
\* backup.info is lost when its copy was not written yet
Stale == [Count EXCEPT !.types = {"full", "incr"}, !.until = 2, !.faults = 2]
RetentionCases == {Count, Time, Adhoc, Stale}
OnlyCount == {[Count EXCEPT !.faults = 0]}

\* The cluster that is there at first is one, the others may be exchanged
Others == Permutations(Cluster \ {CHOOSE p \in Cluster : TRUE})

\* The parts that do not run stay in one initial state
Init ==
    /\ part \in Parts
    /\ RepoInit
    /\ part # "repo" => repoCase = CHOOSE c \in RepoCases : TRUE
    /\ StanzaInit

\* A stanza may be left alone for good
Next ==
    \/ part = "repo" /\ RepoNext /\ UNCHANGED <<part, stanzaVars>>
    \/ part = "stanza" /\ (StanzaNext \/ UNCHANGED stanzaVars) /\ UNCHANGED <<part, repoVars>>

Spec == Init /\ [][Next]_vars
=============================================================================
