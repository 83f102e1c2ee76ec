----------------------------- MODULE MCCommands -----------------------------
(***************************************************************************)
(* What every command rests on, each part on instances of its own: the     *)
(* lock files that keep commands apart, calls of the functions that keep   *)
(* no state, and the memory contexts.  A behaviour is one of the part      *)
(* chosen at first.                                                        *)
(***************************************************************************)
EXTENDS Lock, MCFunctions

CONSTANTS p1, p2, p3, Parts

VARIABLE part

vars == <<part, lockVars, call, memVars>>

-----------------------------------------------------------------------------
(* Locks *)

SameSize == p1 :> 1 @@ p2 :> 1 @@ p3 :> 1
\* a command, its remote on the same host, and another command
SameHost == [kind |-> p1 :> "main" @@ p2 :> "remote" @@ p3 :> "main",
            main |-> p1 :> p1 @@ p2 :> p1 @@ p3 :> p3,
            lockType |-> p1 :> <<"backup">> @@ p2 :> <<"backup">> @@ p3 :> <<"archive", "backup">>,
            pidSize |-> SameSize, openRace |-> FALSE, maxCrash |-> 2, maxTerm |-> 0, startGiven |-> FALSE]
\* a probe instead of the other command, and the code's own race
Probes == [SameHost EXCEPT !.kind[p3] = "probe", !.lockType[p3] = <<"backup">>,
                          !.openRace = TRUE, !.maxCrash = 0, !.maxTerm = 1, !.startGiven = TRUE]
\* archive-get, stanza-delete and a probe
Deletes == [SameHost EXCEPT !.kind = p1 :> "get" @@ p2 :> "delete" @@ p3 :> "probe",
                           !.main[p2] = p2, !.lockType[p1] = <<"archive">>,
                           !.lockType[p2] = <<"archive", "backup">>, !.lockType[p3] = <<"archive">>,
                           !.maxCrash = 0]
LockSituations == {SameHost, Probes, Deletes}
\* three commands that take the same lock
ThreeMains == {[Probes EXCEPT !.kind[p2] = "main", !.kind[p3] = "main", !.main[p2] = p2,
                              !.maxTerm = 0, !.startGiven = FALSE]}

-----------------------------------------------------------------------------
\* The part that does not run stays in one initial state
Init ==
    /\ part \in Parts
    /\ LockInit
    /\ part # "lock" => lockCase = CHOOSE c \in LockCases : TRUE
    /\ CallInit
    /\ MemInit

Locking(A) == part = "lock" /\ A /\ UNCHANGED <<part, lockCase, call, memVars>>
Calling(A) == part = "call" /\ A /\ UNCHANGED <<part, lockVars, memVars>>
Remembering(A) == part = "mem" /\ A /\ UNCHANGED <<part, lockVars, call>>

Next == Locking(LockNext) \/ Calling(Calls) \/ Remembering(Memory)

Spec == Init /\ [][Next]_vars
=============================================================================
