------------------------------- MODULE JobPool -------------------------------
(***************************************************************************)
(* What the parallel executor promises its callers: every job is handed    *)
(* out once and fetched once, and the run ends normally only when every    *)
(* job has been fetched.  How many workers there are, in which order they  *)
(* finish and what becomes of them is invisible here.                      *)
(***************************************************************************)
CONSTANT Jobs

VARIABLES
    status,  \* progress of each job
    phase    \* "run", "end" (all jobs fetched) or "failed" (an error thrown)

vars == <<status, phase>>

Init ==
    /\ status = [j \in Jobs |-> "waiting"]
    /\ phase = "run"

\* A waiting job is handed to a worker
Give ==
    /\ phase = "run"
    /\ \E j \in Jobs :
         /\ status[j] = "waiting"
         /\ status' = [status EXCEPT ![j] = "given"]
    /\ UNCHANGED phase

\* The caller fetches a job that was handed out, and may throw on its error
Fetch ==
    /\ phase = "run"
    /\ \E j \in Jobs :
         /\ status[j] = "given"
         /\ status' = [status EXCEPT ![j] = "fetched"]
    /\ phase' \in {"run", "failed"}

Fail ==
    /\ phase = "run"
    /\ phase' = "failed"
    /\ UNCHANGED status

End ==
    /\ phase = "run"
    /\ \A j \in Jobs : status[j] = "fetched"
    /\ phase' = "end"
    /\ UNCHANGED status

Next == Give \/ Fetch \/ Fail \/ End

Spec == Init /\ [][Next]_vars
=============================================================================
