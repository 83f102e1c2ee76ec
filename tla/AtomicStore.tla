---------------------------- MODULE AtomicStore -----------------------------
(***************************************************************************)
(* What writing a file promises whichever driver stores it: the name leads *)
(* to all of one writer's file or to what was there before, never to       *)
(* something in between, and a write that returned is not lost.            *)
(***************************************************************************)
CONSTANTS
    Writer,         \* processes that write the same name
    First           \* what the name leads to at first

VARIABLES
    object,         \* whose file the name leads to
    put             \* per writer, what became of the write

storeVars == <<object, put>>

Returned == {w \in Writer : put[w] = "returned"}

StoreInit ==
    /\ object = First
    /\ put = [w \in Writer |-> "open"]

\* The file becomes visible.  This may happen again, when a request that was
\* served is sent again, and after the writer gave up waiting for the answer.
Store(w) ==
    /\ put[w] \in {"open", "stored", "failed"}
    /\ object' = w
    /\ put' = [put EXCEPT ![w] = IF @ = "open" THEN "stored" ELSE @]

Return(w) ==
    /\ put[w] = "stored"
    /\ put' = [put EXCEPT ![w] = "returned"]
    /\ UNCHANGED object

Fail(w) ==
    /\ put[w] \in {"open", "stored"}
    /\ put' = [put EXCEPT ![w] = "failed"]
    /\ UNCHANGED object

\* A crash ends writers and may take back what no writer has returned with
Revert ==
    /\ object \notin Returned
    /\ object' \in {v \in Writer : put[v] \in {"stored", "failed"}}
                    \cup (IF Returned = {} THEN {First} ELSE Returned)
    /\ \E ends \in SUBSET {w \in Writer : put[w] \in {"open", "stored"}} :
            put' = [w \in Writer |-> IF w \in ends THEN "failed" ELSE put[w]]

StoreNext == Revert \/ \E w \in Writer : Store(w) \/ Return(w) \/ Fail(w)

StoreSpec == StoreInit /\ [][StoreNext]_storeVars
=============================================================================
