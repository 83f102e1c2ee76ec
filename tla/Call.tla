-------------------------------- MODULE Call --------------------------------
(***************************************************************************)
(* Functions of the program that compute a result and keep no state.  A    *)
(* state is either no call or one call with its argument; when the call    *)
(* returns, the argument and the result are related to a reference         *)
(* definition.  The modules that extend this one translate the functions.  *)
(***************************************************************************)
EXTENDS Naturals

VARIABLE call

NoCall == [fn |-> "none"]

CallInit == call = NoCall

\* The function of this name is called with one of Args
Call(fn, Args) ==
    /\ call.fn = "none"
    /\ \E a \in Args : call' = [fn |-> fn, arg |-> a]

Return ==
    /\ call.fn # "none"
    /\ call' = NoCall

\* If this step is the return of fn, P relates its argument and its result
Returns(fn, F(_), P(_, _)) == Return /\ call.fn = fn => P(call.arg, F(call.arg))

\* The value of a function that throws
Throw(error) == [error |-> error]
Value(v) == [ok |-> v]
Threw(r) == "error" \in DOMAIN r
=============================================================================
