--------------------------- MODULE IdempotentCall ---------------------------
(***************************************************************************)
(* What calls with an idempotency key promise their callers, whatever it   *)
(* takes to keep it: under one key one thing happens, once and for good,   *)
(* and no call is told of anything but what happened under its key.        *)
(* RunStart implements it with claims that are taken over after a while,   *)
(* OperationRun with rows that may be run again.                           *)
(***************************************************************************)
CONSTANTS
    Null,
    Requests,  \* the calls
    Keys,
    KeyOf,     \* the key of a call; a call without one is promised nothing
    Results    \* what may happen under a key

VARIABLES
    result,    \* what happened under each key, or Null
    told       \* what each call was told of it, or Null

vars == <<result, told>>

Init ==
    /\ result = [k \in Keys |-> Null]
    /\ told = [r \in Requests |-> Null]

Happens(k, e) ==
    /\ result[k] = Null
    /\ result' = [result EXCEPT ![k] = e]

\* A call is told once, of what has happened by then.
Tells(r) ==
    /\ KeyOf[r] \in Keys /\ told[r] = Null
    /\ result'[KeyOf[r]] # Null
    /\ told' = [told EXCEPT ![r] = result'[KeyOf[r]]]

Next ==
    \/ \E k \in Keys, e \in Results : Happens(k, e) /\ UNCHANGED told
    \/ \E r \in Requests :
          /\ UNCHANGED result \/ \E e \in Results : Happens(KeyOf[r], e)
          /\ Tells(r)

Spec == Init /\ [][Next]_vars
=============================================================================
