----------------------------- MODULE Coalescing -----------------------------
(***************************************************************************)
(* What refreshing a module promises its callers (the comment on           *)
(* execModuleRuntime.refresh): requests coalesce, they are never dropped,  *)
(* and a module's refreshes do not overlap.  Only a module that has been   *)
(* stopped may leave a request unanswered.                                 *)
(***************************************************************************)
CONSTANT Modules

VARIABLES
    wanted,      \* a request came that no refresh has begun after
    running,     \* a refresh is being worked on
    stopped

cvars == <<wanted, running, stopped>>

CInit == /\ wanted \in [Modules -> BOOLEAN]
         /\ running = [m \in Modules |-> FALSE]
         /\ stopped \in [Modules -> BOOLEAN]

Request(m) ==
    /\ wanted' = [wanted EXCEPT ![m] = TRUE]
    /\ UNCHANGED <<running, stopped>>

\* A refresh that begins answers every request made so far.
Begin(m) ==
    /\ wanted[m] /\ ~running[m]
    /\ wanted' = [wanted EXCEPT ![m] = FALSE]
    /\ running' = [running EXCEPT ![m] = TRUE]
    /\ UNCHANGED stopped

Finish(m) ==
    /\ running[m]
    /\ running' = [running EXCEPT ![m] = FALSE]
    /\ UNCHANGED <<wanted, stopped>>

\* A module is stopped and the one that replaces it starts with a request.
Replace(m, n) ==
    /\ stopped[n]
    /\ stopped' = [stopped EXCEPT ![m] = TRUE, ![n] = FALSE]
    /\ wanted' = [wanted EXCEPT ![n] = TRUE]
    /\ UNCHANGED running

CNext ==
    \/ \E m \in Modules : Request(m) \/ Begin(m) \/ Finish(m)
    \/ \E m, n \in Modules : m # n /\ Replace(m, n)

CSafety == CInit /\ [][CNext]_cvars

\* No request of a module that is not stopped waits for ever.
CAnswered == []<>(\A m \in Modules : wanted[m] => stopped[m])

CSpec == CSafety /\ CAnswered
===============================================================================
