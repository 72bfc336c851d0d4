------------------------------- MODULE JobLock -------------------------------
(***************************************************************************)
(* What the lock of src/joblock.ts promises to the jobs that run under it. *)
(* A job begins only while nobody holds the lock, and then holds it until  *)
(* it ends or the transaction that holds it for the job reaches its limit. *)
(* A job that has outlived its lock goes on, perhaps beside the next       *)
(* holder, and takes nothing from that one when it ends.                   *)
(***************************************************************************)
CONSTANTS
    Job,
    Nobody

VARIABLES
    holder,     \* the job the lock is held for
    running     \* the jobs that have begun and not ended

Init == holder = Nobody /\ running = {}

Begin(j) ==
    /\ holder = Nobody /\ j \notin running
    /\ holder' = j
    /\ running' = running \union {j}

Expire ==
    /\ holder \in running
    /\ holder' = Nobody
    /\ UNCHANGED running

\* The jobs of one process end together when it dies.
End(S) ==
    /\ running' = running \ S
    /\ holder' = IF holder \in S THEN Nobody ELSE holder

Next ==
    \/ \E j \in Job : Begin(j)
    \/ Expire
    \/ \E S \in SUBSET running : End(S)

Spec == Init /\ [][Next]_<<holder, running>>
===============================================================================
