------------------------------- MODULE Mutex -------------------------------
(***************************************************************************)
(* What a lock promises: at any time one process owns it, or none does,    *)
(* and it changes hands only through its owner.  The promise ends when a   *)
(* process that may be using the lock stops: the lock is broken.           *)
(***************************************************************************)
CONSTANTS Procs, Free
VARIABLES owner, broken

Init == owner = Free /\ broken = FALSE

Acquire(p) == /\ owner = Free
              /\ owner' = p
              /\ broken' = FALSE

Release(p) == /\ owner = p
              /\ owner' = Free
              /\ broken' = FALSE

\* Nothing is promised of the owner any more.
Break == broken' = TRUE

Next == \/ ~broken /\ \E p \in Procs : Acquire(p) \/ Release(p)
        \/ Break

Spec == Init /\ [][Next]_<<owner, broken>>
=============================================================================
