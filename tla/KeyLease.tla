------------------------------ MODULE KeyLease ------------------------------
(***************************************************************************)
(* What the job table promises about an idempotency key, without workers,  *)
(* messages or stages: a key is free or it is held by one job, only a job  *)
(* made for that key can hold it, and a key passes from one job to another *)
(* only by being freed in between.                                         *)
(***************************************************************************)
CONSTANTS Calls, Keys, KeyOf, Free

VARIABLE holder

Init == holder = [k \in Keys |-> Free]

Acquire(r) ==
    /\ holder[KeyOf[r]] = Free
    /\ holder' = [holder EXCEPT ![KeyOf[r]] = r]

Release(k) ==
    /\ holder[k] # Free
    /\ holder' = [holder EXCEPT ![k] = Free]

Next == (\E r \in Calls : Acquire(r)) \/ (\E k \in Keys : Release(k))

Spec == Init /\ [][Next]_holder
=============================================================================
