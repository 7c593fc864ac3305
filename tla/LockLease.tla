----------------------------- MODULE LockLease -----------------------------
(***************************************************************************)
(* What the migration lock promises, without saying how it is kept: one     *)
(* owner at a time, a run owns at most once and never comes back, only the  *)
(* owner settles its own run, and an owner is displaced only when it has    *)
(* settled or its lease has expired.                                        *)
(***************************************************************************)
CONSTANTS Run, NoRun

VARIABLES owner,    \* the run holding the lock, or NoRun
          expired,  \* the owner has not been heard of for too long
          outcome   \* outcome[r]: what is on record for run r

leaseVars == <<owner, expired, outcome>>

Settled(r) == outcome[r] \in {"completed", "failed"}

LeaseInit ==
    /\ owner = NoRun
    /\ expired = FALSE
    /\ outcome = [r \in Run |-> "none"]

Take(r) ==
    /\ outcome[r] = "none"
    /\ owner = NoRun \/ expired \/ Settled(owner)
    /\ owner' = r
    /\ expired' = FALSE
    /\ outcome' = [outcome EXCEPT ![r] = "running"]

Settle(r) ==
    /\ owner = r
    /\ \E o \in {"completed", "failed"} : outcome' = [outcome EXCEPT ![r] = o]
    /\ owner' = owner
    /\ expired' = FALSE

\* The owner beats, or goes silent.
Beat == owner # NoRun /\ expired' \in BOOLEAN /\ UNCHANGED <<owner, outcome>>

Give == owner # NoRun /\ owner' = NoRun /\ expired' = FALSE /\ UNCHANGED outcome

LeaseNext == Beat \/ Give \/ \E r \in Run : Take(r) \/ Settle(r)

LeaseSpec == LeaseInit /\ [][LeaseNext]_leaseVars

=============================================================================
