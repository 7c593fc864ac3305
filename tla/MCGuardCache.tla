---------------------------- MODULE MCGuardCache ----------------------------
(* An instance of GuardCache for TLC.                                        *)
EXTENDS GuardCache, TLC

OneHome == [q \in Req |-> "p1"]
=============================================================================
