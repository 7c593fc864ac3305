----------------------------- MODULE GateClaims -----------------------------
(***************************************************************************)
(* What the README says of migrations that read other entities, and the     *)
(* code does not do.  Every property here is refuted by a run of its own.   *)
(***************************************************************************)
EXTENDS ReadsGate

\* "On-disk snapshot fingerprint # imported entity fingerprint" (README 6.6.5) is
\* when a read is refused as stale.  The writers of snapshots put `sha256:`
\* before the fingerprint and buildCtx compares it with one that has none.
StaleMeansStale ==
    \A i \in Pending : \A y \in Stale(i) : Shape(snapshot[y].of) # Shape(source[y].model)

\* History: <<i, j>> when j was applied while i stood applied.
VARIABLE since

ClaimInit == GateInit /\ since = {}

ClaimNext ==
    /\ GateNext
    /\ since' = since \cup {p \in Folder \X Folder : Applying(p[2]) /\ status[p[1]] \in Settled}

ClaimSpec == ClaimInit /\ [][ClaimNext]_<<vars, gateVars, since>>

\* "Rolling back `M` is refused if any migration on a `reads` target has been
\* applied since `M`" (README 6.6.2).  The gate compares the versions of two
\* entities, which count independently.
RollbackRespectsReads ==
    [][\A i \in Folder :
          (status[i] \in Settled /\ status'[i] = "reverted" /\ ~PreRelease(i)) =>
              \A j \in Folder : <<i, j>> \in since =>
                  ~(folders[j].entity \in Reads[folders[i].entity] /\ status[j] \in Settled)
      ]_<<vars, gateVars, since>>

=============================================================================
