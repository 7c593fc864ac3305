-------------------------- MODULE GuardCacheProofs --------------------------
(***************************************************************************)
(* What GuardCache guarantees, for every set of processes and requests and  *)
(* every choice of the durations.  The argument dates everything from       *)
(* `turned`, the moment the row last began or ceased to gate: a value that  *)
(* disagrees with the row was read by then, so it was cached at most a      *)
(* reply later, served less than a TTL after that, and what it let through  *)
(* is in the table at most a SendTime later.                                *)
(***************************************************************************)
EXTENDS GuardCache, TLAPS

\* A pending read that disagrees with the row was executed before it turned.
FetchTruth(p) ==
    fetch[p].pc = "read" =>
        /\ fetch[p].at <= now /\ now <= fetch[p].at + ReplyTime
        /\ Gates(fetch[p].value) # Gates(lock) => fetch[p].at <= turned

\* A cached value that disagrees with it is at most a reply younger than that.
CacheTruth(p) ==
    cache[p].value # "unread" =>
        /\ cache[p].at <= now
        /\ Gates(cache[p].value) # Gates(lock) => cache[p].at <= turned + ReplyTime

\* What was let pass under a gating row was let pass by such a value.
CallTruth(q) ==
    req[q].pc = "passed" =>
        /\ req[q].at <= now /\ now <= req[q].at + SendTime
        /\ ~Exempt(q) /\ Gates(lock) =>
              \/ req[q].at < turned + ReplyTime + CacheTtl
              \/ req[q].at <= turned + ReplyTime

\* A runner that writes under a gating row has waited since the row turned.
WaitTruth ==
    /\ turned <= now /\ acquiredAt <= now
    /\ runner = "waiting" /\ Gates(lock) => turned <= acquiredAt
    /\ runner \in {"writing", "between"} /\ Gates(lock) => turned + AcquireWait <= now

GuardInv ==
    /\ TypeOK
    /\ WaitTruth
    /\ \A p \in Proc : FetchTruth(p) /\ CacheTruth(p)
    /\ \A q \in Req : CallTruth(q)

-----------------------------------------------------------------------------

LEMMA GatesFacts == Gates("apply") /\ Gates("release") /\ Gates("failed") /\ ~Gates("free")
  BY DEF Gates, State!Gating

LEMMA StatesFacts ==
    /\ {"free", "apply", "rollback", "finalize", "release", "failed"} \subseteq State!LockState
    /\ "unread" \notin State!LockState
  BY DEF State!LockState

LEMMA InitGuardInv == Init => GuardInv
  BY TimesAssumption, StatesFacts
  DEF Init, GuardInv, TypeOK, WaitTruth, FetchTruth, CacheTruth, CallTruth,
      Time, Cached, Fetch, Call, NoFetch, NoCall

\* A change of the row alone keeps what is known of the guard's side.
LEMMA TurnKeeps ==
    ASSUME TypeOK, WaitTruth,
           \A p \in Proc : FetchTruth(p) /\ CacheTruth(p),
           \A q \in Req : CallTruth(q),
           NEW s \in State!LockState, Turn(s), UNCHANGED <<now, guardVars>>
    PROVE  /\ lock' \in State!LockState /\ turned' \in Time /\ turned' <= now
           /\ \A p \in Proc : FetchTruth(p)' /\ CacheTruth(p)'
           /\ \A q \in Req : CallTruth(q)'
  <1>1. (turned' = turned /\ Gates(lock') = Gates(lock)) \/ turned' = now
    BY DEF Turn
  <1>2. lock' \in State!LockState /\ turned' \in Time /\ turned' <= now
    BY <1>1, TimesAssumption DEF Turn, TypeOK, WaitTruth, Time
  <1>3. ASSUME NEW p \in Proc PROVE FetchTruth(p)' /\ CacheTruth(p)'
    <2>1. cache[p].at \in Nat /\ fetch[p].at \in Nat /\ now \in Nat /\ turned \in Nat
      BY TimesAssumption DEF TypeOK, Time, Cached, Fetch
    <2> QED BY <1>1, <2>1, TimesAssumption DEF FetchTruth, CacheTruth, guardVars
  <1>4. ASSUME NEW q \in Req PROVE CallTruth(q)'
    <2>1. req[q].at \in Nat /\ now \in Nat /\ turned \in Nat
      BY TimesAssumption DEF TypeOK, Time, Call
    <2> QED BY <1>1, <2>1, TimesAssumption DEF CallTruth, Exempt, guardVars
  <1> QED BY <1>2, <1>3, <1>4

\* The row's steps.
LEMMA LockStep == GuardInv /\ LockNext => GuardInv'
  <1> SUFFICES ASSUME GuardInv, LockNext PROVE GuardInv' OBVIOUS
  <1> USE DEF GuardInv
  <1>t. now \in Nat /\ turned \in Nat /\ acquiredAt \in Nat
    BY TimesAssumption DEF TypeOK, Time
  <1>1. ASSUME NEW mode \in {"apply", "rollback", "finalize"}, Acquire(mode) PROVE GuardInv'
    <2>1. mode \in State!LockState BY StatesFacts
    <2>2. UNCHANGED <<now, guardVars>> /\ Turn(mode) BY <1>1 DEF Acquire
    <2>3. WaitTruth' BY <1>1, <1>t, <2>1, <2>2, TurnKeeps DEF Acquire, WaitTruth
    <2> QED BY <1>1, <2>1, <2>2, <2>3, TurnKeeps DEF Acquire, TypeOK, guardVars
  <1>2. CASE BeginWriting
    <2>1. WaitTruth' BY <1>2, <1>t, TimesAssumption DEF BeginWriting, WaitTruth
    <2> QED BY <1>2, <2>1 DEF BeginWriting, TypeOK, FetchTruth, CacheTruth, CallTruth, Exempt,
                              guardVars
  <1>3. CASE Settle
    <2> DEFINE s == IF lock = "finalize" THEN "free" ELSE "release"
    <2>1. s \in State!LockState BY StatesFacts
    <2>2. UNCHANGED <<now, guardVars>> /\ Turn(s) BY <1>3 DEF Settle
    <2>3. CASE runner' = "none"
      <3>1. WaitTruth' BY <1>3, <1>t, <2>1, <2>2, <2>3, TurnKeeps DEF Settle, WaitTruth
      <3> QED BY <1>3, <2>1, <2>2, <2>3, <3>1, TurnKeeps DEF Settle, TypeOK, guardVars
    <2>4. CASE lock = "apply" /\ runner' = "between"
      <3>1. turned' = turned BY <1>3, <2>4, GatesFacts DEF Settle, Turn
      <3>2. WaitTruth' BY <1>3, <1>t, <2>1, <2>2, <2>4, <3>1, GatesFacts DEF Settle, WaitTruth
      <3> QED BY <1>3, <2>1, <2>2, <2>4, <3>2, TurnKeeps DEF Settle, TypeOK, guardVars
    <2> QED BY <1>3, <2>3, <2>4 DEF Settle
  <1>4. CASE Reenter
    <2>1. "apply" \in State!LockState BY StatesFacts
    <2>2. UNCHANGED <<now, guardVars>> /\ Turn("apply") BY <1>4 DEF Reenter
    <2>3. turned' = turned BY <1>4, GatesFacts DEF Reenter, Turn
    <2>4. WaitTruth' BY <1>4, <1>t, <2>1, <2>2, <2>3, GatesFacts DEF Reenter, WaitTruth
    <2> QED BY <1>4, <2>1, <2>2, <2>4, TurnKeeps DEF Reenter, TypeOK, guardVars
  <1>5. CASE Fail
    <2>1. "failed" \in State!LockState BY StatesFacts
    <2>2. UNCHANGED <<now, guardVars>> /\ Turn("failed") BY <1>5 DEF Fail
    <2>3. WaitTruth' BY <1>5, <1>t, <2>1, <2>2, TurnKeeps DEF Fail, WaitTruth
    <2> QED BY <1>5, <2>1, <2>2, <2>3, TurnKeeps DEF Fail, TypeOK, guardVars
  <1>6. CASE Die
    <2>1. WaitTruth' BY <1>6 DEF Die, WaitTruth
    <2> QED BY <1>6, <2>1 DEF Die, TypeOK, FetchTruth, CacheTruth, CallTruth, Exempt, guardVars
  <1>7. CASE Free
    <2>1. "free" \in State!LockState BY StatesFacts
    <2>2. UNCHANGED <<now, guardVars>> /\ Turn("free") BY <1>7 DEF Free
    <2>3. WaitTruth' BY <1>7, <1>t, <2>1, <2>2, TurnKeeps DEF Free, WaitTruth
    <2> QED BY <1>7, <2>1, <2>2, <2>3, TurnKeeps DEF Free, TypeOK, guardVars
  <1> QED BY <1>1, <1>2, <1>3, <1>4, <1>5, <1>6, <1>7 DEF LockNext


\* The guard's steps: the row is not touched.
LEMMA GuardStep == GuardInv /\ GuardNext => GuardInv'
  <1> SUFFICES ASSUME GuardInv, GuardNext PROVE GuardInv' OBVIOUS
  <1> USE DEF GuardInv
  <1>t. now \in Nat /\ turned \in Nat /\ now \in Time
    BY TimesAssumption DEF TypeOK, Time
  <1>w. ASSUME UNCHANGED <<now, lockVars>> PROVE WaitTruth'
    BY <1>w DEF WaitTruth, lockVars
  <1>1. ASSUME NEW p \in Proc, ReadRow(p) PROVE GuardInv'
    <2>1. TypeOK' BY <1>1, <1>t DEF ReadRow, RowState, TypeOK, lockVars, Fetch
    <2>2. ASSUME NEW o \in Proc PROVE FetchTruth(o)' /\ CacheTruth(o)'
      <3>1. CASE o = p
        <4>1. fetch'[o] = [pc |-> "read", value |-> lock, at |-> now]
          BY <1>1, <3>1 DEF ReadRow, RowState, TypeOK
        <4> QED BY <1>1, <1>t, <4>1, TimesAssumption DEF ReadRow, RowState, lockVars, FetchTruth, CacheTruth
      <3>2. CASE o # p
        BY <1>1, <3>2 DEF ReadRow, RowState, TypeOK, lockVars, FetchTruth, CacheTruth
      <3> QED BY <3>1, <3>2
    <2>3. \A q \in Req : CallTruth(q)' BY <1>1 DEF ReadRow, RowState, lockVars, CallTruth, Exempt
    <2> QED BY <1>1, <1>w, <2>1, <2>2, <2>3 DEF ReadRow, RowState
  <1>2. ASSUME NEW p \in Proc, Reply(p) PROVE GuardInv'
    <2> DEFINE v == fetch[p].value
    <2>1. /\ v \in State!LockState /\ fetch[p].at \in Nat
          /\ fetch[p].at <= now /\ now <= fetch[p].at + ReplyTime
          /\ Gates(v) # Gates(lock) => fetch[p].at <= turned
      BY <1>2, TimesAssumption DEF Reply, TypeOK, Fetch, Time, FetchTruth
    <2>2. Decided(v) \in Call BY <1>t, TimesAssumption DEF Decided, Call, NoCall, Time
    <2>3. NoFetch \in Fetch BY StatesFacts, TimesAssumption DEF NoFetch, Fetch, Time
    <2>4. TypeOK' BY <1>2, <1>t, <2>1, <2>2, <2>3 DEF Reply, TypeOK, lockVars, Cached
    <2>5. ASSUME NEW o \in Proc PROVE FetchTruth(o)' /\ CacheTruth(o)'
      <3>1. CASE o = p
        <4>1. fetch'[o] = NoFetch /\ cache'[o] = [value |-> v, at |-> now]
          BY <1>2, <3>1 DEF Reply, TypeOK
        <4>2. FetchTruth(o)' BY <4>1 DEF FetchTruth, NoFetch
        <4>3. CacheTruth(o)'
          BY <1>2, <1>t, <2>1, <4>1, TimesAssumption DEF Reply, lockVars, CacheTruth
        <4> QED BY <4>2, <4>3
      <3>2. CASE o # p
        BY <1>2, <3>2 DEF Reply, TypeOK, lockVars, FetchTruth, CacheTruth
      <3> QED BY <3>1, <3>2
    <2>6. ASSUME NEW q \in Req PROVE CallTruth(q)'
      <3>1. CASE q \in Wakes(p)
        <4>1. req'[q] = Decided(v) BY <1>2, <3>1 DEF Reply
        <4>2. CASE Gates(v) BY <4>1, <4>2 DEF Decided, NoCall, CallTruth
        <4>3. CASE ~Gates(v)
          <5>1. req'[q] = [pc |-> "passed", at |-> now] BY <4>1, <4>3 DEF Decided
          <5>2. Gates(lock) => now <= turned + ReplyTime
            BY <1>t, <2>1, <4>3, TimesAssumption DEF Gates
          <5> QED BY <1>2, <1>t, <5>1, <5>2, TimesAssumption DEF Reply, lockVars, CallTruth, Exempt
        <4> QED BY <4>2, <4>3
      <3>2. CASE q \notin Wakes(p)
        <4>1. req'[q] = req[q] BY <1>2, <3>2 DEF Reply
        <4> QED BY <1>2, <4>1 DEF Reply, lockVars, CallTruth, Exempt
      <3> QED BY <3>1, <3>2
    <2> QED BY <1>2, <1>w, <2>4, <2>5, <2>6 DEF Reply
  <1>3. ASSUME NEW p \in Proc, FetchFails(p) PROVE GuardInv'
    <2>1. NoFetch \in Fetch /\ NoCall \in Call
      BY StatesFacts, TimesAssumption DEF NoFetch, NoCall, Fetch, Call, Time
    <2>2. TypeOK' BY <1>3, <2>1 DEF FetchFails, TypeOK, lockVars
    <2>3. ASSUME NEW o \in Proc PROVE FetchTruth(o)' /\ CacheTruth(o)'
      <3>1. fetch'[o] = NoFetch \/ fetch'[o] = fetch[o] BY <1>3 DEF FetchFails, TypeOK
      <3> QED BY <1>3, <3>1 DEF FetchFails, lockVars, FetchTruth, CacheTruth, NoFetch
    <2>4. ASSUME NEW q \in Req PROVE CallTruth(q)'
      <3>1. req'[q] = NoCall \/ req'[q] = req[q] BY <1>3 DEF FetchFails
      <3> QED BY <1>3, <3>1 DEF FetchFails, lockVars, CallTruth, Exempt, NoCall
    <2> QED BY <1>3, <1>w, <2>2, <2>3, <2>4 DEF FetchFails
  <1>4. ASSUME NEW q \in Req, PassRead(q) PROVE GuardInv'
    <2>1. TypeOK' BY <1>4, <1>t DEF PassRead, TypeOK, lockVars, Call
    <2>2. \A p \in Proc : FetchTruth(p)' /\ CacheTruth(p)'
      BY <1>4 DEF PassRead, lockVars, FetchTruth, CacheTruth
    <2>3. ASSUME NEW r \in Req PROVE CallTruth(r)'
      <3>1. CASE r = q
        <4>1. req'[r] = [pc |-> "passed", at |-> now] /\ Exempt(r)'
          BY <1>4, <3>1 DEF PassRead, TypeOK, Exempt
        <4> QED BY <1>4, <1>t, <4>1, TimesAssumption DEF PassRead, CallTruth
      <3>2. CASE r # q
        <4>1. req'[r] = req[r] BY <1>4, <3>2 DEF PassRead, TypeOK
        <4> QED BY <1>4, <4>1 DEF PassRead, lockVars, CallTruth, Exempt
      <3> QED BY <3>1, <3>2
    <2> QED BY <1>4, <1>w, <2>1, <2>2, <2>3 DEF PassRead
  <1>5. ASSUME NEW q \in Req, GetCached(q) PROVE GuardInv'
    <2> DEFINE p == Home[q]
               v == cache[p].value
    <2>1. p \in Proc BY HomeAssumption
    <2>2. /\ v \in State!LockState /\ cache[p].at \in Nat /\ now - cache[p].at < CacheTtl
          /\ Gates(v) # Gates(lock) => cache[p].at <= turned + ReplyTime
      BY <1>5, <2>1, TimesAssumption DEF GetCached, Fresh, TypeOK, Cached, Time, CacheTruth
    <2>3. Decided(v) \in Call BY <1>t, TimesAssumption DEF Decided, Call, NoCall, Time
    <2>4. TypeOK' BY <1>5, <2>3 DEF GetCached, TypeOK, lockVars
    <2>5. \A o \in Proc : FetchTruth(o)' /\ CacheTruth(o)'
      BY <1>5 DEF GetCached, lockVars, FetchTruth, CacheTruth
    <2>6. ASSUME NEW r \in Req PROVE CallTruth(r)'
      <3>1. CASE r = q
        <4>1. req'[r] = Decided(v) BY <1>5, <3>1 DEF GetCached, TypeOK
        <4>2. CASE Gates(v) BY <4>1, <4>2 DEF Decided, NoCall, CallTruth
        <4>3. CASE ~Gates(v)
          <5>1. req'[r] = [pc |-> "passed", at |-> now] BY <4>1, <4>3 DEF Decided
          <5>2. Gates(lock) => now < turned + ReplyTime + CacheTtl
            BY <1>t, <2>2, <4>3, TimesAssumption DEF Gates
          <5> QED BY <1>5, <1>t, <5>1, <5>2, TimesAssumption
                  DEF GetCached, lockVars, CallTruth, Exempt
        <4> QED BY <4>2, <4>3
      <3>2. CASE r # q
        <4>1. req'[r] = req[r] BY <1>5, <3>2 DEF GetCached, TypeOK
        <4> QED BY <1>5, <4>1 DEF GetCached, lockVars, CallTruth, Exempt
      <3> QED BY <3>1, <3>2
    <2> QED BY <1>5, <1>w, <2>4, <2>5, <2>6 DEF GetCached
  <1>6. ASSUME NEW q \in Req, GetPending(q) PROVE GuardInv'
    <2>1. \A r \in Req : req'[r] \in Call /\ (req'[r] = req[r] \/ req'[r].pc = "awaiting")
      BY <1>6 DEF GetPending, TypeOK, Call
    <2>2. \A p \in Proc : fetch'[p] \in Fetch /\ (fetch'[p] = fetch[p] \/ fetch'[p].pc = "sent")
      BY <1>6, HomeAssumption DEF GetPending, TypeOK, Fetch
    <2>3. DOMAIN req' = Req /\ DOMAIN fetch' = Proc BY <1>6 DEF GetPending, TypeOK
    <2>4. req' \in [Req -> Call] /\ fetch' \in [Proc -> Fetch]
      <3>1. req' = [r \in Req |-> req'[r]] /\ fetch' = [p \in Proc |-> fetch'[p]]
        BY <1>6 DEF GetPending, TypeOK
      <3> QED BY <2>1, <2>2, <3>1
    <2>5. TypeOK' BY <1>6, <2>4 DEF GetPending, TypeOK, lockVars
    <2>6. \A p \in Proc : FetchTruth(p)' /\ CacheTruth(p)'
      BY <1>6, <2>2 DEF GetPending, lockVars, FetchTruth, CacheTruth
    <2>7. \A r \in Req : CallTruth(r)'
      BY <1>6, <2>1 DEF GetPending, lockVars, CallTruth, Exempt
    <2> QED BY <1>6, <1>w, <2>5, <2>6, <2>7 DEF GetPending
  <1>7. ASSUME NEW q \in Req, Arrive(q) PROVE GuardInv'
    <2>1. NoCall \in Call BY TimesAssumption DEF NoCall, Call, Time
    <2>2. TypeOK' BY <1>7, <2>1 DEF Arrive, TypeOK, lockVars
    <2>3. \A p \in Proc : FetchTruth(p)' /\ CacheTruth(p)'
      BY <1>7 DEF Arrive, lockVars, FetchTruth, CacheTruth
    <2>4. ASSUME NEW r \in Req PROVE CallTruth(r)'
      <3>1. req'[r] = NoCall \/ req'[r] = req[r] BY <1>7 DEF Arrive, TypeOK
      <3> QED BY <1>7, <3>1 DEF Arrive, lockVars, CallTruth, Exempt, NoCall
    <2> QED BY <1>7, <1>w, <2>2, <2>3, <2>4 DEF Arrive
  <1> QED BY <1>1, <1>2, <1>3, <1>4, <1>5, <1>6, <1>7 DEF GuardNext

\* Time passes only as far as replies and requests under way allow.
LEMMA TickStep == GuardInv /\ Tick => GuardInv'
  <1> SUFFICES ASSUME GuardInv, Tick PROVE GuardInv' OBVIOUS
  <1> USE DEF GuardInv
  <1>1. now \in Nat /\ turned \in Nat /\ acquiredAt \in Nat /\ now' = now + 1
    BY TimesAssumption DEF TypeOK, Time, Tick
  <1>2. TypeOK' BY <1>1, TimesAssumption DEF Tick, TypeOK, lockVars, guardVars, Time
  <1>3. WaitTruth' BY <1>1, TimesAssumption DEF Tick, WaitTruth, lockVars
  <1>4. ASSUME NEW p \in Proc PROVE FetchTruth(p)' /\ CacheTruth(p)'
    <2>1. fetch[p].at \in Nat /\ cache[p].at \in Nat
      BY TimesAssumption DEF TypeOK, Fetch, Cached, Time
    <2> QED BY <1>1, <2>1, TimesAssumption DEF Tick, lockVars, guardVars, FetchTruth, CacheTruth
  <1>5. ASSUME NEW q \in Req PROVE CallTruth(q)'
    <2>1. req[q].at \in Nat BY TimesAssumption DEF TypeOK, Call, Time
    <2> QED BY <1>1, <2>1, TimesAssumption DEF Tick, lockVars, guardVars, CallTruth, Exempt
  <1> QED BY <1>2, <1>3, <1>4, <1>5

\* The inductive invariant holds in every reachable state.
THEOREM GuardInvariant == Spec => []GuardInv
  <1>1. Init => GuardInv BY InitGuardInv
  <1>2. GuardInv /\ [Next]_vars => GuardInv'
    <2> SUFFICES ASSUME GuardInv, [Next]_vars PROVE GuardInv' OBVIOUS
    <2>1. CASE UNCHANGED vars
      BY <2>1 DEF vars, GuardInv, TypeOK, WaitTruth, FetchTruth, CacheTruth, CallTruth, Exempt
    <2>2. CASE Next BY <2>2, LockStep, GuardStep, TickStep DEF Next
    <2> QED BY <2>1, <2>2
  <1> QED BY <1>1, <1>2, PTL DEF Spec

\* With enough headroom between the TTL and acquireWaitMs, no guarded request
\* is on its way to the table while apply or rollback writes records.
THEOREM GuardHolds == ASSUME Headroom PROVE Spec => []NoTrafficWhileWriting
  <1>1. GuardInv => NoTrafficWhileWriting
    <2> SUFFICES ASSUME GuardInv, runner = "writing", Gates(lock),
                        NEW q \in Req, req[q].pc = "passed", ~Exempt(q)
                 PROVE  FALSE
      BY DEF NoTrafficWhileWriting
    <2>1. now \in Nat /\ turned \in Nat /\ req[q].at \in Nat
      BY TimesAssumption DEF GuardInv, TypeOK, Time, Call
    <2>2. turned + AcquireWait <= now /\ now <= req[q].at + SendTime
      BY DEF GuardInv, WaitTruth, CallTruth
    <2>3. req[q].at < turned + ReplyTime + CacheTtl \/ req[q].at <= turned + ReplyTime
      BY DEF GuardInv, CallTruth
    <2> QED BY <2>1, <2>2, <2>3, TimesAssumption DEF Headroom
  <1> QED BY <1>1, GuardInvariant, PTL

\* Every clock, cached value, fetch and request keeps its type: what the cache
\* of a process holds is a state of the row or nothing yet.
THEOREM GuardTypes == Spec => []TypeOK
  <1>1. GuardInv => TypeOK BY DEF GuardInv
  <1> QED BY <1>1, GuardInvariant, PTL

\* Whatever the durations, a fresh cache agrees with the row once the row has
\* been as it is for a TTL and a reply.
THEOREM CacheCatchesUp == Spec => []GuardCatchesUp
  <1>1. GuardInv => GuardCatchesUp
    <2> SUFFICES ASSUME GuardInv, NEW p \in Proc, Fresh(p),
                        now >= turned + CacheTtl + ReplyTime,
                        Gates(cache[p].value) # Gates(lock)
                 PROVE  FALSE
      BY DEF GuardCatchesUp, Gates
    <2>1. now \in Nat /\ turned \in Nat /\ cache[p].at \in Nat
      BY TimesAssumption DEF GuardInv, TypeOK, Time, Cached
    <2>2. cache[p].at <= turned + ReplyTime BY DEF GuardInv, CacheTruth, Fresh
    <2> QED BY <2>1, <2>2, TimesAssumption DEF Fresh
  <1> QED BY <1>1, GuardInvariant, PTL

=============================================================================
