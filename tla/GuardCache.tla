----------------------------- MODULE GuardCache -----------------------------
(***************************************************************************)
(* The guard inside every application process (src/src/guard) against the   *)
(* runner's acquireWaitMs: a lock row that changes, one lock-state cache    *)
(* per process with a TTL and a shared in-flight read, and requests that    *)
(* pass the guard and reach the table some time later.                      *)
(*                                                                          *)
(* All clocks run alike; durations are in ticks.  Only the holder of the    *)
(* lock writes here (MigrationRunner asks when that is so); its own calls   *)
(* bypass the guard (runUnguarded) and are not requests.                    *)
(***************************************************************************)
EXTENDS Integers

CONSTANTS Proc, Req,
          Home,         \* Home[q]: the process that issues request q
          Reads,        \* the requests that are read commands
          WritesOnly,   \* guard.blockMode = 'writes-only'
          CacheTtl,     \* guard.cacheTtlMs
          AcquireWait,  \* lock.acquireWaitMs
          ReplyTime,    \* longest time from the read of the row to its reply
          SendTime,     \* longest time from the guard's decision to the table
          MaxTime       \* bound of the clock

ASSUME HomeAssumption == Home \in [Req -> Proc] /\ Reads \subseteq Req

ASSUME TimesAssumption ==
    /\ CacheTtl \in Nat /\ AcquireWait \in Nat
    /\ ReplyTime \in Nat /\ SendTime \in Nat /\ MaxTime \in Nat

\* validateConfigInvariants, the timing rule of README 5.3.
TimingInvariant == CacheTtl < AcquireWait

ASSUME ConfigAssumption == TimingInvariant

State == INSTANCE MigrationState
           WITH Run <- {}, Mig <- {}, NoRun <- "none", NoMig <- "none"

VARIABLES now,
          lock,       \* lockState of the row
          runner,     \* where the holder of the lock stands
          acquiredAt, \* when it acquired
          turned,     \* history: when the row last began or ceased to gate
          cache,      \* cache[p]: the value of p and its cachedAt
          fetch,      \* fetch[p]: the pending read of p, shared by its callers
          req         \* req[q]: where request q stands, and when it was let pass

lockVars  == <<lock, runner, acquiredAt, turned>>
guardVars == <<cache, fetch, req>>
vars      == <<now, lock, runner, acquiredAt, turned, cache, fetch, req>>

Time   == 0 .. MaxTime
Cached == [value : State!LockState \cup {"unread"}, at : Time]
Fetch  == [pc : {"none", "sent", "read"}, value : State!LockState, at : Time]
Call   == [pc : {"idle", "awaiting", "passed"}, at : Time]

NoFetch == [pc |-> "none", value |-> "free", at |-> 0]
NoCall  == [pc |-> "idle", at |-> 0]

TypeOK ==
    /\ now \in Time
    /\ lock \in State!LockState
    /\ runner \in {"none", "waiting", "writing", "between"}
    /\ acquiredAt \in Time /\ turned \in Time
    /\ cache \in [Proc -> Cached]
    /\ fetch \in [Proc -> Fetch]
    /\ req \in [Req -> Call]

Init ==
    /\ now = 0 /\ lock = "free" /\ runner = "none" /\ acquiredAt = 0 /\ turned = 0
    /\ cache = [p \in Proc |-> [value |-> "unread", at |-> 0]]
    /\ fetch = [p \in Proc |-> NoFetch]
    /\ req = [q \in Req |-> NoCall]

Gates(s) == s \in State!Gating

-----------------------------------------------------------------------------
(* The lock row.                                                             *)

Turn(s) ==
    /\ lock' = s
    /\ turned' = IF Gates(s) = Gates(lock) THEN turned ELSE now

\* From free, over a dead runner, or (rollback) from release and failed.
Acquire(mode) ==
    /\ \/ lock = "free"
       \/ lock \in State!Working /\ runner = "none"
       \/ mode = "rollback" /\ lock \in {"release", "failed"}
    /\ Turn(mode)
    /\ runner' = "waiting"
    /\ acquiredAt' = now
    /\ UNCHANGED <<now, guardVars>>

\* Mutant: LCK-04 is dropped.
BeginWritingAtOnce ==
    /\ runner = "waiting"
    /\ runner' = "writing"
    /\ UNCHANGED <<now, lock, acquiredAt, turned, guardVars>>

BeginWriting ==
    /\ runner = "waiting" /\ now >= acquiredAt + AcquireWait
    /\ runner' = "writing"
    /\ UNCHANGED <<now, lock, acquiredAt, turned, guardVars>>

\* transitionToReleaseMode or clearFinalizeMode; a batch may go on.
Settle ==
    /\ runner = "writing"
    /\ Turn(IF lock = "finalize" THEN "free" ELSE "release")
    /\ \/ runner' = "none"
       \/ lock = "apply" /\ runner' = "between"
    /\ UNCHANGED <<now, acquiredAt, guardVars>>

\* transitionReleaseToApply: the next migration of a batch does not wait.
Reenter ==
    /\ runner = "between" /\ lock = "release"
    /\ Turn("apply")
    /\ runner' = "writing"
    /\ UNCHANGED <<now, acquiredAt, guardVars>>

\* markFailed, by the runner or by unlock.
Fail ==
    /\ lock \in State!Working
    /\ Turn("failed")
    /\ runner' = "none"
    /\ UNCHANGED <<now, acquiredAt, guardVars>>

Die ==
    /\ runner # "none"
    /\ runner' = "none"
    /\ UNCHANGED <<now, lock, acquiredAt, turned, guardVars>>

\* `release`, or `unlock` of a lock that is not working.
Free ==
    /\ lock \in {"release", "failed"}
    /\ Turn("free")
    /\ runner' = "none"
    /\ UNCHANGED <<now, acquiredAt, guardVars>>

-----------------------------------------------------------------------------
(* The guard: wrapClient's middleware over createLockStateCache.             *)

\* Mutant: <= for <.
FreshLate(p) == cache[p].value # "unread" /\ now - cache[p].at <= CacheTtl

Fresh(p) == cache[p].value # "unread" /\ now - cache[p].at < CacheTtl

Exempt(q) == WritesOnly /\ q \in Reads

\* GRD-05: a read command goes through without a look at the lock.
PassRead(q) ==
    /\ req[q].pc = "idle" /\ Exempt(q)
    /\ req' = [req EXCEPT ![q] = [pc |-> "passed", at |-> now]]
    /\ UNCHANGED <<now, lockVars, cache, fetch>>

\* The middleware on a value: the request goes on, or is rejected.
Decided(s) == IF Gates(s) THEN NoCall ELSE [pc |-> "passed", at |-> now]

GetCached(q) ==
    /\ req[q].pc = "idle" /\ ~Exempt(q) /\ Fresh(Home[q])
    /\ req' = [req EXCEPT ![q] = Decided(cache[Home[q]].value)]
    /\ UNCHANGED <<now, lockVars, cache, fetch>>

\* The first caller starts the read, the others share it.
GetPending(q) ==
    /\ req[q].pc = "idle" /\ ~Exempt(q) /\ ~Fresh(Home[q])
    /\ req' = [req EXCEPT ![q].pc = "awaiting"]
    /\ fetch' = [fetch EXCEPT ![Home[q]].pc = IF @ = "none" THEN "sent" ELSE @]
    /\ UNCHANGED <<now, lockVars, cache>>

\* Mutant: nothing stands in for a row that is not there yet.
RowStateRaw == IF lock = "free" THEN "unread" ELSE lock

\* fetchLockState: a missing row reads as "free".
RowState == lock

\* The strongly consistent read takes place in the table.
ReadRow(p) ==
    /\ fetch[p].pc = "sent"
    /\ fetch' = [fetch EXCEPT ![p] = [pc |-> "read", value |-> RowState, at |-> now]]
    /\ UNCHANGED <<now, lockVars, cache, req>>

\* The callers of p that await its read.
Waiting(p) == {q \in Req : Home[q] = p /\ req[q].pc = "awaiting"}

\* Mutant: only one of the callers is answered.
WakesOne(p) == {CHOOSE q \in Waiting(p) : TRUE}

Wakes(p) == Waiting(p)

\* The reply: cachedAt is the time of the reply, not of the read.
Reply(p) ==
    /\ fetch[p].pc = "read"
    /\ cache' = [cache EXCEPT ![p] = [value |-> fetch[p].value, at |-> now]]
    /\ fetch' = [fetch EXCEPT ![p] = NoFetch]
    /\ req' = [q \in Req |-> IF q \in Wakes(p) THEN Decided(fetch[p].value) ELSE req[q]]
    /\ UNCHANGED <<now, lockVars>>

\* GRD-06: every caller is rejected, and the next one reads again.
FetchFails(p) ==
    /\ fetch[p].pc # "none"
    /\ fetch' = [fetch EXCEPT ![p] = NoFetch]
    /\ req' = [q \in Req |-> IF q \in Wakes(p) THEN NoCall ELSE req[q]]
    /\ UNCHANGED <<now, lockVars, cache>>

\* The request has reached the table.
Arrive(q) ==
    /\ req[q].pc = "passed"
    /\ req' = [req EXCEPT ![q] = NoCall]
    /\ UNCHANGED <<now, lockVars, cache, fetch>>

-----------------------------------------------------------------------------
Tick ==
    /\ now < MaxTime
    /\ \A p \in Proc : fetch[p].pc = "read" => now < fetch[p].at + ReplyTime
    /\ \A q \in Req : req[q].pc = "passed" => now < req[q].at + SendTime
    /\ now' = now + 1
    /\ UNCHANGED <<lockVars, guardVars>>

LockNext ==
    \/ \E mode \in {"apply", "rollback", "finalize"} : Acquire(mode)
    \/ BeginWriting \/ Settle \/ Reenter \/ Fail \/ Die \/ Free

GuardNext ==
    \/ \E p \in Proc : ReadRow(p) \/ Reply(p) \/ FetchFails(p)
    \/ \E q \in Req : PassRead(q) \/ GetCached(q) \/ GetPending(q) \/ Arrive(q)

Next == LockNext \/ GuardNext \/ Tick

Spec == Init /\ [][Next]_vars

\* The table executes the read, and its reply or its error arrives.
FairSpec == Spec /\ \A p \in Proc : WF_vars(ReadRow(p)) /\ WF_vars(Reply(p) \/ FetchFails(p))

-----------------------------------------------------------------------------
(* What the configuration has to leave room for: the age of a cached value   *)
(* counts from the reply, and a request travels after the decision.          *)
Headroom ==
    /\ CacheTtl + ReplyTime + SendTime <= AcquireWait
    /\ ReplyTime + SendTime < AcquireWait

\* While apply or rollback writes records, no guarded request of the
\* application is under way to the table (README 5.3).
NoTrafficWhileWriting ==
    runner = "writing" /\ Gates(lock) =>
        \A q \in Req : req[q].pc = "passed" => Exempt(q)

\* A value served from the cache gates as the row does, once the row has been
\* as it is for a TTL and a reply: rejections end, too, when the lock is freed.
GuardCatchesUp ==
    \A p \in Proc :
        Fresh(p) /\ now >= turned + CacheTtl + ReplyTime
            => Gates(cache[p].value) = Gates(lock)

\* Every caller of get() is answered, the ones that share a read included,
\* whether that read succeeds or fails (GRD-03, GRD-06).
CallersAnswered == \A q \in Req : req[q].pc = "awaiting" ~> req[q].pc # "awaiting"

=============================================================================
