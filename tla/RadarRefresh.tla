------------------------------ MODULE RadarRefresh ------------------------------
(***************************************************************************)
(* Automatic refresh of radar products: RadarProductManager::EnableRefresh  *)
(* and the ProviderManager objects it switches on and off.                  *)
(*                                                                          *)
(* Map widgets and overlay views, each known by a UUID, subscribe to a      *)
(* product from the GUI thread (Main).  Level 2 subscribes to two provider  *)
(* managers at once (archive files and chunks) in the calling thread; a     *)
(* Level 3 enable is posted to threadPool_ (Workers), a Level 3 disable     *)
(* runs in the calling thread.  Every provider manager has a pool of its    *)
(* own, on which refreshes and timer handlers run.                          *)
(*                                                                          *)
(* The length of the timer's wait and the objects a refresh lists are left  *)
(* out: no transition below depends on them.                                *)
(***************************************************************************)
EXTENDS Integers, Sequences, FiniteSets

CONSTANTS
    Uuids,        \* subscribers
    Level2,       \* the provider managers of Level 2: archive and chunks
    Level3,       \* the provider managers of Level 3, one per product
    Main,         \* the GUI thread
    Workers,      \* the threads of threadPool_
    PoolThreads,  \* the number of threads of a providerThreadPool_
    MaxPosted,    \* bound: tasks waiting in threadPool_
    MaxJobs       \* bound: jobs of a kind waiting in one providerThreadPool_

ASSUME RefreshAssumption ==
    /\ IsFiniteSet(Uuids)
    /\ Main \notin Workers
    /\ Level2 \cap Level3 = {}
    /\ PoolThreads \in Nat \ {0}
    /\ MaxPosted \in Nat /\ MaxJobs \in Nat

ProviderManagers == Level2 \cup Level3
Threads == {Main} \cup Workers

VARIABLES
    refreshMap,      \* UUID -> the provider managers it subscribes to
    refreshCount,    \* ProviderManager::refreshCount_
    refreshEnabled,  \* ProviderManager::refreshEnabled_
    timer,           \* a wait is pending on refreshTimer_
    fired,           \* expired waits whose handlers are queued
    jobs,            \* queued calls of RefreshDataSync
    running,         \* calls of RefreshDataSync inside provider_->Refresh()
    failed,          \* history: a refresh threw since refresh was last started
    posted,          \* Level 3 enable tasks queued in threadPool_
    call             \* thread -> the EnableRefresh call it executes

registry == <<refreshMap, refreshCount>>
pool     == <<fired, jobs, running, failed>>
vars     == <<refreshMap, refreshCount, refreshEnabled, timer, fired, jobs,
              running, failed, posted, call>>

(* Where a thread is in EnableRefresh: "request" in a posted task, before   *)
(* the refresh map is locked; after the unlock, with the provider managers  *)
(* of todo still to visit, "check" before refreshEnabled_ is read, "set"    *)
(* before it is written, "start" before RefreshData is called, for pm.      *)
Idle == [pc |-> "idle", todo |-> {}]

Calls ==
    {Idle}
      \cup [pc : {"request"}, todo : {{}}, uuid : Uuids, pm : Level3]
      \cup [pc : {"check"}, todo : SUBSET ProviderManagers]
      \cup [pc : {"set", "start"}, todo : SUBSET ProviderManagers,
            pm : ProviderManagers]

TypeOK ==
    /\ refreshMap \in [Uuids -> SUBSET ProviderManagers]
    /\ refreshCount \in [ProviderManagers -> Int]
    /\ refreshEnabled \in [ProviderManagers -> BOOLEAN]
    /\ timer \in [ProviderManagers -> BOOLEAN]
    /\ fired \in [ProviderManagers -> Nat]
    /\ jobs \in [ProviderManagers -> Nat]
    /\ running \in [ProviderManagers -> 0 .. PoolThreads]
    /\ failed \in [ProviderManagers -> BOOLEAN]
    /\ posted \in Seq(Uuids \X Level3)
    /\ call \in [Threads -> Calls]

Init ==
    /\ refreshMap = [u \in Uuids |-> {}]
    /\ refreshCount = [p \in ProviderManagers |-> 0]
    /\ refreshEnabled = [p \in ProviderManagers |-> FALSE]
    /\ timer = [p \in ProviderManagers |-> FALSE]
    /\ fired = [p \in ProviderManagers |-> 0]
    /\ jobs = [p \in ProviderManagers |-> 0]
    /\ running = [p \in ProviderManagers |-> 0]
    /\ failed = [p \in ProviderManagers |-> FALSE]
    /\ posted = <<>>
    /\ call = [t \in Threads |-> Idle]

----------------------------------------------------------------------------
(* RadarProductManagerImpl::EnableRefresh, up to the unlock                 *)

(* Mutant of Recount: u does not give back what it held.                    *)
RecountWithoutRelease(u, pms) ==
    [p \in ProviderManagers |->
        refreshCount[p] + (IF p \in pms THEN 1 ELSE 0)]

(* The subscribers of p after u's subscriptions become pms.                 *)
Recount(u, pms) ==
    [p \in ProviderManagers |->
        refreshCount[p]
          - (IF p \in refreshMap[u] THEN 1 ELSE 0)
          + (IF p \in pms THEN 1 ELSE 0)]

(* Mutant of Released: other subscribers are not asked about.               *)
ReleasedTooEarly(u, pms) == refreshMap[u] \ pms

(* The provider managers the call disables: u was their last subscriber     *)
(* and does not keep them.                                                  *)
Released(u, pms) ==
    {p \in refreshMap[u] \ pms : refreshCount[p] - 1 = 0}

(* ProviderManager::Disable, for every member of pms, under the timer mutex *)
DisableAll(pms) ==
    /\ refreshEnabled' = [p \in ProviderManagers |->
                             p \notin pms /\ refreshEnabled[p]]
    /\ timer' = [p \in ProviderManagers |-> p \notin pms /\ timer[p]]

(* The section under refreshMapMutex_, Disable calls included: u's entry    *)
(* becomes pms, the provider managers it enables, none when it disables.    *)
UpdateRegistry(t, u, pms) ==
    /\ refreshMap' = [refreshMap EXCEPT ![u] = pms]
    /\ refreshCount' = Recount(u, pms)
    /\ DisableAll(Released(u, pms))
    /\ call' = [call EXCEPT ![t] = IF pms = {} THEN Idle
                                   ELSE [pc |-> "check", todo |-> pms]]
    /\ UNCHANGED pool

----------------------------------------------------------------------------
(* RadarProductManager::EnableRefresh, called on the GUI thread.            *)

EnableLevel2(u) ==
    /\ call[Main] = Idle
    /\ UpdateRegistry(Main, u, Level2)
    /\ UNCHANGED posted

(* Level 2 or Level 3: a disable empties the entry whatever it holds.       *)
Disable(u) ==
    /\ call[Main] = Idle
    /\ UpdateRegistry(Main, u, {})
    /\ UNCHANGED posted

PostEnableLevel3(u, p) ==
    /\ call[Main] = Idle
    /\ Len(posted) < MaxPosted
    /\ posted' = Append(posted, <<u, p>>)
    /\ UNCHANGED <<registry, refreshEnabled, timer, pool, call>>

(* A worker takes the oldest task and asks for the available products.      *)
TakeTask(w) ==
    /\ call[w] = Idle
    /\ posted # <<>>
    /\ posted' = Tail(posted)
    /\ call' = [call EXCEPT ![w] = [pc |-> "request", todo |-> {},
                                    uuid |-> Head(posted)[1],
                                    pm |-> Head(posted)[2]]]
    /\ UNCHANGED <<registry, refreshEnabled, timer, pool>>

ProductAvailable(w) ==
    /\ call[w].pc = "request"
    /\ UpdateRegistry(w, call[w].uuid, {call[w].pm})
    /\ UNCHANGED posted

(* The product is not available, or asking for the products threw.          *)
ProductNotAvailable(w) ==
    /\ call[w].pc = "request"
    /\ call' = [call EXCEPT ![w] = Idle]
    /\ UNCHANGED <<registry, refreshEnabled, timer, pool, posted>>

----------------------------------------------------------------------------
(* RadarProductManagerImpl::EnableRefresh, after the unlock: refreshEnabled_ *)
(* is read, and written, without a lock.                                    *)

(* The next provider manager of the loop after p.                           *)
Advance(t, p) ==
    LET rest == call[t].todo \ {p}
    IN  call' = [call EXCEPT ![t] = IF rest = {} THEN Idle
                                    ELSE [pc |-> "check", todo |-> rest]]

CheckEnabled(t, p) ==
    /\ call[t].pc = "check"
    /\ p \in call[t].todo
    /\ IF refreshEnabled[p]
       THEN Advance(t, p)
       ELSE call' = [call EXCEPT ![t] = [pc |-> "set", todo |-> call[t].todo,
                                         pm |-> p]]
    /\ UNCHANGED <<registry, refreshEnabled, timer, pool, posted>>

SetEnabled(t) ==
    /\ call[t].pc = "set"
    /\ refreshEnabled' = [refreshEnabled EXCEPT ![call[t].pm] = TRUE]
    /\ call' = [call EXCEPT ![t].pc = "start"]
    /\ UNCHANGED <<registry, timer, pool, posted>>

(* Mutant of RefreshData: the timer is cancelled, nothing is posted.        *)
RefreshDataCancelOnly(p) ==
    /\ timer' = [timer EXCEPT ![p] = FALSE]
    /\ UNCHANGED jobs

(* ProviderManager::RefreshData: the timer is cancelled under its mutex,    *)
(* then RefreshDataSync is posted.  Posting a job commutes with every step  *)
(* that could come between, so the two are one step.                        *)
RefreshData(p) ==
    /\ jobs[p] < MaxJobs
    /\ timer' = [timer EXCEPT ![p] = FALSE]
    /\ jobs' = [jobs EXCEPT ![p] = @ + 1]

StartRefresh(t) ==
    /\ call[t].pc = "start"
    /\ RefreshData(call[t].pm)
    /\ failed' = [failed EXCEPT ![call[t].pm] = FALSE]
    /\ Advance(t, call[t].pm)
    /\ UNCHANGED <<registry, refreshEnabled, fired, running, posted>>

----------------------------------------------------------------------------
(* A provider manager's pool.                                               *)

(* The wait expires: its handler is queued, and cancel() comes too late.    *)
TimerExpires(p) ==
    /\ timer[p]
    /\ fired[p] < MaxJobs
    /\ timer' = [timer EXCEPT ![p] = FALSE]
    /\ fired' = [fired EXCEPT ![p] = @ + 1]
    /\ UNCHANGED <<registry, refreshEnabled, jobs, running, failed, posted, call>>

TimerHandler(p) ==
    /\ fired[p] > 0
    /\ running[p] < PoolThreads
    /\ fired' = [fired EXCEPT ![p] = @ - 1]
    /\ RefreshData(p)
    /\ UNCHANGED <<registry, refreshEnabled, running, failed, posted, call>>

(* Mutant of BeginRefresh: the pool has as many threads as jobs.            *)
BeginRefreshUnbounded(p) ==
    /\ jobs[p] > 0
    /\ jobs' = [jobs EXCEPT ![p] = @ - 1]
    /\ running' = [running EXCEPT ![p] = @ + 1]
    /\ UNCHANGED <<registry, refreshEnabled, timer, fired, failed, posted, call>>

BeginRefresh(p) ==
    /\ jobs[p] > 0
    /\ running[p] < PoolThreads
    /\ jobs' = [jobs EXCEPT ![p] = @ - 1]
    /\ running' = [running EXCEPT ![p] = @ + 1]
    /\ UNCHANGED <<registry, refreshEnabled, timer, fired, failed, posted, call>>

(* Mutant of ScheduleNext: it does not ask whether refresh is still enabled. *)
ScheduleNextUnconditionally(p) ==
    /\ running[p] > 0
    /\ running' = [running EXCEPT ![p] = @ - 1]
    /\ timer' = [timer EXCEPT ![p] = TRUE]
    /\ UNCHANGED <<registry, refreshEnabled, fired, jobs, failed, posted, call>>

(* provider_->Refresh() has returned: under the timer mutex, the next       *)
(* refresh is scheduled if refresh is still enabled.  expires_after cancels *)
(* an earlier wait, so at most one is pending.                              *)
ScheduleNext(p) ==
    /\ running[p] > 0
    /\ running' = [running EXCEPT ![p] = @ - 1]
    /\ timer' = [timer EXCEPT ![p] = @ \/ refreshEnabled[p]]
    /\ UNCHANGED <<registry, refreshEnabled, fired, jobs, failed, posted, call>>

(* The refresh throws: the exception is logged, nothing is scheduled.       *)
RefreshThrows(p) ==
    /\ running[p] > 0
    /\ running' = [running EXCEPT ![p] = @ - 1]
    /\ failed' = [failed EXCEPT ![p] = TRUE]
    /\ UNCHANGED <<registry, refreshEnabled, timer, fired, jobs, posted, call>>

----------------------------------------------------------------------------
Request ==
    \E u \in Uuids :
       \/ EnableLevel2(u)
       \/ Disable(u)
       \/ \E p \in Level3 : PostEnableLevel3(u, p)

CallStep(t) ==
    \/ ProductAvailable(t)
    \/ ProductNotAvailable(t)
    \/ \E p \in ProviderManagers : CheckEnabled(t, p)
    \/ SetEnabled(t)
    \/ StartRefresh(t)

PoolStep(p) ==
    TimerHandler(p) \/ BeginRefresh(p) \/ ScheduleNext(p)

Next ==
    \/ Request
    \/ \E w \in Workers : TakeTask(w)
    \/ \E t \in Threads : CallStep(t)
    \/ \E p \in ProviderManagers :
          PoolStep(p) \/ TimerExpires(p) \/ RefreshThrows(p)

(* Threads run what they have begun, pools take their queued jobs, a        *)
(* refresh returns and a timer expires.  No request is ever owed.           *)
Fairness ==
    /\ \A t \in Threads : WF_vars(CallStep(t))
    /\ \A w \in Workers : WF_vars(TakeTask(w))
    /\ \A p \in ProviderManagers :
          /\ WF_vars(TimerExpires(p))
          /\ WF_vars(TimerHandler(p))
          /\ WF_vars(BeginRefresh(p))
          /\ WF_vars(ScheduleNext(p) \/ RefreshThrows(p))

Spec == Init /\ [][Next]_vars /\ Fairness

----------------------------------------------------------------------------
Subscribers(p) == {u \in Uuids : p \in refreshMap[u]}

(* p's refreshes go on: one is running or queued, or the timer will bring   *)
(* the next.                                                                *)
Alive(p) == running[p] > 0 \/ jobs[p] > 0 \/ fired[p] > 0 \/ timer[p]

(* A call past its registry section has p still before it.                  *)
BeingEnabled(p) ==
    \E t \in Threads : call[t].pc \in {"check", "set", "start"} /\ p \in call[t].todo

(* The reference count that decides on Disable is the number of UUIDs whose *)
(* entry in the refresh map holds the provider manager, whatever calls have *)
(* run, for whichever products, in whatever order.                          *)
RefreshCountExact ==
    \A p \in ProviderManagers : refreshCount[p] = Cardinality(Subscribers(p))

(* No wait stays pending on a disabled provider manager: Disable and the    *)
(* scheduling at the end of RefreshDataSync exclude each other, so a        *)
(* refresh that was in flight when refresh was disabled cannot re-arm.      *)
TimerOnlyWhileEnabled ==
    \A p \in ProviderManagers : timer[p] => refreshEnabled[p]

(* A product somebody subscribes to is never silently dropped: unless a     *)
(* refresh threw, it is enabled and its chain of refreshes is alive, or a   *)
(* call that will see to it has not finished -- although the flag is set    *)
(* outside the registry lock, and cancelled waits start nothing.            *)
NoLostRefresh ==
    \A p \in ProviderManagers :
        Subscribers(p) # {} /\ ~failed[p] =>
            (refreshEnabled[p] /\ Alive(p)) \/ BeingEnabled(p)

(* A subscribed product is refreshed again and again, unless a refresh     *)
(* throws: the chain refresh, timer, handler, refresh does not stall.       *)
RefreshGoesOn ==
    \A p \in ProviderManagers :
        []<>(Subscribers(p) = {} \/ failed[p] \/ running[p] > 0)

(* Once refresh of p stays disabled, its pool falls silent: handlers and    *)
(* jobs that were queued drain and start nothing new.                       *)
DisabledFallsSilent ==
    \A p \in ProviderManagers :
        <>[](~refreshEnabled[p]) => <>[](~Alive(p))

(* The documentation of EnableRefresh: when a UUID goes over to another     *)
(* product, refresh of the first is disabled unless another UUID holds it.  *)
(* Stated at rest: with no call in progress, an unsubscribed provider       *)
(* manager is not enabled.                                                  *)
UnsubscribedIsDisabled ==
    (\A t \in Threads : call[t] = Idle) =>
        \A p \in ProviderManagers : Subscribers(p) = {} => ~refreshEnabled[p]

=============================================================================
