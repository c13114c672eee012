-------------------------- MODULE RadarRefresh_proofs --------------------------
(***************************************************************************)
(* Theorems about RadarRefresh, for any subscribers, provider managers,     *)
(* worker threads and bounds.                                               *)
(***************************************************************************)
EXTENDS RadarRefresh, FiniteSetTheorems, TLAPS

(* Subscribing u to pms changes the subscribers of a provider manager by u  *)
(* alone, and their number by what Recount adds and subtracts.              *)
LEMMA RecountLemma ==
    ASSUME NEW S \in SUBSET Uuids, NEW u \in Uuids
    PROVE  /\ Cardinality(S) \in Nat
           /\ Cardinality(S) = 0 <=> S = {}
           /\ Cardinality(S \cup {u}) =
                 Cardinality(S) - (IF u \in S THEN 1 ELSE 0) + 1
           /\ Cardinality(S \ {u}) =
                 Cardinality(S) - (IF u \in S THEN 1 ELSE 0)
<1>1. IsFiniteSet(S)
  BY RefreshAssumption, FS_Subset
<1>2. Cardinality(S) \in Nat /\ (Cardinality(S) = 0 <=> S = {})
  BY <1>1, FS_CardinalityType, FS_EmptySet
<1>3. Cardinality(S \cup {u}) =
         IF u \in S THEN Cardinality(S) ELSE Cardinality(S) + 1
  BY <1>1, FS_AddElement
<1>4. Cardinality(S \ {u}) =
         IF u \in S THEN Cardinality(S) - 1 ELSE Cardinality(S)
  BY <1>1, FS_RemoveElement
<1> QED
  BY <1>2, <1>3, <1>4

(* What TypeOK says of a thread, by the place it has reached.               *)
LEMMA CallTypes ==
    ASSUME TypeOK, NEW t \in Threads
    PROVE  /\ call[t].todo \in SUBSET ProviderManagers
           /\ call[t].pc = "request" => call[t].uuid \in Uuids /\ call[t].pm \in Level3
           /\ call[t].pc \in {"set", "start"} => call[t].pm \in ProviderManagers
<1>1. CASE call[t] = Idle
  BY <1>1 DEF Idle
<1>2. CASE call[t] \in [pc : {"request"}, todo : {{}}, uuid : Uuids, pm : Level3]
  BY <1>2
<1>3. CASE call[t] \in [pc : {"check"}, todo : SUBSET ProviderManagers]
  BY <1>3
<1>4. CASE call[t] \in [pc : {"set", "start"}, todo : SUBSET ProviderManagers,
                        pm : ProviderManagers]
  BY <1>4
<1> QED
  BY <1>1, <1>2, <1>3, <1>4 DEF TypeOK, Calls

----------------------------------------------------------------------------
LEMMA TypeOKInit == Init => TypeOK
BY RefreshAssumption DEF Init, TypeOK, Calls

LEMMA TypeOKInductive == TypeOK /\ [Next]_vars => TypeOK'
<1> SUFFICES ASSUME TypeOK, [Next]_vars
             PROVE  TypeOK'
  OBVIOUS
<1> USE DEF TypeOK
<1>1. Idle \in Calls /\ \A s \in SUBSET ProviderManagers :
                           [pc |-> "check", todo |-> s] \in Calls
  BY DEF Calls
<1>2. ASSUME NEW t \in Threads, NEW u \in Uuids,
             NEW pms \in SUBSET ProviderManagers,
             UpdateRegistry(t, u, pms), posted' \in Seq(Uuids \X Level3)
      PROVE  TypeOK'
  BY <1>1, <1>2 DEF UpdateRegistry, Recount, DisableAll, pool
<1>3. ASSUME NEW t \in Threads, NEW p \in ProviderManagers
      PROVE  Advance(t, p) => call' \in [Threads -> Calls]
  <2>1. call[t].todo \ {p} \in SUBSET ProviderManagers
    BY CallTypes
  <2> QED
    BY <1>1, <2>1 DEF Advance
<1>4. ASSUME NEW u \in Uuids, EnableLevel2(u) \/ Disable(u)
      PROVE  TypeOK'
  <2>1. Main \in Threads /\ Level2 \in SUBSET ProviderManagers
    BY DEF Threads, ProviderManagers
  <2> QED
    BY <1>2, <1>4, <2>1 DEF EnableLevel2, Disable
<1>5. ASSUME NEW u \in Uuids, NEW p \in Level3, PostEnableLevel3(u, p)
      PROVE  TypeOK'
  BY <1>5 DEF PostEnableLevel3, registry, pool
<1>6. ASSUME NEW w \in Workers, TakeTask(w)
      PROVE  TypeOK'
  <2>1. w \in Threads /\ posted' \in Seq(Uuids \X Level3)
        /\ Head(posted) \in Uuids \X Level3
    BY <1>6 DEF TakeTask, Threads
  <2>2. [pc |-> "request", todo |-> {}, uuid |-> Head(posted)[1],
         pm |-> Head(posted)[2]] \in Calls
    BY <2>1 DEF Calls
  <2> QED
    BY <1>6, <2>1, <2>2 DEF TakeTask, registry, pool
<1>7. ASSUME NEW t \in Threads, CallStep(t)
      PROVE  TypeOK'
  <2>1. CASE ProductAvailable(t)
    <3>1. call[t].uuid \in Uuids /\ {call[t].pm} \in SUBSET ProviderManagers
      BY <2>1, CallTypes DEF ProductAvailable, ProviderManagers
    <3> QED
      BY <1>2, <2>1, <3>1 DEF ProductAvailable
  <2>2. CASE ProductNotAvailable(t)
    BY <1>1, <2>2 DEF ProductNotAvailable, registry, pool
  <2>3. ASSUME NEW p \in ProviderManagers, CheckEnabled(t, p)
        PROVE  TypeOK'
    <3>1. [pc |-> "set", todo |-> call[t].todo, pm |-> p] \in Calls
      BY CallTypes DEF Calls
    <3>2. call' \in [Threads -> Calls]
      BY <1>3, <2>3, <3>1 DEF CheckEnabled
    <3> QED
      BY <2>3, <3>2 DEF CheckEnabled, registry, pool
  <2>4. CASE SetEnabled(t)
    <3>1. call[t].pm \in ProviderManagers
          /\ call[t] \in [pc : {"set", "start"}, todo : SUBSET ProviderManagers,
                          pm : ProviderManagers]
      BY <2>4, CallTypes DEF SetEnabled, Calls, Idle
    <3>2. [call[t] EXCEPT !.pc = "start"] \in Calls
      BY <3>1 DEF Calls
    <3> QED
      BY <2>4, <3>1, <3>2 DEF SetEnabled, registry, pool
  <2>5. CASE StartRefresh(t)
    <3>1. call[t].pm \in ProviderManagers
      BY <2>5, CallTypes DEF StartRefresh
    <3>2. call' \in [Threads -> Calls]
      BY <1>3, <2>5, <3>1 DEF StartRefresh
    <3> QED
      BY <2>5, <3>1, <3>2 DEF StartRefresh, RefreshData, registry
  <2> QED
    BY <1>7, <2>1, <2>2, <2>3, <2>4, <2>5 DEF CallStep
<1>8. ASSUME NEW p \in ProviderManagers,
             PoolStep(p) \/ TimerExpires(p) \/ RefreshThrows(p)
      PROVE  TypeOK'
  <2> USE RefreshAssumption DEF registry
  <2>1. CASE TimerHandler(p)
    BY <2>1 DEF TimerHandler, RefreshData
  <2>2. CASE BeginRefresh(p)
    BY <2>2 DEF BeginRefresh
  <2>3. CASE ScheduleNext(p)
    BY <2>3 DEF ScheduleNext
  <2>4. CASE TimerExpires(p)
    BY <2>4 DEF TimerExpires
  <2>5. CASE RefreshThrows(p)
    BY <2>5 DEF RefreshThrows
  <2> QED
    BY <1>8, <2>1, <2>2, <2>3, <2>4, <2>5 DEF PoolStep
<1>9. CASE UNCHANGED vars
  BY <1>9 DEF vars
<1> QED
  BY <1>4, <1>5, <1>6, <1>7, <1>8, <1>9 DEF Next, Request

(* The state stays within its types: TypeOK is inductive by itself.         *)
THEOREM TypeCorrect == Spec => []TypeOK
BY TypeOKInit, TypeOKInductive, PTL DEF Spec

----------------------------------------------------------------------------
(* Where NoLostRefresh comes from.  A subscribed provider manager that is   *)
(* not enabled is still before the flag write of some call; one that is     *)
(* enabled has a live chain, or a call is about to start it.                *)
EnablePending(p) ==
    \E t \in Threads :
        /\ call[t].pc \in {"check", "set", "start"}
        /\ p \in call[t].todo
        /\ ~(call[t].pc = "start" /\ call[t].pm = p)

StartPending(p) == \E t \in Threads : call[t].pc = "start" /\ call[t].pm = p

TargetInTodo ==
    \A t \in Threads : call[t].pc \in {"set", "start"} => call[t].pm \in call[t].todo

SubscribedIsEnabled ==
    \A p \in ProviderManagers :
        Subscribers(p) # {} => refreshEnabled[p] \/ EnablePending(p)

EnabledIsAlive ==
    \A p \in ProviderManagers :
        refreshEnabled[p] /\ ~failed[p] => Alive(p) \/ StartPending(p)

RefreshInv ==
    /\ TypeOK
    /\ RefreshCountExact
    /\ TimerOnlyWhileEnabled
    /\ TargetInTodo
    /\ SubscribedIsEnabled
    /\ EnabledIsAlive

(* NoLostRefresh follows from the strengthening.                            *)
LEMMA NoLostRefreshFromInv == RefreshInv => NoLostRefresh
<1> SUFFICES ASSUME RefreshInv, NEW p \in ProviderManagers,
                    Subscribers(p) # {}, ~failed[p]
             PROVE  (refreshEnabled[p] /\ Alive(p)) \/ BeingEnabled(p)
  BY DEF NoLostRefresh
<1>1. CASE EnablePending(p)
  BY <1>1 DEF EnablePending, BeingEnabled
<1>2. CASE refreshEnabled[p] /\ StartPending(p)
  BY <1>2 DEF StartPending, BeingEnabled, RefreshInv, TargetInTodo
<1> QED
  BY <1>1, <1>2 DEF RefreshInv, SubscribedIsEnabled, EnabledIsAlive

(* The section under the registry lock, for any thread that is not in the  *)
(* loop after it: it keeps the counts exact, and disables nobody's product. *)
LEMMA RegistryStep ==
    ASSUME RefreshInv, NEW t \in Threads, NEW u \in Uuids,
           NEW pms \in SUBSET ProviderManagers,
           call[t].pc \in {"idle", "request"},
           UpdateRegistry(t, u, pms)
    PROVE  /\ RefreshCountExact'
           /\ TimerOnlyWhileEnabled'
           /\ TargetInTodo'
           /\ SubscribedIsEnabled'
           /\ EnabledIsAlive'
<1> USE DEF RefreshInv
<1>1. \A p \in ProviderManagers :
         Subscribers(p)' = IF p \in pms THEN Subscribers(p) \cup {u}
                                        ELSE Subscribers(p) \ {u}
  BY DEF Subscribers, UpdateRegistry, TypeOK
<1>2. \A p \in ProviderManagers : u \in Subscribers(p) <=> p \in refreshMap[u]
  BY DEF Subscribers
<1>3. \A p \in ProviderManagers : Subscribers(p) \in SUBSET Uuids
  BY DEF Subscribers
<1>4. RefreshCountExact'
  <2> SUFFICES ASSUME NEW p \in ProviderManagers
               PROVE  refreshCount'[p] = Cardinality(Subscribers(p)')
    BY DEF RefreshCountExact
  <2>1. refreshCount[p] = Cardinality(Subscribers(p))
    BY DEF RefreshCountExact
  <2>2. refreshCount'[p] = refreshCount[p]
           - (IF p \in refreshMap[u] THEN 1 ELSE 0) + (IF p \in pms THEN 1 ELSE 0)
    BY DEF UpdateRegistry, Recount
  <2>3. LET S == Subscribers(p)
            n == IF p \in refreshMap[u] THEN 1 ELSE 0
        IN  /\ Cardinality(S) \in Nat
            /\ Cardinality(S \cup {u}) = Cardinality(S) - n + 1
            /\ Cardinality(S \ {u}) = Cardinality(S) - n
    BY <1>2, <1>3, RecountLemma
  <2>4. CASE p \in pms
    BY <1>1, <2>1, <2>2, <2>3, <2>4
  <2>5. CASE p \notin pms
    <3>1. Subscribers(p)' = Subscribers(p) \ {u}
      BY <1>1, <2>5
    <3>2. refreshCount'[p] =
             Cardinality(Subscribers(p)) - (IF p \in refreshMap[u] THEN 1 ELSE 0)
      BY <2>1, <2>2, <2>3, <2>5
    <3> QED
      BY <2>3, <3>1, <3>2
  <2> QED
    BY <2>4, <2>5
<1>5. TimerOnlyWhileEnabled'
  BY DEF UpdateRegistry, DisableAll, TimerOnlyWhileEnabled
<1>6. \A s \in Threads : s # t => call'[s] = call[s]
  BY DEF UpdateRegistry, TypeOK
<1>7. call'[t] = IF pms = {} THEN Idle ELSE [pc |-> "check", todo |-> pms]
  BY DEF UpdateRegistry, TypeOK
<1>8. TargetInTodo'
  BY <1>6, <1>7 DEF TargetInTodo, Idle
<1>9. \A p \in ProviderManagers : EnablePending(p) => EnablePending(p)'
  BY <1>6 DEF EnablePending
<1>10. \A p \in ProviderManagers : StartPending(p) => StartPending(p)'
  BY <1>6 DEF StartPending
<1>11. SubscribedIsEnabled'
  <2> SUFFICES ASSUME NEW p \in ProviderManagers, Subscribers(p)' # {}
               PROVE  refreshEnabled'[p] \/ EnablePending(p)'
    BY DEF SubscribedIsEnabled
  <2>1. CASE p \in pms
    BY <1>7, <2>1 DEF EnablePending
  <2>2. CASE p \notin pms
    <3>1. Subscribers(p) \ {u} # {}
      BY <1>1, <2>2
    <3>2. p \in refreshMap[u] => refreshCount[p] - 1 # 0
      <4>1. Cardinality(Subscribers(p) \ {u}) # 0
        <5>1. Subscribers(p) \ {u} \in SUBSET Uuids
          BY <1>3
        <5> QED
          BY <3>1, <5>1, RecountLemma
      <4> QED
        BY <1>2, <1>3, <4>1, RecountLemma DEF RefreshCountExact
    <3>3. refreshEnabled'[p] = refreshEnabled[p]
      BY <3>2 DEF UpdateRegistry, DisableAll, Released, TypeOK
    <3> QED
      BY <1>9, <3>1, <3>3 DEF SubscribedIsEnabled
  <2> QED
    BY <2>1, <2>2
<1>12. EnabledIsAlive'
  <2> SUFFICES ASSUME NEW p \in ProviderManagers, refreshEnabled'[p], ~failed'[p]
               PROVE  Alive(p)' \/ StartPending(p)'
    BY DEF EnabledIsAlive
  <2>1. p \notin Released(u, pms) /\ refreshEnabled[p] /\ ~failed[p]
    BY DEF UpdateRegistry, DisableAll, pool
  <2>2. timer'[p] = timer[p] /\ UNCHANGED pool
    BY <2>1 DEF UpdateRegistry, DisableAll, TypeOK
  <2> QED
    BY <1>10, <2>1, <2>2 DEF EnabledIsAlive, Alive, pool
<1> QED
  BY <1>4, <1>5, <1>8, <1>11, <1>12

(* A step of the loop after the unlock keeps the invariant's last parts.    *)
LEMMA LoopStep ==
    ASSUME RefreshInv, NEW t \in Threads,
           \/ \E p \in ProviderManagers : CheckEnabled(t, p)
           \/ SetEnabled(t)
           \/ StartRefresh(t)
    PROVE  /\ RefreshCountExact'
           /\ TimerOnlyWhileEnabled'
           /\ TargetInTodo'
           /\ SubscribedIsEnabled'
           /\ EnabledIsAlive'
<1> USE DEF RefreshInv
<1>1. UNCHANGED registry
  BY DEF CheckEnabled, SetEnabled, StartRefresh
<1>2. \A p \in ProviderManagers : Subscribers(p)' = Subscribers(p)
  BY <1>1 DEF Subscribers, registry
<1>3. RefreshCountExact'
  BY <1>1, <1>2 DEF RefreshCountExact, registry
<1>4. \A s \in Threads : s # t => call'[s] = call[s]
  BY DEF CheckEnabled, SetEnabled, StartRefresh, Advance, TypeOK
<1>5. ASSUME NEW p \in ProviderManagers, CheckEnabled(t, p)
      PROVE  /\ TimerOnlyWhileEnabled'
             /\ TargetInTodo'
             /\ SubscribedIsEnabled'
             /\ EnabledIsAlive'
  <2>1. UNCHANGED <<refreshEnabled, timer, pool>>
    BY <1>5 DEF CheckEnabled
  <2>2. call'[t] = IF ~refreshEnabled[p]
                   THEN [pc |-> "set", todo |-> call[t].todo, pm |-> p]
                   ELSE IF call[t].todo \ {p} = {}
                   THEN Idle
                   ELSE [pc |-> "check", todo |-> call[t].todo \ {p}]
    BY <1>5 DEF CheckEnabled, Advance, TypeOK
  <2>3. call[t].pc = "check" /\ p \in call[t].todo
    BY <1>5 DEF CheckEnabled
  <2>4. TimerOnlyWhileEnabled'
    BY <2>1 DEF TimerOnlyWhileEnabled
  <2>5. TargetInTodo'
    BY <1>4, <2>2, <2>3 DEF TargetInTodo, Idle
  <2>6. \A q \in ProviderManagers :
           EnablePending(q) => EnablePending(q)' \/ refreshEnabled[q]
    BY <1>4, <2>2, <2>3 DEF EnablePending, Idle
  <2>7. \A q \in ProviderManagers : StartPending(q) => StartPending(q)'
    BY <1>4, <2>3 DEF StartPending
  <2>8. SubscribedIsEnabled'
    BY <1>2, <2>1, <2>6 DEF SubscribedIsEnabled
  <2>9. EnabledIsAlive'
    BY <2>1, <2>7 DEF EnabledIsAlive, Alive, pool
  <2> QED
    BY <2>4, <2>5, <2>8, <2>9
<1>6. CASE SetEnabled(t)
  <2>1. call[t].pc = "set" /\ call[t].pm \in ProviderManagers
        /\ call[t].pm \in call[t].todo
    BY <1>6, CallTypes DEF SetEnabled, TargetInTodo
  <2>2. /\ call'[t].pc = "start"
        /\ call'[t].pm = call[t].pm
        /\ call'[t].todo = call[t].todo
    <3>1. call[t] \in [pc : {"set", "start"}, todo : SUBSET ProviderManagers,
                       pm : ProviderManagers]
      BY <2>1 DEF TypeOK, Calls, Idle
    <3>2. call'[t] = [call[t] EXCEPT !.pc = "start"]
      BY <1>6 DEF SetEnabled, TypeOK
    <3> QED
      BY <3>1, <3>2
  <2>3. UNCHANGED <<timer, pool>>
    BY <1>6 DEF SetEnabled
  <2>4. \A q \in ProviderManagers :
           refreshEnabled'[q] <=> refreshEnabled[q] \/ q = call[t].pm
    BY <1>6, <2>1 DEF SetEnabled, TypeOK
  <2>5. TimerOnlyWhileEnabled'
    BY <2>3, <2>4 DEF TimerOnlyWhileEnabled
  <2>6. TargetInTodo'
    BY <1>4, <2>1, <2>2 DEF TargetInTodo
  <2>7. \A q \in ProviderManagers :
           EnablePending(q) => EnablePending(q)' \/ q = call[t].pm
    BY <1>4, <2>1, <2>2 DEF EnablePending
  <2>8. SubscribedIsEnabled'
    BY <1>2, <2>4, <2>7 DEF SubscribedIsEnabled
  <2>9. \A q \in ProviderManagers :
           StartPending(q) \/ q = call[t].pm => StartPending(q)'
    BY <1>4, <2>1, <2>2 DEF StartPending
  <2>10. EnabledIsAlive'
    BY <2>3, <2>4, <2>9 DEF EnabledIsAlive, Alive, pool
  <2> QED
    BY <1>3, <2>5, <2>6, <2>8, <2>10
<1>7. CASE StartRefresh(t)
  <2> DEFINE p == call[t].pm
  <2>1. call[t].pc = "start" /\ p \in ProviderManagers
    BY <1>7, CallTypes DEF StartRefresh
  <2>2. call'[t] = IF call[t].todo \ {p} = {} THEN Idle
                   ELSE [pc |-> "check", todo |-> call[t].todo \ {p}]
    BY <1>7 DEF StartRefresh, Advance, TypeOK
  <2>3. /\ UNCHANGED <<refreshEnabled, fired, running>>
        /\ \A q \in ProviderManagers : timer'[q] => timer[q]
        /\ \A q \in ProviderManagers :
              q # p => timer'[q] = timer[q] /\ jobs'[q] = jobs[q] /\ failed'[q] = failed[q]
        /\ jobs'[p] > 0
    BY <1>7, <2>1 DEF StartRefresh, RefreshData, TypeOK
  <2>4. TimerOnlyWhileEnabled'
    BY <2>3 DEF TimerOnlyWhileEnabled
  <2>5. TargetInTodo'
    BY <1>4, <2>2 DEF TargetInTodo, Idle
  <2>6. \A q \in ProviderManagers : EnablePending(q) => EnablePending(q)'
    BY <1>4, <2>1, <2>2 DEF EnablePending
  <2>7. SubscribedIsEnabled'
    BY <1>2, <2>3, <2>6 DEF SubscribedIsEnabled
  <2>8. \A q \in ProviderManagers : StartPending(q) /\ q # p => StartPending(q)'
    BY <1>4 DEF StartPending
  <2>9. EnabledIsAlive'
    BY <2>3, <2>8 DEF EnabledIsAlive, Alive
  <2> QED
    BY <1>3, <2>4, <2>5, <2>7, <2>9
<1> QED
  BY <1>3, <1>5, <1>6, <1>7

(* A step of a provider manager's pool keeps the invariant's last parts.    *)
LEMMA PoolStepKeeps ==
    ASSUME RefreshInv, NEW p \in ProviderManagers,
           PoolStep(p) \/ TimerExpires(p) \/ RefreshThrows(p)
    PROVE  /\ RefreshCountExact'
           /\ TimerOnlyWhileEnabled'
           /\ TargetInTodo'
           /\ SubscribedIsEnabled'
           /\ EnabledIsAlive'
<1> USE DEF RefreshInv
<1>1. UNCHANGED <<registry, refreshEnabled, call>>
  BY DEF PoolStep, TimerHandler, BeginRefresh, ScheduleNext, TimerExpires, RefreshThrows
<1>2. \A q \in ProviderManagers :
         /\ Subscribers(q)' = Subscribers(q)
         /\ EnablePending(q)' <=> EnablePending(q)
         /\ StartPending(q)' <=> StartPending(q)
  BY <1>1 DEF Subscribers, EnablePending, StartPending, registry
<1>3. RefreshCountExact' /\ TargetInTodo' /\ SubscribedIsEnabled'
  BY <1>1, <1>2 DEF RefreshCountExact, TargetInTodo, SubscribedIsEnabled, registry
<1>4. \A q \in ProviderManagers : timer'[q] => timer[q] \/ refreshEnabled[q]
  BY DEF PoolStep, TimerHandler, BeginRefresh, ScheduleNext, TimerExpires,
         RefreshThrows, RefreshData, TypeOK
<1>5. TimerOnlyWhileEnabled'
  BY <1>1, <1>4 DEF TimerOnlyWhileEnabled
<1>6. \A q \in ProviderManagers :
         refreshEnabled[q] /\ ~failed'[q] /\ Alive(q) => Alive(q)'
  <2> USE DEF TypeOK, Alive
  <2>1. CASE TimerHandler(p)
    BY <2>1 DEF TimerHandler, RefreshData
  <2>2. CASE BeginRefresh(p)
    BY <2>2 DEF BeginRefresh
  <2>3. CASE ScheduleNext(p)
    BY <2>3 DEF ScheduleNext
  <2>4. CASE TimerExpires(p)
    BY <2>4 DEF TimerExpires
  <2>5. CASE RefreshThrows(p)
    BY <2>5 DEF RefreshThrows
  <2> QED
    BY <2>1, <2>2, <2>3, <2>4, <2>5 DEF PoolStep
<1>7. \A q \in ProviderManagers : ~failed'[q] => ~failed[q]
  BY DEF PoolStep, TimerHandler, BeginRefresh, ScheduleNext, TimerExpires,
         RefreshThrows, TypeOK
<1>8. EnabledIsAlive'
  BY <1>1, <1>2, <1>6, <1>7 DEF EnabledIsAlive
<1> QED
  BY <1>3, <1>5, <1>8

LEMMA RefreshInvInductive == RefreshInv /\ [Next]_vars => RefreshInv'
<1> SUFFICES ASSUME RefreshInv, [Next]_vars, TypeOK'
             PROVE  RefreshInv'
  BY TypeOKInductive DEF RefreshInv
<1> DEFINE Kept == /\ RefreshCountExact'
                   /\ TimerOnlyWhileEnabled'
                   /\ TargetInTodo'
                   /\ SubscribedIsEnabled'
                   /\ EnabledIsAlive'
<1> SUFFICES Kept
  BY DEF RefreshInv
<1>1. ASSUME NEW t \in Threads, call'[t] = call[t] \/ call'[t].pc \in {"idle", "request"},
             \A s \in Threads : s # t => call'[s] = call[s],
             call[t].pc \in {"idle", "request"},
             UNCHANGED <<registry, refreshEnabled, timer, pool>>
      PROVE  Kept
  <2>1. \A q \in ProviderManagers :
           /\ Subscribers(q)' = Subscribers(q)
           /\ EnablePending(q) => EnablePending(q)'
           /\ StartPending(q) => StartPending(q)'
    BY <1>1 DEF Subscribers, EnablePending, StartPending, registry
  <2>2. TargetInTodo'
    BY <1>1 DEF RefreshInv, TargetInTodo
  <2> QED
    BY <1>1, <2>1, <2>2
       DEF RefreshInv, RefreshCountExact, TimerOnlyWhileEnabled, SubscribedIsEnabled,
           EnabledIsAlive, Alive, registry, pool
<1>2. ASSUME Request
      PROVE  Kept
  <2>1. Main \in Threads /\ Level2 \in SUBSET ProviderManagers
    BY DEF Threads, ProviderManagers
  <2>2. ASSUME NEW v \in Uuids, EnableLevel2(v) \/ Disable(v)
        PROVE  Kept
    BY <2>1, <2>2, RegistryStep DEF EnableLevel2, Disable, Idle
  <2>3. ASSUME NEW v \in Uuids, NEW p \in Level3, PostEnableLevel3(v, p)
        PROVE  Kept
    BY <1>1, <2>1, <2>3 DEF PostEnableLevel3, Idle
  <2> QED
    BY <1>2, <2>2, <2>3 DEF Request
<1>3. ASSUME NEW w \in Workers, TakeTask(w)
      PROVE  Kept
  <2>1. /\ w \in Threads /\ call[w].pc = "idle"
        /\ call'[w].pc = "request"
        /\ \A s \in Threads : s # w => call'[s] = call[s]
        /\ UNCHANGED <<registry, refreshEnabled, timer, pool>>
    BY <1>3 DEF TakeTask, Threads, Idle, RefreshInv, TypeOK
  <2> QED
    BY <1>1, <2>1
<1>4. ASSUME NEW t \in Threads, CallStep(t)
      PROVE  Kept
  <2>1. CASE ProductAvailable(t)
    <3>1. call[t].pc = "request" /\ call[t].uuid \in Uuids
          /\ {call[t].pm} \in SUBSET ProviderManagers
      BY <2>1, CallTypes DEF ProductAvailable, ProviderManagers, RefreshInv
    <3> QED
      BY <2>1, <3>1, RegistryStep DEF ProductAvailable
  <2>2. CASE ProductNotAvailable(t)
    <3>1. /\ call[t].pc = "request" /\ call'[t].pc = "idle"
          /\ \A s \in Threads : s # t => call'[s] = call[s]
          /\ UNCHANGED <<registry, refreshEnabled, timer, pool>>
      BY <2>2 DEF ProductNotAvailable, Idle, RefreshInv, TypeOK
    <3> QED
      BY <1>1, <3>1
  <2> QED
    BY <1>4, <2>1, <2>2, LoopStep DEF CallStep
<1>5. ASSUME NEW p \in ProviderManagers,
             PoolStep(p) \/ TimerExpires(p) \/ RefreshThrows(p)
      PROVE  Kept
  BY <1>5, PoolStepKeeps
<1>6. CASE UNCHANGED vars
  BY <1>6 DEF vars, RefreshInv, RefreshCountExact, TimerOnlyWhileEnabled, TargetInTodo,
              SubscribedIsEnabled, EnabledIsAlive, Subscribers, EnablePending,
              StartPending, Alive
<1> QED
  BY <1>2, <1>3, <1>4, <1>5, <1>6 DEF Next

(* The strengthened invariant holds in every reachable state.               *)
THEOREM RefreshInvHolds == Spec => []RefreshInv
<1>1. Init => RefreshInv
  <2>1. Init => TypeOK
    BY TypeOKInit
  <2>2. Init => RefreshCountExact
    <3>1. Init => \A p \in ProviderManagers : Subscribers(p) = {} /\ refreshCount[p] = 0
      BY DEF Init, Subscribers
    <3> QED
      BY <3>1, FS_EmptySet DEF RefreshCountExact
  <2> QED
    BY <2>1, <2>2 DEF Init, RefreshInv, TimerOnlyWhileEnabled, TargetInTodo,
                      SubscribedIsEnabled, EnabledIsAlive, Subscribers, Idle
<1> QED
  BY <1>1, RefreshInvInductive, PTL DEF Spec

(* What EnableRefresh, Disable and RefreshDataSync promise together: counts *)
(* that match the refresh map, no timer left on a disabled provider         *)
(* manager, and no subscribed product whose refreshes have stopped.         *)
THEOREM RefreshSafety ==
    Spec => [](RefreshCountExact /\ TimerOnlyWhileEnabled /\ NoLostRefresh)
<1>1. RefreshInv => RefreshCountExact /\ TimerOnlyWhileEnabled /\ NoLostRefresh
  BY NoLostRefreshFromInv DEF RefreshInv
<1> QED
  BY <1>1, RefreshInvHolds, PTL

(* Each invariant of the runs by itself.                                    *)

(* The count of a provider manager is the number of its subscribers.        *)
THEOREM CountExact == Spec => []RefreshCountExact
BY RefreshSafety, PTL

(* Nothing waits for the next refresh of a provider manager that is off.    *)
THEOREM NoTimerWhileDisabled == Spec => []TimerOnlyWhileEnabled
BY RefreshSafety, PTL

(* A provider manager that is enabled -- subscribed or not -- has its next  *)
(* refresh running, queued or waiting for the timer, or a call is about to  *)
(* start it; unless the last refresh threw.                                 *)
THEOREM ChainsAlive == Spec => []EnabledIsAlive
<1>1. RefreshInv => EnabledIsAlive
  BY DEF RefreshInv
<1> QED
  BY <1>1, RefreshInvHolds, PTL

----------------------------------------------------------------------------
(* How a disabled provider manager falls silent                             *)

(* What its pool still has to do: a handler posts a job, a job runs.        *)
Outstanding(p) == 3 * fired[p] + 2 * jobs[p] + running[p]

(* While p is disabled and no call is about to start it, there is less to   *)
(* do with every step of its pool, and nothing is added.                    *)
DisabledDrains ==
    [][\A p \in ProviderManagers :
         ~refreshEnabled[p] /\ ~StartPending(p) =>
            \/ Outstanding(p)' < Outstanding(p)
            \/ UNCHANGED <<fired[p], jobs[p], running[p]>>]_vars

LEMMA DisabledStep ==
    ASSUME RefreshInv, [Next]_vars, NEW p \in ProviderManagers,
           ~refreshEnabled[p], ~StartPending(p)
    PROVE  \/ Outstanding(p)' < Outstanding(p)
           \/ UNCHANGED <<fired[p], jobs[p], running[p]>>
<1>1. TypeOK /\ ~timer[p]
  BY DEF RefreshInv, TimerOnlyWhileEnabled
<1>2. CASE UNCHANGED pool
  BY <1>2 DEF pool
<1>3. CASE Request
  BY <1>2, <1>3 DEF Request, EnableLevel2, Disable, PostEnableLevel3, UpdateRegistry
<1>4. ASSUME NEW w \in Workers, TakeTask(w)
      PROVE  UNCHANGED pool
  BY <1>4 DEF TakeTask
<1>5. ASSUME NEW t \in Threads, CallStep(t)
      PROVE  UNCHANGED <<fired[p], jobs[p], running[p]>>
  <2>1. CASE StartRefresh(t)
    <3>1. call[t].pm # p
      BY <2>1 DEF StartRefresh, StartPending
    <3> QED
      BY <1>1, <2>1, <3>1 DEF StartRefresh, RefreshData, TypeOK
  <2>2. CASE ~StartRefresh(t)
    <3>1. UNCHANGED pool
      BY <1>5, <2>2 DEF CallStep, ProductAvailable, ProductNotAvailable, CheckEnabled,
                        SetEnabled, UpdateRegistry
    <3> QED
      BY <3>1 DEF pool
  <2> QED
    BY <2>1, <2>2
<1>6. ASSUME NEW q \in ProviderManagers, PoolStep(q) \/ TimerExpires(q) \/ RefreshThrows(q)
      PROVE  \/ Outstanding(p)' < Outstanding(p)
             \/ UNCHANGED <<fired[p], jobs[p], running[p]>>
  <2>1. fired[p] \in Nat /\ jobs[p] \in Nat /\ running[p] \in Nat
    BY <1>1 DEF TypeOK
  <2>2. CASE TimerHandler(q)
    BY <1>1, <2>1, <2>2 DEF TimerHandler, RefreshData, Outstanding, TypeOK
  <2>3. CASE BeginRefresh(q)
    BY <1>1, <2>1, <2>3 DEF BeginRefresh, Outstanding, TypeOK
  <2>4. CASE ScheduleNext(q) \/ RefreshThrows(q)
    <3>1. UNCHANGED <<fired, jobs>> /\ running[q] > 0
          /\ running' = [running EXCEPT ![q] = running[q] - 1]
      BY <2>4 DEF ScheduleNext, RefreshThrows
    <3>2. running'[p] = IF q = p THEN running[p] - 1 ELSE running[p]
      BY <1>1, <3>1 DEF TypeOK
    <3> QED
      BY <2>1, <3>1, <3>2 DEF Outstanding
  <2>5. CASE TimerExpires(q)
    BY <1>1, <2>1, <2>5 DEF TimerExpires, TypeOK
  <2> QED
    BY <1>6, <2>2, <2>3, <2>4, <2>5 DEF PoolStep
<1>7. CASE UNCHANGED vars
  BY <1>2, <1>7 DEF vars
<1> QED
  BY <1>2, <1>3, <1>4, <1>5, <1>6, <1>7 DEF Next

(* The safety half of DisabledFallsSilent, with the number that goes down:  *)
(* what was queued before Disable drains, and no handler, job or refresh    *)
(* starts the chain again.                                                  *)
THEOREM DisabledPoolDrains == Spec => DisabledDrains
<1>1. RefreshInv /\ [Next]_vars =>
        [\A p \in ProviderManagers :
           ~refreshEnabled[p] /\ ~StartPending(p) =>
              \/ Outstanding(p)' < Outstanding(p)
              \/ UNCHANGED <<fired[p], jobs[p], running[p]>>]_vars
  BY DisabledStep
<1> QED
  BY <1>1, RefreshInvHolds, PTL DEF Spec, DisabledDrains
=============================================================================
