-------------------------------- MODULE Timeline --------------------------------
(***************************************************************************)
(* TimelineManager: the animation that plays, pauses and steps through the  *)
(* times of a loop, and the monitor on which a frame or a step waits until  *)
(* every map has drawn.                                                     *)
(*                                                                          *)
(* Three threads: the GUI thread ("gui"), the one of playThreadPool_        *)
(* ("play"), which runs PlaySync and the timer's handler, and the one of    *)
(* selectThreadPool_ ("select"), which runs steps and selections.  Minutes  *)
(* stand for times, 0 for the live view.  The loop is fixed, and so is the  *)
(* radar site, which is not empty; volume times and the cache limit are     *)
(* left out, and so are the lengths of intervals.                           *)
(***************************************************************************)
EXTENDS Integers, Sequences, FiniteSets

CONSTANTS
    Maps,           \* map widgets; mapCount_ of them
    LoopStart,      \* first minute of the loop
    LoopEnd,        \* last minute of the loop, and of what a step may select
    Earliest,       \* bound: stands for this minute and all before it
    EndTimes,       \* times the buttons for the loop's ends select
    MaxAttempts,    \* minutes a step tries, 30 in the code
    MaxQueuedSteps, \* kMaxQueuedSteps_
    MaxTasks        \* bound: tasks that wait in a pool, sweeps a map computes

ASSUME TimelineAssumption ==
    /\ Maps # {} /\ IsFiniteSet(Maps)
    /\ Earliest \in Nat \ {0} /\ LoopStart \in Nat /\ LoopEnd \in Nat
    /\ Earliest <= LoopStart /\ LoopStart <= LoopEnd /\ Earliest < LoopEnd
    /\ EndTimes \subseteq {0} \cup Earliest .. LoopEnd
    /\ MaxAttempts \in Nat \ {0} /\ MaxQueuedSteps \in Nat \ {0} /\ MaxTasks \in Nat \ {0}

Live == 0
Directions == {"Back", "Next"}
PoolThreadNames == {"play", "select"}
Nobody == "nobody"

Minutes == Earliest .. LoopEnd

VARIABLES
    animationState, \* animationState_
    animationTimer, \* a wait is pending on animationTimer_
    playTasks,      \* the queue of playThreadPool_
    selectTasks,    \* the queue of selectThreadPool_
    stepCounter,    \* stepCounter_
    selectedTime,   \* selectedTime_
    shownTime,      \* the time the maps were told last
    selectOwner,    \* who holds selectTimeMutex_
    monitorOwner,   \* who holds radarSweepMonitorMutex_
    monitorActive,  \* radarSweepMonitorActive_
    sweepsUpdated,  \* radarSweepsUpdated_
    sweepsComplete, \* radarSweepsComplete_
    sweeps,         \* map -> sweeps it computes
    actor           \* thread -> where it is

timelineVars == <<animationState, animationTimer, playTasks, selectTasks, stepCounter,
                  selectedTime, shownTime, selectOwner, monitorOwner, monitorActive,
                  sweepsUpdated, sweepsComplete, sweeps, actor>>

animation == <<animationState, animationTimer, playTasks>>
selection == <<selectedTime, shownTime, selectOwner>>
monitor == <<monitorOwner, monitorActive, sweepsUpdated, sweepsComplete>>
steps == <<selectTasks, stepCounter>>

(* Tasks of the select pool: a step, or the selection of a time.            *)
StepTask(d) == [step |-> TRUE, direction |-> d]
SelectTask(t) == [step |-> FALSE, time |-> t]
SelectTasks == {StepTask(d) : d \in Directions} \cup {SelectTask(t) : t \in Minutes \cup {Live}}

(* Where a thread is: "monitor" before it locks the sweep monitor, "assign" *)
(* and "emit" in SelectTime, "wait" on the monitor, "arm" before the timer  *)
(* is set, "replay" in Play called by the timer's handler, "finish" after a *)
(* step, "threw" after a frame or a step that ended in an exception; the    *)
(* GUI thread in a slot.  A time is selected for a frame, by itself, or for *)
(* a step.                                                                  *)
Resting == [at |-> "idle"]
Purposes == {"frame", "select"} \cup Directions
ActorStates ==
    {Resting}
      \cup [at : {"monitor", "assign", "emit", "wait"},
            time : Minutes \cup {Live, LoopEnd + 1}, for : Purposes, attempt : 0 .. MaxAttempts]
      \cup [at : {"arm", "replay"}]
      \cup [at : {"finish"}, for : Directions, live : BOOLEAN, found : BOOLEAN]
      \cup [at : {"threw"}, for : {"frame"} \cup Directions]
      \cup [at : {"updated", "notUpdated", "painted"}, map : Maps]

TimelineTypeOK ==
    /\ animationState \in {"Play", "Pause"}
    /\ animationTimer \in BOOLEAN
    /\ playTasks \in Seq({"sync", "handler"})
    /\ selectTasks \in Seq(SelectTasks)
    /\ stepCounter \in 0 .. MaxQueuedSteps
    /\ selectedTime \in Minutes \cup {Live}
    /\ shownTime \in Minutes \cup {Live}
    /\ selectOwner \in PoolThreadNames \cup {"gui", Nobody}
    /\ monitorOwner \in PoolThreadNames \cup {Nobody}
    /\ monitorActive \in BOOLEAN
    /\ sweepsUpdated \subseteq Maps /\ sweepsComplete \subseteq Maps
    /\ sweeps \in [Maps -> 0 .. MaxTasks]
    /\ actor \in [PoolThreadNames \cup {"gui"} -> ActorStates]

TimelineInit ==
    /\ animationState = "Pause"
    /\ animationTimer = FALSE
    /\ playTasks = <<>>
    /\ selectTasks = <<>>
    /\ stepCounter = 0
    /\ selectedTime = Live
    /\ shownTime = Live
    /\ selectOwner = Nobody
    /\ monitorOwner = Nobody
    /\ monitorActive = FALSE
    /\ sweepsUpdated = {}
    /\ sweepsComplete = {}
    /\ sweeps = [m \in Maps |-> 0]
    /\ actor = [w \in PoolThreadNames \cup {"gui"} |-> Resting]

At(w, place) == actor[w].at = place
Moves(w, state) == actor' = [actor EXCEPT ![w] = state]
MovesTo(w, place) == actor' = [actor EXCEPT ![w].at = place]

----------------------------------------------------------------------------
(* The user, on the GUI thread                                              *)

(* Play, as far as the posted task.                                         *)
PostPlay == playTasks' = Append(playTasks, "sync") /\ animationTimer' = FALSE

AnimationPlay ==
    /\ At("gui", "idle")
    /\ animationState = "Pause"
    /\ Len(playTasks) < MaxTasks
    /\ animationState' = "Play"
    /\ PostPlay
    /\ UNCHANGED <<steps, selection, monitor, sweeps, actor>>

PauseAnimation == animationTimer' = FALSE /\ animationState' = "Pause"

AnimationPause ==
    /\ At("gui", "idle")
    /\ animationState = "Play"
    /\ PauseAnimation
    /\ UNCHANGED <<playTasks, steps, selection, monitor, sweeps, actor>>

(* Mutant of StepAsync: the step is posted although the queue is full.      *)
StepAsyncUncounted(d) ==
    /\ At("gui", "idle")
    /\ Len(selectTasks) < MaxTasks
    /\ PauseAnimation
    /\ selectTasks' = Append(selectTasks, StepTask(d))
    /\ stepCounter' = IF stepCounter < MaxQueuedSteps THEN stepCounter + 1 ELSE stepCounter
    /\ UNCHANGED <<playTasks, selection, monitor, sweeps, actor>>

(* AnimationStepBack and AnimationStepNext: pause, then post a step unless  *)
(* too many are queued.                                                     *)
StepAsync(d) ==
    /\ At("gui", "idle")
    /\ Len(selectTasks) < MaxTasks
    /\ PauseAnimation
    /\ IF stepCounter < MaxQueuedSteps
       THEN /\ selectTasks' = Append(selectTasks, StepTask(d))
            /\ stepCounter' = stepCounter + 1
       ELSE UNCHANGED steps
    /\ UNCHANGED <<playTasks, selection, monitor, sweeps, actor>>

(* AnimationStepBegin and AnimationStepEnd, whose times depend on the view. *)
StepToEnd(t) ==
    /\ At("gui", "idle")
    /\ Len(selectTasks) < MaxTasks
    /\ PauseAnimation
    /\ selectTasks' = Append(selectTasks, SelectTask(t))
    /\ UNCHANGED <<playTasks, stepCounter, selection, monitor, sweeps, actor>>

----------------------------------------------------------------------------
(* SelectTime, by any of the threads.  The selected time is compared before *)
(* the lock is taken; the maps are told under it.                           *)

Selecting(at, t, for, attempt) == [at |-> at, time |-> t, for |-> for, attempt |-> attempt]
Finished(d, live, found) == [at |-> "finish", for |-> d, live |-> live, found |-> found]

(* After SelectTime: a frame or a step releases the monitor and waits on    *)
(* it; a step that has caught up to live is over.                           *)
TimeSelected(w, t, for, attempt) ==
    CASE for = "select" ->
           Moves(w, Resting) /\ UNCHANGED monitorOwner
      [] for \in Directions /\ t = Live ->
           Moves(w, Finished(for, TRUE, FALSE)) /\ monitorOwner' = Nobody
      [] OTHER ->
           Moves(w, Selecting("wait", t, for, attempt)) /\ monitorOwner' = Nobody

(* A frame or a step has the monitor locked.                                *)
SelectTime(w, t, for, attempt) ==
    IF selectedTime = t
    THEN TimeSelected(w, t, for, attempt)
    ELSE /\ Moves(w, Selecting("assign", t, for, attempt))
         /\ monitorOwner' = IF for = "select" THEN monitorOwner ELSE w

(* SetViewType: back to the live view, selected by the GUI thread itself.   *)
SetViewTypeLive ==
    /\ At("gui", "idle")
    /\ SelectTime("gui", Live, "select", 0)
    /\ UNCHANGED <<animation, steps, selection, monitorActive, sweepsUpdated,
                   sweepsComplete, sweeps>>

(* Mutant of AssignSelected: the live branch goes ahead without the lock.   *)
AssignUnlessLive(w) ==
    /\ At(w, "assign")
    /\ selectOwner = Nobody \/ actor[w].time = Live
    /\ selectOwner' = w
    /\ selectedTime' = actor[w].time
    /\ MovesTo(w, "emit")
    /\ UNCHANGED <<animation, steps, shownTime, monitor, sweeps>>

AssignSelected(w) ==
    /\ At(w, "assign")
    /\ selectOwner = Nobody
    /\ selectOwner' = w
    /\ selectedTime' = actor[w].time
    /\ MovesTo(w, "emit")
    /\ UNCHANGED <<animation, steps, shownTime, monitor, sweeps>>

(* What comes before the assignment, under the lock -- the manager's volume *)
(* times, the cache limit -- throws, for a time that is not live.  The      *)
(* mutexes are unlocked on the way to the catch of the posted task; the     *)
(* monitor stays active.                                                    *)
Thrown(for) == IF for = "select" THEN Resting ELSE [at |-> "threw", for |-> for]

SelectTimeThrows(w) ==
    /\ At(w, "assign")
    /\ actor[w].time # Live
    /\ selectOwner = Nobody
    /\ Moves(w, Thrown(actor[w].for))
    /\ monitorOwner' = IF actor[w].for = "select" THEN monitorOwner ELSE Nobody
    /\ UNCHANGED <<animation, steps, selection, monitorActive, sweepsUpdated,
                   sweepsComplete, sweeps>>

(* The maps' slots run in this thread: each map selects the time and posts  *)
(* the computation of a sweep.                                              *)
EmitSelected(w) ==
    /\ At(w, "emit")
    /\ shownTime' = actor[w].time
    /\ sweeps' = [m \in Maps |-> IF sweeps[m] < MaxTasks THEN sweeps[m] + 1 ELSE sweeps[m]]
    /\ selectOwner' = Nobody
    /\ TimeSelected(w, actor[w].time, actor[w].for, actor[w].attempt)
    /\ UNCHANGED <<animation, steps, selectedTime, monitorActive, sweepsUpdated,
                   sweepsComplete>>

----------------------------------------------------------------------------
(* PlaySync and the timer, on the play thread                               *)

(* Mutant of NextFrame: the end of the loop is not looked at.               *)
NextFrameOnward == IF selectedTime < LoopStart THEN LoopStart ELSE selectedTime + 1

NextFrame ==
    IF selectedTime < LoopStart \/ selectedTime >= LoopEnd THEN LoopStart ELSE selectedTime + 1

(* The task before has returned, or its exception was caught.               *)
PlayThreadFree == At("play", "idle") \/ At("play", "threw")

BeginFrame ==
    /\ PlayThreadFree
    /\ playTasks # <<>> /\ Head(playTasks) = "sync"
    /\ selectOwner = Nobody
    /\ playTasks' = Tail(playTasks)
    /\ Moves("play", Selecting("monitor", NextFrame, "frame", 0))
    /\ UNCHANGED <<animationState, animationTimer, steps, selection, monitor, sweeps>>

(* The monitor is locked and reset for the frame.                          *)
ResetMonitor == sweepsUpdated' = {} /\ sweepsComplete' = {} /\ monitorActive' = TRUE

LockForFrame ==
    /\ At("play", "monitor")
    /\ monitorOwner = Nobody
    /\ ResetMonitor
    /\ SelectTime("play", actor["play"].time, "frame", 0)
    /\ UNCHANGED <<animation, steps, selection, sweeps>>

(* The wait ends -- notified, timed out or for no reason -- once the mutex  *)
(* can be had.                                                              *)
EndFrame ==
    /\ At("play", "wait")
    /\ monitorOwner = Nobody
    /\ monitorActive' = FALSE
    /\ Moves("play", [at |-> "arm"])
    /\ UNCHANGED <<animation, steps, selection, monitorOwner, sweepsUpdated, sweepsComplete,
                   sweeps>>

ArmAnimationTimer ==
    /\ At("play", "arm")
    /\ animationTimer' = TRUE
    /\ Moves("play", Resting)
    /\ UNCHANGED <<animationState, playTasks, steps, selection, monitor, sweeps>>

AnimationTimerExpires ==
    /\ animationTimer
    /\ Len(playTasks) < MaxTasks
    /\ animationTimer' = FALSE
    /\ playTasks' = Append(playTasks, "handler")
    /\ UNCHANGED <<animationState, steps, selection, monitor, sweeps, actor>>

AnimationTimerHandler ==
    /\ PlayThreadFree
    /\ playTasks # <<>> /\ Head(playTasks) = "handler"
    /\ playTasks' = Tail(playTasks)
    /\ Moves("play", IF animationState = "Play" THEN [at |-> "replay"] ELSE Resting)
    /\ UNCHANGED <<animationState, animationTimer, steps, selection, monitor, sweeps>>

(* Mutant of PlayAgain: an animation that plays already is not started.     *)
PlayAgainOnce ==
    /\ At("play", "replay")
    /\ animationState' = "Play"
    /\ IF animationState = "Play" THEN UNCHANGED <<playTasks, animationTimer>> ELSE PostPlay
    /\ Moves("play", Resting)
    /\ UNCHANGED <<steps, selection, monitor, sweeps>>

(* Play, called by the handler: whatever the GUI thread has done since the  *)
(* handler read the state, it is Play again.                                *)
PlayAgain ==
    /\ At("play", "replay")
    /\ animationState' = "Play"
    /\ PostPlay
    /\ Moves("play", Resting)
    /\ UNCHANGED <<steps, selection, monitor, sweeps>>

----------------------------------------------------------------------------
(* Steps and selections, on the select thread                               *)

BeginSelectTask ==
    /\ At("select", "idle")
    /\ selectTasks # <<>> /\ ~Head(selectTasks).step
    /\ selectTasks' = Tail(selectTasks)
    /\ SelectTime("select", Head(selectTasks).time, "select", 0)
    /\ UNCHANGED <<animation, stepCounter, selection, monitorActive, sweepsUpdated,
                   sweepsComplete, sweeps>>

(* The minute after or before; before the live view is the current minute.  *)
Neighbour(t, d) ==
    CASE d = "Next" -> t + 1
      [] d = "Back" /\ t = Live -> LoopEnd - 1
      [] d = "Back" /\ t = Earliest -> Earliest
      [] OTHER -> t - 1

(* Step reads the selected time; it cannot step forward from the live view. *)
BeginStep ==
    /\ At("select", "idle")
    /\ selectTasks # <<>> /\ Head(selectTasks).step
    /\ selectOwner = Nobody
    /\ selectTasks' = Tail(selectTasks)
    /\ LET d == Head(selectTasks).direction
       IN  Moves("select", IF selectedTime = Live /\ d = "Next"
                           THEN Finished(d, TRUE, FALSE)
                           ELSE Selecting("monitor", Neighbour(selectedTime, d), d, 1))
    /\ UNCHANGED <<animation, stepCounter, selection, monitor, sweeps>>

(* The loop of Step is left without an update, with the monitor locked: a   *)
(* step forward catches up to live, if the sweeps that were updated -- by   *)
(* whichever frame or step reset the monitor last -- are none.              *)
LeaveLoop(d) ==
    IF d = "Next" /\ sweepsUpdated = {}
    THEN SelectTime("select", Live, d, MaxAttempts)
    ELSE Moves("select", Finished(d, FALSE, FALSE)) /\ monitorOwner' = Nobody

(* One turn of the loop of Step, with the monitor locked.                   *)
TryMinute(t, d, attempt) ==
    IF t > LoopEnd
    THEN LeaveLoop(d) /\ monitorActive' = FALSE /\ UNCHANGED <<sweepsUpdated, sweepsComplete>>
    ELSE ResetMonitor /\ SelectTime("select", t, d, attempt)

LockForStep ==
    /\ At("select", "monitor")
    /\ monitorOwner = Nobody
    /\ LET a == actor["select"]
       IN  IF a.time > LoopEnd
           THEN LeaveLoop(a.for) /\ UNCHANGED <<monitorActive, sweepsUpdated, sweepsComplete>>
           ELSE TryMinute(a.time, a.for, a.attempt)
    /\ UNCHANGED <<animation, steps, selection, sweeps>>

(* The wait of a step ends: it stays at a minute that updated some map, and *)
(* tries the next one otherwise.                                            *)
EndStepWait ==
    /\ At("select", "wait")
    /\ monitorOwner = Nobody
    /\ LET a == actor["select"]
           t == Neighbour(a.time, a.for)
       IN  CASE sweepsUpdated # {} ->
                  /\ Moves("select", Finished(a.for, FALSE, TRUE))
                  /\ monitorActive' = FALSE
                  /\ UNCHANGED <<monitorOwner, sweepsUpdated, sweepsComplete>>
             [] sweepsUpdated = {} /\ a.attempt < MaxAttempts ->
                  TryMinute(t, a.for, a.attempt + 1)
             [] OTHER ->
                  /\ LeaveLoop(a.for)
                  /\ monitorActive' = FALSE
                  /\ UNCHANGED <<sweepsUpdated, sweepsComplete>>
    /\ UNCHANGED <<animation, steps, selection, sweeps>>

(* Mutant of FinishStep: a step that threw is not counted off.              *)
FinishReturnedStep ==
    /\ At("select", "finish") \/ At("select", "threw")
    /\ stepCounter' = IF At("select", "finish") THEN stepCounter - 1 ELSE stepCounter
    /\ Moves("select", Resting)
    /\ UNCHANGED <<animation, selectTasks, selection, monitor, sweeps>>

(* After Step, or the catch of what it threw.                               *)
FinishStep ==
    /\ At("select", "finish") \/ At("select", "threw")
    /\ stepCounter' = stepCounter - 1
    /\ Moves("select", Resting)
    /\ UNCHANGED <<animation, selectTasks, selection, monitor, sweeps>>

----------------------------------------------------------------------------
(* The maps' signals, on the GUI thread.  A slot returns at once when the   *)
(* monitor is not active, which it finds out without the mutex.             *)

Slot(at, m) ==
    /\ At("gui", "idle")
    /\ monitorActive
    /\ Moves("gui", [at |-> at, map |-> m])
    /\ UNCHANGED <<animation, steps, selection, monitor>>

(* A sweep is computed, or not because nothing has changed.                 *)
SweepComputed(m) ==
    /\ sweeps[m] > 0
    /\ sweeps' = [sweeps EXCEPT ![m] = @ - 1]
    /\ Slot("updated", m) \/ Slot("notUpdated", m)

(* The slot is not waited for: the monitor is not active, or nothing was    *)
(* loaded.                                                                  *)
SweepIgnored(m) ==
    /\ At("gui", "idle")
    /\ sweeps[m] > 0
    /\ sweeps' = [sweeps EXCEPT ![m] = @ - 1]
    /\ UNCHANGED <<animation, steps, selection, monitor, actor>>

(* Only this thread adds to the updated sweeps: of others nothing comes.    *)
WidgetPainted(m) ==
    /\ m \in sweepsUpdated \ sweepsComplete
    /\ Slot("painted", m)
    /\ UNCHANGED sweeps

Complete(m) ==
    /\ sweepsComplete' = sweepsComplete \cup {m}
    /\ monitorActive' = (monitorActive /\ sweepsComplete' # Maps)

(* The slot has the mutex.                                                  *)
ReceiveRadarSweep ==
    /\ actor["gui"].at \in {"updated", "notUpdated", "painted"}
    /\ monitorOwner = Nobody
    /\ LET m == actor["gui"].map
       IN  CASE At("gui", "updated") ->
                  sweepsUpdated' = sweepsUpdated \cup {m} /\ UNCHANGED <<sweepsComplete, monitorActive>>
             [] \/ At("gui", "notUpdated")
                \/ At("gui", "painted") /\ m \in sweepsUpdated \ sweepsComplete ->
                  Complete(m) /\ UNCHANGED sweepsUpdated
             [] OTHER -> UNCHANGED <<sweepsUpdated, sweepsComplete, monitorActive>>
    /\ Moves("gui", Resting)
    /\ UNCHANGED <<animation, steps, selection, monitorOwner, sweeps>>

----------------------------------------------------------------------------
UserStep ==
    \/ AnimationPlay \/ AnimationPause \/ SetViewTypeLive
    \/ \E d \in Directions : StepAsync(d)
    \/ \E t \in EndTimes : StepToEnd(t)

SelectStep(w) ==
    AssignSelected(w) \/ SelectTimeThrows(w) \/ EmitSelected(w)

PlayThread ==
    \/ BeginFrame \/ LockForFrame \/ EndFrame \/ ArmAnimationTimer
    \/ AnimationTimerHandler \/ PlayAgain
    \/ SelectStep("play")

SelectThread ==
    \/ BeginSelectTask \/ BeginStep \/ LockForStep \/ EndStepWait \/ FinishStep
    \/ SelectStep("select")

GuiThread == SelectStep("gui") \/ ReceiveRadarSweep

TimelineNext ==
    \/ UserStep
    \/ PlayThread \/ SelectThread \/ GuiThread
    \/ AnimationTimerExpires
    \/ \E m \in Maps : SweepComputed(m) \/ SweepIgnored(m) \/ WidgetPainted(m)

(* Threads run, mutexes let in a pool's thread that keeps trying, waits end *)
(* after five seconds and timers expire.  Nothing depends on the GUI thread *)
(* getting a mutex.  Neither the user nor a map owes anything.              *)
TimelineFairness ==
    /\ SF_timelineVars(PlayThread)
    /\ SF_timelineVars(SelectThread)
    /\ WF_timelineVars(GuiThread)
    /\ WF_timelineVars(AnimationTimerExpires)

TimelineSpec == TimelineInit /\ [][TimelineNext]_timelineVars /\ TimelineFairness

----------------------------------------------------------------------------
(* Maps follow the timeline: whenever nobody is selecting, the time they    *)
(* were told last is the selected time, although three threads select.      *)
MapsFollowTimeline == selectOwner = Nobody => shownTime = selectedTime

(* The counter is exact: as many steps as it says are queued or under way,  *)
(* whichever before them found nothing, caught up to live or threw.  A lost *)
(* count would disable the step buttons for good.                           *)
StepCounterExact ==
    stepCounter =
        Cardinality({i \in DOMAIN selectTasks : selectTasks[i].step})
        + (IF "for" \in DOMAIN actor["select"] /\ actor["select"].for \in Directions THEN 1 ELSE 0)

(* An animation that is not paused selects frame after frame: the chain     *)
(* frame, timer, handler, frame does not stall.  The exception is a frame   *)
(* that threw, after which no timer is armed although the state is Play.    *)
(* One that stays paused stops selecting.                                   *)
AnimationGoesOn ==
    /\ []<>(animationState = "Pause" \/ At("play", "wait") \/ At("play", "threw"))
    /\ <>[](animationState = "Pause") => <>[](~At("play", "wait"))

(* Every step ends: the thread that steps waits neither for maps that do    *)
(* not draw nor for a frame that holds the monitor.                         *)
StepsEnd == []<>(stepCounter < MaxQueuedSteps)

(* "If stepping forward and no newer volume scan was found, catch up to     *)
(* live": a step forward ends with an update of its own or in the live      *)
(* view.                                                                    *)
StepCatchesUp ==
    At("select", "finish") /\ actor["select"].for = "Next"
        => actor["select"].found \/ actor["select"].live
=============================================================================
