------------------------------- MODULE Lightning -------------------------------
(***************************************************************************)
(* BlitzortungProvider, BlitzortungManager and the lightning layers of the  *)
(* maps.  A worker thread keeps a connection to one of several servers and  *)
(* hands the strikes it reads to the manager, which drops those it has seen *)
(* and keeps the others for a while; a timer of the GUI thread removes old  *)
(* ones and tells the layers, which fetch what is active when they are      *)
(* drawn next.                                                              *)
(*                                                                          *)
(* Everything but the worker is the GUI thread.  A strike is what it is     *)
(* deduplicated by; times are ages.  Decoding, the look of a strike and its *)
(* distance from the radar are left out.                                    *)
(***************************************************************************)
EXTENDS Lists

CONSTANTS
    Strikes,     \* what the servers may send, any of it repeatedly
    NumLightningServers,  \* kServers_.size()
    UpServers,   \* those that accept a connection
    Layers,      \* the lightning layers
    StrikeLife,  \* kStrikeLifetimeMs_
    KeyLife      \* kKeyPruneIntervalMs_

ASSUME LightningAssumption ==
    /\ NumLightningServers \in Nat \ {0}
    /\ UpServers \subseteq 0 .. NumLightningServers - 1
    /\ StrikeLife \in Nat \ {0} /\ KeyLife \in Nat
    /\ StrikeLife <= KeyLife

VARIABLES
    worker,         \* where worker_ is; "none" when it is not joinable
    stopRequested,  \* its stop token
    connected,      \* connected_
    socketMade,     \* ws_ # nullptr
    serverIndex,    \* serverIndex_, modulo the number of servers
    updateTimer,    \* updateTimer_ is running
    strikes,        \* strikes_: what struck, and its age
    recentKeys,     \* recentKeys_: key -> its age, or Absent
    pendingUpdate,  \* pendingUpdate_
    dirty,          \* layer -> dataDirty_
    visuals,        \* layer -> strikeVisuals_
    slot            \* where the GUI thread is within a slot, or in Stop

providerVars == <<worker, stopRequested, connected, socketMade, serverIndex>>
lightningVars == <<providerVars, updateTimer, strikes, recentKeys, pendingUpdate,
                   dirty, visuals, slot>>

(* Nothing gets older than this.                                            *)
Oldest == KeyLife + 1
Ages == 0 .. Oldest
Absent == -1

LightningTypeOK ==
    /\ worker \in [at : {"none", "loop", "read", "sleep", "connect", "ended"}]
                  \cup [at : {"deliver"}, strike : Strikes]
    /\ stopRequested \in BOOLEAN /\ connected \in BOOLEAN /\ socketMade \in BOOLEAN
    /\ serverIndex \in 0 .. NumLightningServers - 1
    /\ updateTimer \in BOOLEAN
    /\ strikes \in Seq([key : Strikes, age : Ages])
    /\ recentKeys \in [Strikes -> Ages \cup {Absent}]
    /\ pendingUpdate \in BOOLEAN
    /\ dirty \in [Layers -> BOOLEAN]
    /\ visuals \in [Layers -> SUBSET Strikes]
    /\ slot \in {"none", "announce", "announcePending", "join", "clear"}

LightningInit ==
    /\ worker = [at |-> "none"]
    /\ stopRequested = FALSE /\ connected = FALSE /\ socketMade = FALSE
    /\ serverIndex = 0
    /\ updateTimer = FALSE
    /\ strikes = <<>>
    /\ recentKeys = [k \in Strikes |-> Absent]
    /\ pendingUpdate = FALSE
    /\ dirty = [l \in Layers |-> TRUE]
    /\ visuals = [l \in Layers |-> {}]
    /\ slot = "none"

IsActive == worker.at # "none"
WorkerGoes(from, to) == worker.at = from /\ worker' = [at |-> to]

----------------------------------------------------------------------------
(* The worker: RunLoop and Connect                                          *)

RunLoop ==
    /\ WorkerGoes("loop", IF stopRequested THEN "ended"
                          ELSE IF connected THEN "read" ELSE "sleep")
    /\ UNCHANGED <<stopRequested, connected, socketMade, serverIndex, updateTimer, strikes,
                   recentKeys, pendingUpdate, dirty, visuals, slot>>

(* A message; it may not be a strike.                                       *)
ReadMessage ==
    /\ worker.at = "read"
    /\ worker' \in IF stopRequested THEN {[at |-> "ended"]}
                   ELSE {[at |-> "loop"]} \cup [at : {"deliver"}, strike : Strikes]
    /\ UNCHANGED <<stopRequested, connected, socketMade, serverIndex, updateTimer, strikes,
                   recentKeys, pendingUpdate, dirty, visuals, slot>>

ReadFails ==
    /\ WorkerGoes("read", IF stopRequested THEN "loop" ELSE "sleep")
    /\ connected' = FALSE
    /\ socketMade' = FALSE
    /\ UNCHANGED <<stopRequested, serverIndex, updateTimer, strikes, recentKeys,
                   pendingUpdate, dirty, visuals, slot>>

(* After the delay, Connect: nothing if stop was requested meanwhile.       *)
BeginConnect ==
    /\ WorkerGoes("sleep", IF stopRequested THEN "loop" ELSE "connect")
    /\ socketMade' = (socketMade \/ ~stopRequested)
    /\ UNCHANGED <<stopRequested, connected, serverIndex, updateTimer, strikes, recentKeys,
                   pendingUpdate, dirty, visuals, slot>>

FollowingServer == (serverIndex + 1) % NumLightningServers

ConnectSucceeds ==
    /\ serverIndex \in UpServers
    /\ WorkerGoes("connect", "loop")
    /\ connected' = TRUE
    /\ serverIndex' = FollowingServer
    /\ UNCHANGED <<stopRequested, socketMade, updateTimer, strikes, recentKeys,
                   pendingUpdate, dirty, visuals, slot>>

(* Mutant of ConnectFails: the same server is tried again.                  *)
ConnectFailsSameServer ==
    /\ serverIndex \notin UpServers
    /\ WorkerGoes("connect", "loop")
    /\ socketMade' = FALSE
    /\ UNCHANGED <<stopRequested, connected, serverIndex, updateTimer, strikes, recentKeys,
                   pendingUpdate, dirty, visuals, slot>>

ConnectFails ==
    /\ serverIndex \notin UpServers
    /\ WorkerGoes("connect", "loop")
    /\ socketMade' = FALSE
    /\ serverIndex' = FollowingServer
    /\ UNCHANGED <<stopRequested, connected, updateTimer, strikes, recentKeys,
                   pendingUpdate, dirty, visuals, slot>>

(* OnNewStrike, under strikesMutex_.                                        *)
OnNewStrike ==
    /\ worker.at = "deliver"
    /\ worker' = [at |-> "loop"]
    /\ LET key == worker.strike IN
       IF recentKeys[key] # Absent
       THEN UNCHANGED <<strikes, recentKeys, pendingUpdate>>
       ELSE /\ recentKeys' = [recentKeys EXCEPT ![key] = 0]
            /\ strikes' = Append(strikes, [key |-> key, age |-> 0])
            /\ pendingUpdate' = TRUE
    /\ UNCHANGED <<stopRequested, connected, socketMade, serverIndex, updateTimer, dirty,
                   visuals, slot>>

----------------------------------------------------------------------------
(* The GUI thread                                                           *)

Start ==
    /\ slot = "none" /\ ~IsActive
    /\ updateTimer' = TRUE
    /\ worker' = [at |-> "loop"]
    /\ stopRequested' = FALSE
    /\ serverIndex' = 0
    /\ UNCHANGED <<connected, socketMade, strikes, recentKeys, pendingUpdate, dirty,
                   visuals, slot>>

(* Stop.  The socket's cancel() ends no read that blocks.                   *)
RequestStop ==
    /\ slot = "none" /\ IsActive
    /\ slot' = "join"
    /\ updateTimer' = FALSE
    /\ stopRequested' = TRUE
    /\ UNCHANGED <<worker, connected, socketMade, serverIndex, strikes, recentKeys,
                   pendingUpdate, dirty, visuals>>

JoinWorker ==
    /\ slot = "join" /\ slot' = "clear"
    /\ WorkerGoes("ended", "none")
    /\ socketMade' = FALSE /\ connected' = FALSE
    /\ UNCHANGED <<stopRequested, serverIndex, updateTimer, strikes, recentKeys,
                   pendingUpdate, dirty, visuals>>

(* Mutant of ClearStrikes: the keys stay.                                   *)
ClearStrikesOnly ==
    /\ slot = "clear" /\ slot' = "none"
    /\ strikes' = <<>>
    /\ UNCHANGED <<providerVars, updateTimer, recentKeys, pendingUpdate, dirty, visuals>>

ClearStrikes ==
    /\ slot = "clear" /\ slot' = "none"
    /\ strikes' = <<>>
    /\ recentKeys' = [k \in Strikes |-> Absent]
    /\ UNCHANGED <<providerVars, updateTimer, pendingUpdate, dirty, visuals>>

(* PruneKeys                                                                *)
Fresh == [key : Strikes, age : 0 .. StrikeLife]

(* Mutant of Pruned: the lifetimes are swapped.                             *)
PrunedSwapped ==
    /\ strikes' = Keeping(strikes, [key : Strikes, age : 0 .. KeyLife])
    /\ recentKeys' = [k \in Strikes |-> IF recentKeys[k] > StrikeLife THEN Absent
                                        ELSE recentKeys[k]]

Pruned ==
    /\ strikes' = Keeping(strikes, Fresh)
    /\ recentKeys' = [k \in Strikes |-> IF recentKeys[k] > KeyLife THEN Absent
                                        ELSE recentKeys[k]]

(* OnTimerTick: first the flag is taken, then old strikes are removed and   *)
(* the layers told.                                                         *)
ConsumePendingUpdate ==
    /\ updateTimer /\ slot = "none"
    /\ slot' = IF pendingUpdate THEN "announcePending" ELSE "announce"
    /\ pendingUpdate' = FALSE
    /\ UNCHANGED <<providerVars, updateTimer, strikes, recentKeys, dirty, visuals>>

(* Mutant of StrikesUpdated: the flag is cleared when the layers are told.  *)
StrikesUpdatedThenCleared ==
    /\ slot \in {"announce", "announcePending"} /\ slot' = "none"
    /\ Pruned
    /\ dirty' = IF slot = "announcePending" \/ Len(strikes') # Len(strikes)
                THEN [l \in Layers |-> TRUE] ELSE dirty
    /\ pendingUpdate' = FALSE
    /\ UNCHANGED <<providerVars, updateTimer, visuals>>

StrikesUpdated ==
    /\ slot \in {"announce", "announcePending"} /\ slot' = "none"
    /\ Pruned
    /\ dirty' = IF slot = "announcePending" \/ Len(strikes') # Len(strikes)
                THEN [l \in Layers |-> TRUE] ELSE dirty
    /\ UNCHANGED <<providerVars, updateTimer, pendingUpdate, visuals>>

(* GetActiveStrikes: what is not yet old enough to be removed may be too    *)
(* old to be shown.                                                         *)
Active == {i \in 1 .. Len(strikes) : strikes[i].age < StrikeLife}

(* Render: UpdateStrikes of a layer whose data is dirty.  Fetching what is  *)
(* active prunes, too.                                                      *)
Render(l) ==
    /\ slot = "none" /\ IsActive
    /\ dirty[l] /\ dirty' = [dirty EXCEPT ![l] = FALSE]
    /\ Pruned
    /\ visuals' = [visuals EXCEPT ![l] =
                     {strikes[i].key : i \in Active}]
    /\ UNCHANGED <<providerVars, updateTimer, pendingUpdate, slot>>

----------------------------------------------------------------------------
(* Time passes.                                                             *)
Older(age) == IF age \in 0 .. KeyLife THEN age + 1 ELSE age

Tick ==
    /\ \/ \E i \in 1 .. Len(strikes) : strikes[i].age < Oldest
       \/ \E k \in Strikes : recentKeys[k] \in 0 .. KeyLife
    /\ strikes' = [i \in 1 .. Len(strikes) |-> [strikes[i] EXCEPT !.age = Older(@)]]
    /\ recentKeys' = [k \in Strikes |-> Older(recentKeys[k])]
    /\ UNCHANGED <<providerVars, updateTimer, pendingUpdate, dirty, visuals, slot>>

----------------------------------------------------------------------------
WorkerStep ==
    \/ RunLoop \/ ReadMessage \/ ReadFails \/ BeginConnect
    \/ ConnectSucceeds \/ ConnectFails \/ OnNewStrike

StopReturnsStep == JoinWorker \/ ClearStrikes

LightningNext ==
    \/ WorkerStep
    \/ Start \/ RequestStop \/ StopReturnsStep
    \/ ConsumePendingUpdate \/ StrikesUpdated
    \/ \E l \in Layers : Render(l)
    \/ Tick

(* The worker runs; a read ends sooner or later, since servers send or the  *)
(* connection breaks, and so does an attempt to connect.                    *)
LightningFairness ==
    /\ WF_lightningVars(WorkerStep)
    /\ WF_lightningVars(StopReturnsStep)

LightningSpec == LightningInit /\ [][LightningNext]_lightningVars /\ LightningFairness

----------------------------------------------------------------------------
(* A strike is kept once, however often it is sent while it is kept: the    *)
(* key that stops it outlives it, whoever prunes, and when.                 *)
NoStrikeTwice ==
    \A i, j \in 1 .. Len(strikes) : strikes[i].key = strikes[j].key => i = j

(* A strike reaches every layer: one that does not show it will fetch it,   *)
(* or will be told, although the flag is taken before the layers are told.  *)
StrikesReachLayers ==
    \A l \in Layers :
       \/ dirty[l] \/ pendingUpdate \/ slot = "announcePending"
       \/ \A i \in Active : strikes[i].key \in visuals[l]

(* Stopping leaves nothing: a strike that was read when stop was requested  *)
(* does not appear, and does not keep its successor out after a new start.  *)
StoppedIsEmpty ==
    slot = "none" /\ ~IsActive =>
       /\ strikes = <<>> /\ \A k \in Strikes : recentKeys[k] = Absent
       /\ ~connected /\ ~socketMade

(* The GUI thread, which waits for the worker, is let go.                   *)
StopReturns == slot = "join" ~> slot = "none"

(* A provider that runs gets connected, again and again, as long as any     *)
(* server accepts it: every server has its turn.                            *)
GetsConnected == UpServers # {} => []<>(connected \/ stopRequested \/ ~IsActive)
=============================================================================
