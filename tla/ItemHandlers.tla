---------------------------- MODULE ItemHandlers ----------------------------
(***************************************************************************)
(* What becomes of an item that the session has handed out: the manager    *)
(* and the handlers it creates (ItemHandlerManager.cpp,                    *)
(* ItemHandlerRegistry.cpp, item_handlers/), the controllers behind them   *)
(* (UnlockableController.cpp, RespectController.cpp, WeatherController.cpp,*)
(* CheatController.cpp) and the game-thread dispatcher they share          *)
(* (GameThreadDispatcher.cpp).  The handler of hooked activities is in     *)
(* WorldUnlocks; the session that hands items out is in ItemDelivery.      *)
(*                                                                         *)
(* The plugin thread asks, updates and removes; the game thread runs the   *)
(* dispatcher's batches and, between them, the game: its save and          *)
(* checkpoint loads, its queue of unlocks, its weather.  A completion      *)
(* reports FALSE when the last copy of it goes without a report.           *)
(*                                                                         *)
(* Loading a world takes longer than a turn of the plugin loop and the     *)
(* frame after it.  A load writes the player's respect in the call that    *)
(* the load hook precedes.                                                 *)
(***************************************************************************)
EXTENDS Naturals, Sequences, FiniteSets, SequencesExt

CONSTANTS
  Configurations, \* sets of handlers, one of which the slot configures
  WeatherStage,   \* the stage of each weather item
  LuaItems,       \* activity unlocks the game's Lua functions carry out
  Unlocks,        \* unlockables, by hash
  NativeRoom,     \* entries the game's unlock queue holds
  MaxFrames,      \* frames a weather stage may take to show
  MaxBars,        \* respect at its limit
  MaxWorld,       \* bound on the worlds one process loads
  MaxRequests,    \* bound on the items handed out
  MaxRewards      \* bound on the unlocks the game itself gives in a world

Handlers == {"Cheat", "Weather", "Notoriety", "Respect", "Unlockable", "Money", "Lua",
             "Weapon", "Consumable"}
NoStage == "Clear"
Stages == {WeatherStage[item] : item \in DOMAIN WeatherStage} \cup {NoStage}

ASSUME ItemHandlersAssumption ==
  /\ Configurations \subseteq SUBSET Handlers
  /\ NativeRoom \in Nat /\ MaxFrames \in Nat /\ MaxBars \in Nat \ {0}
  /\ MaxWorld \in Nat /\ MaxRequests \in Nat /\ MaxRewards \in Nat

VARIABLES
  configured,  \* the handlers of this slot; never changes
  mode,        \* GameReadiness as the game's memory shows it
  live,        \* GameEventQueue.liveEpoch_
  observed,    \* GameEventQueue.observedEpoch_
  respectDue,  \* the load in progress has still to write the player's respect
  bars,        \* the player's respect
  checkpoint,  \* respect and unlocked activities at the start of the level
  unlocked,    \* activities the game has unlocked
  nativeQueue, \* the game's queue of unlocks to process
  rewards,     \* unlocks the game itself gave in this world
  bashStage,   \* the weather the game is told to show
  shownStage,  \* the weather it shows
  handlers,    \* ItemHandlerManager.installed_; "Removing" while CancelPending has
               \* cleared the tasks and waits for the batch
  pendingTasks,\* GameThreadDispatcher.pendingTasks
  batch,       \* the tasks a frame has taken and not run yet; drainMutex is held
               \* while there are any
  resetEpoch,  \* the epoch for which the session's reset was accepted
  requests,    \* the items handed out, with what became of them
  permitted,   \* RespectController.permittedLoadThread is set
  appliedItems,\* LuaActivityUnlockItemHandler.appliedItems_
  checkpointRestored, \* and its flag
  backlog,     \* UnlockableController.backlog
  outstanding, \* UnlockableController.outstanding
  allowances,  \* UnlockableController.allowances
  flushQueued, \* UnlockableController.flushQueued
  expected,    \* history: the respect of the save and the bars granted since, or
               \* what the game made of it before the handler was installed
  lateInstall, \* history: the handler was installed in the middle of the last load
  stray        \* history: something took effect outside the world it was for

worldVars   == <<configured, mode, live>>
levelVars   == <<checkpoint, unlocked>>
respectVars == <<respectDue, bars, permitted, expected, lateInstall>>
weatherVars == <<bashStage, shownStage>>
taskVars    == <<pendingTasks, batch>>
managerVars == <<handlers, observed, resetEpoch>>
luaVars     == <<appliedItems, checkpointRestored>>
unlockVars  == <<nativeQueue, rewards, backlog, outstanding, allowances, flushQueued, stray>>
vars == <<worldVars, levelVars, respectVars, weatherVars, taskVars, managerVars, requests,
          luaVars, unlockVars>>

Ids == 1..Len(requests)
NoTask == [kind |-> "None", id |-> 0, stage |-> NoStage, frames |-> 0]
Task(kind) == [NoTask EXCEPT !.kind = kind]
ItemTask(id) == [NoTask EXCEPT !.kind = "Item", !.id = id]
ReleaseTask(stage, frames) == [kind |-> "Release", id |-> 0, stage |-> stage, frames |-> frames]

ItemsOf(handler) ==
  CASE handler = "Weather"    -> DOMAIN WeatherStage
    [] handler = "Lua"        -> LuaItems
    [] handler = "Unlockable" -> Unlocks
    [] OTHER                  -> {handler}

\* An item of the session: its handler, the epoch of its completion, what the
\* completion reported and how often the item took effect.
Request(handler, item) ==
  [handler |-> handler, item |-> item, epoch |-> observed, outcome |-> "Held", effect |-> 0]
Report(ids, outcome) ==
  [id \in Ids |-> IF id \in ids /\ requests[id].outcome = "Held"
                  THEN [requests[id] EXCEPT !.outcome = outcome] ELSE requests[id]]
Effect(id) == [requests EXCEPT ![id].effect = @ + 1, ![id].outcome = "True"]
IsCurrent(id) == requests[id].epoch = live
CanApply(id) == IsCurrent(id) /\ mode = "Interactive"

Init ==
  /\ configured \in Configurations
  /\ mode = "MainMenu" /\ live = 0 /\ observed = 0 /\ respectDue = "No" /\ bars = 0
  /\ checkpoint = [bars |-> 0, unlocked |-> {}] /\ unlocked = {}
  /\ nativeQueue = <<>> /\ rewards = 0
  /\ bashStage = NoStage /\ shownStage = NoStage
  /\ handlers = "No"
  /\ pendingTasks = <<>> /\ batch = <<>>
  /\ resetEpoch = 0 /\ requests = <<>>
  /\ permitted = FALSE
  /\ appliedItems = {} /\ checkpointRestored = FALSE
  /\ backlog = <<>> /\ outstanding = <<>> /\ allowances = [h \in Unlocks |-> 0]
  /\ flushQueued = FALSE
  /\ expected = 0 /\ lateInstall = FALSE /\ stray = FALSE

-----------------------------------------------------------------------------
\* The game, between two batches.

Draining == batch # <<>>
Installed == handlers \in {"Yes", "Removing"}
Has(handler) == Installed /\ handler \in configured

\* The load hook permits the respect of the save before anything is loaded; the
\* world before takes its queue and its level with it.  What the save holds is
\* chosen here.
LoadSave ==
  /\ ~Draining /\ mode # "Loading" /\ live < MaxWorld
  /\ mode' = "Loading" /\ live' = live + 1
  /\ permitted' = (permitted \/ Has("Respect"))
  /\ respectDue' = IF Has("Respect") THEN "Permitted" ELSE "Unwatched"
  /\ \E saved \in IF "Respect" \in configured THEN 0..1 ELSE {0} :
       checkpoint' = [bars |-> saved, unlocked |-> {}]
  /\ unlocked' = {} /\ nativeQueue' = <<>> /\ rewards' = 0 /\ shownStage' = NoStage
  /\ UNCHANGED <<configured, bars, expected, lateInstall, bashStage, taskVars, managerVars, requests,
                 luaVars, backlog, outstanding, allowances, flushQueued, stray>>

\* SaveLoadHook, at the patched instruction that writes the respect: it writes it
\* if a load was permitted, and uses that up.  A handler that was installed after the
\* load hook ran knows of no load, and the respect of the save is blocked.
Restored(value) == IF Has("Respect") /\ ~permitted THEN bars ELSE value
KeepPermit == permitted
UsePermit == permitted /\ ~Has("Respect")

LoadWritesRespect ==
  /\ ~Draining /\ respectDue # "No"
  /\ respectDue' = "No"
  /\ bars' = Restored(checkpoint.bars) /\ permitted' = UsePermit
  /\ expected' = checkpoint.bars
  /\ lateInstall' = (respectDue = "Unwatched" /\ Has("Respect"))
  /\ UNCHANGED <<worldVars, levelVars, weatherVars, taskVars, managerVars, requests,
                 luaVars, unlockVars>>

\* By then the plugin has drained the load and the unlocks of the world before are
\* no longer tracked.
Stale(entries) == {i \in DOMAIN entries : ~IsCurrent(entries[i])}
FinishLoading ==
  /\ ~Draining /\ mode = "Loading" /\ respectDue = "No"
  /\ Stale(backlog) = {} /\ Stale(outstanding) = {}
  /\ mode' = "Ready"
  /\ UNCHANGED <<configured, live, levelVars, respectVars, weatherVars, taskVars,
                 managerVars, requests, luaVars, unlockVars>>

ChangeControl ==
  /\ ~Draining /\ mode \in {"Ready", "Interactive"}
  /\ mode' = IF mode = "Ready" THEN "Interactive" ELSE "Ready"
  /\ UNCHANGED <<configured, live, levelVars, respectVars, weatherVars, taskVars,
                 managerVars, requests, luaVars, unlockVars>>

\* A level begins with a checkpoint ...
BeginLevel ==
  /\ ~Draining /\ mode = "Interactive"
  /\ checkpoint' = [bars |-> bars, unlocked |-> unlocked]
  /\ checkpoint' # checkpoint
  /\ UNCHANGED <<worldVars, unlocked, respectVars, weatherVars, taskVars, managerVars,
                 requests, luaVars, unlockVars>>

\* ... and restarts from it: activities and, without the hook, the respect are those
\* of the checkpoint.  A restart takes longer than a frame, so that a third
\* reapplication never waits for one.
RestartLevel ==
  /\ ~Draining /\ mode = "Interactive"
  /\ Cardinality({i \in DOMAIN pendingTasks : pendingTasks[i].kind = "Reapply"}) < 2
  /\ mode' = "Ready"
  /\ unlocked' = checkpoint.unlocked
  /\ checkpointRestored' = (checkpointRestored \/ Has("Lua"))
  /\ bars' = Restored(checkpoint.bars) /\ permitted' = UsePermit
  /\ expected' = IF Has("Respect") THEN expected ELSE bars'
  /\ UNCHANGED <<configured, live, checkpoint, respectDue, lateInstall, weatherVars, taskVars,
                 managerVars, requests, appliedItems, unlockVars>>

\* The game's own writers of respect are patched out.
GameAwardsRespect ==
  /\ ~Draining /\ mode = "Interactive" /\ "Respect" \in configured
  /\ ~Has("Respect") /\ bars < MaxBars
  /\ bars' = bars + 1 /\ expected' = bars'
  /\ UNCHANGED <<worldVars, levelVars, respectDue, permitted, lateInstall, weatherVars, taskVars,
                 managerVars, requests, luaVars, unlockVars>>

WeatherTick ==
  /\ ~Draining /\ "Weather" \in configured
  /\ shownStage' \in IF bashStage = NoStage THEN Stages ELSE {bashStage}
  /\ shownStage' # shownStage
  /\ UNCHANGED <<worldVars, levelVars, respectVars, bashStage, taskVars, managerVars,
                 requests, luaVars, unlockVars>>

\* The game rewards a level with an unlockable ...
GameGivesReward(hash) ==
  /\ ~Draining /\ mode = "Interactive" /\ "Unlockable" \in configured
  /\ rewards < MaxRewards /\ Len(nativeQueue) < NativeRoom
  /\ rewards' = rewards + 1 /\ nativeQueue' = Append(nativeQueue, hash)
  /\ UNCHANGED <<worldVars, levelVars, respectVars, weatherVars, taskVars, managerVars,
                 requests, luaVars, backlog, outstanding, allowances, flushQueued, stray>>

\* ... and carries out what its queue holds.  The hook lets pass what a received item
\* pays for, and completes the first such item; the rest is the game's own, blocked or
\* not, and changes nothing here.
ConsumeAllowance(hash) == [allowances EXCEPT ![hash] = IF @ = 0 THEN 0 ELSE @ - 1]
Paid(hash) == Has("Unlockable") /\ allowances[hash] > 0
For(hash) == {i \in DOMAIN outstanding : requests[outstanding[i]].item = hash}

CompleteOutstanding(hash) ==
  LET first == Min(For(hash)) IN
  /\ requests' = IF For(hash) = {} THEN requests ELSE Effect(outstanding[first])
  /\ outstanding' = IF For(hash) = {} THEN outstanding ELSE RemoveAt(outstanding, first)
  /\ stray' = (stray \/ For(hash) = {} \/ ~IsCurrent(outstanding[first]))

GameProcessesUnlock ==
  /\ ~Draining /\ nativeQueue # <<>>
  /\ nativeQueue' = Tail(nativeQueue)
  /\ LET hash == Head(nativeQueue) IN
       IF Paid(hash)
       THEN allowances' = ConsumeAllowance(hash) /\ CompleteOutstanding(hash)
       ELSE UNCHANGED <<allowances, requests, outstanding, stray>>
  /\ UNCHANGED <<worldVars, levelVars, respectVars, weatherVars, taskVars, managerVars,
                 luaVars, rewards, backlog, flushQueued>>

-----------------------------------------------------------------------------
\* A frame of the game thread: DrainPendingTasks.

StartFrame ==
  /\ ~Draining /\ pendingTasks # <<>>
  /\ batch' = pendingTasks /\ pendingTasks' = <<>>
  /\ UNCHANGED <<worldVars, levelVars, respectVars, weatherVars, managerVars, requests,
                 luaVars, unlockVars>>

Runs(kind) == Draining /\ Head(batch).kind = kind /\ batch' = Tail(batch)
Id == Head(batch).id
RunsItem(of) == Runs("Item") /\ requests[Id].handler \in of /\ CanApply(Id)

\* The completion goes with the task, unused.
RunStaleItem ==
  /\ Runs("Item") /\ ~CanApply(Id)
  /\ requests' = Report({Id}, "False")
  /\ UNCHANGED <<worldVars, levelVars, respectVars, weatherVars, managerVars, luaVars,
                 pendingTasks, unlockVars>>

\* Cheats and traps call into the game, which tells nothing; the others ask its Lua
\* functions, which may fail.
Untold == {"Cheat", "Notoriety"}
RunSimpleItem ==
  /\ RunsItem(Untold \cup {"Money", "Consumable"})
  /\ \/ requests' = Effect(Id)
     \/ requests[Id].handler \notin Untold /\ requests' = Report({Id}, "False")
  /\ UNCHANGED <<worldVars, levelVars, respectVars, weatherVars, managerVars, luaVars,
                 pendingTasks, unlockVars>>

\* A weapon is given, or not, before its ammunition is.
AmmoDecides(ammoGiven) == IF ammoGiven THEN "True" ELSE "False"
WeaponGiven(ammoGiven) == "True"
RunWeaponItem ==
  /\ RunsItem({"Weapon"})
  /\ \/ \E ammoGiven \in BOOLEAN :
          requests' = [Effect(Id) EXCEPT ![Id].outcome = WeaponGiven(ammoGiven)]
     \/ requests' = Report({Id}, "False")
  /\ UNCHANGED <<worldVars, levelVars, respectVars, weatherVars, managerVars, luaVars,
                 pendingTasks, unlockVars>>

\* GrantBar; there may be no player to give it to.
BarAdded(value) == value + 1
BarGranted(value) == Min({value + 1, MaxBars})
RunRespectItem ==
  /\ RunsItem({"Respect"})
  /\ \/ /\ bars' = BarGranted(bars) /\ expected' = BarGranted(expected)
        /\ requests' = Effect(Id)
     \/ requests' = Report({Id}, "False") /\ UNCHANGED <<bars, expected>>
  /\ UNCHANGED <<worldVars, levelVars, respectDue, permitted, lateInstall, weatherVars,
                 managerVars, luaVars, pendingTasks, unlockVars>>

\* One activity of an item may fail to unlock; the whole item is then tried again.
RunLuaItem ==
  /\ RunsItem({"Lua"})
  /\ \/ /\ unlocked' = unlocked \cup {requests[Id].item}
        /\ appliedItems' = appliedItems \cup {requests[Id].item}
        /\ requests' = Effect(Id)
     \/ requests' = Report({Id}, "False") /\ UNCHANGED <<unlocked, appliedItems>>
  /\ UNCHANGED <<worldVars, checkpoint, respectVars, weatherVars, managerVars,
                 checkpointRestored, pendingTasks, unlockVars>>

RunWeatherItem ==
  /\ RunsItem({"Weather"})
  /\ LET stage == WeatherStage[requests[Id].item] IN
       /\ bashStage' = stage
       /\ pendingTasks' = Append(pendingTasks, ReleaseTask(stage, MaxFrames))
  /\ requests' = Effect(Id)
  /\ UNCHANGED <<worldVars, levelVars, respectVars, shownStage, managerVars, luaVars,
                 unlockVars>>

\* The stage is released once the game shows it, or has had the time to.
SameFrames(frames) == frames
FramesLeft(frames) == frames - 1
StillWaits(stage, frames) == frames > 0 /\ shownStage # stage
RunRelease ==
  /\ Runs("Release")
  /\ LET task == Head(batch) IN
       IF bashStage # task.stage THEN UNCHANGED <<bashStage, pendingTasks>>
       ELSE IF StillWaits(task.stage, task.frames)
       THEN /\ pendingTasks' = Append(pendingTasks, ReleaseTask(task.stage, FramesLeft(task.frames)))
            /\ UNCHANGED bashStage
       ELSE bashStage' = NoStage /\ UNCHANGED pendingTasks
  /\ UNCHANGED <<worldVars, levelVars, respectVars, shownStage, managerVars, requests,
                 luaVars, unlockVars>>

\* FlushBacklog: what is of another world is dropped; as much of the rest as the
\* game's queue takes is put there, with an allowance for each.
AllowancesKept == allowances
FreeAllowances ==
  [hash \in Unlocks |->
     allowances[hash] - Cardinality({i \in Stale(outstanding) :
                                       requests[outstanding[i]].item = hash})]

\* What std::erase_if leaves of a list, in its order.
OfThisWorld(entries) ==
  LET current == DOMAIN entries \ Stale(entries)
      Place(n) == CHOOSE i \in current : Cardinality(current \cap 1..i) = n
  IN [n \in 1..Cardinality(current) |-> entries[Place(n)]]

FlushBacklog(log) ==
  LET kept == OfThisWorld(log)
      room == IF mode = "Interactive" THEN NativeRoom - Len(nativeQueue) ELSE 0
      moved == SubSeq(kept, 1, Min({room, Len(kept)}))
      ItemOf(id) == requests[id].item
  IN
  /\ backlog' = SubSeq(kept, Len(moved) + 1, Len(kept))
  /\ outstanding' = OfThisWorld(outstanding) \o moved
  /\ nativeQueue' = nativeQueue \o [i \in DOMAIN moved |-> ItemOf(moved[i])]
  /\ allowances' = [hash \in Unlocks |->
       FreeAllowances[hash] + Cardinality({i \in DOMAIN moved : ItemOf(moved[i]) = hash})]
  /\ requests' = Report({id \in ToSet(log) \cup ToSet(outstanding) : ~IsCurrent(id)}, "False")

RunUnlockableItem ==
  /\ RunsItem({"Unlockable"})
  /\ FlushBacklog(Append(backlog, Id))
  /\ UNCHANGED <<worldVars, levelVars, respectVars, weatherVars, managerVars, luaVars,
                 pendingTasks, rewards, flushQueued, stray>>

FlushStaysQueued == flushQueued
FlushIsDone == FALSE
RunFlush ==
  /\ Runs("Flush") /\ FlushBacklog(backlog)
  /\ flushQueued' = FlushIsDone
  /\ UNCHANGED <<worldVars, levelVars, respectVars, weatherVars, managerVars, luaVars,
                 pendingTasks, rewards, stray>>

RunReset ==
  /\ Runs("Reset")
  /\ appliedItems' = {} /\ checkpointRestored' = FALSE
  /\ UNCHANGED <<worldVars, levelVars, respectVars, weatherVars, managerVars, requests,
                 pendingTasks, unlockVars>>

\* ReapplyItems, which waits until the restored level can be played.
ReapplyOnce == FALSE
ReapplyLater == mode # "Interactive"
RunReapply ==
  /\ Runs("Reapply")
  /\ checkpointRestored' = (checkpointRestored \/ ReapplyLater)
  /\ unlocked' = IF mode = "Interactive" THEN unlocked \cup appliedItems ELSE unlocked
  /\ UNCHANGED <<worldVars, checkpoint, respectVars, weatherVars, managerVars, requests,
                 appliedItems, pendingTasks, unlockVars>>

-----------------------------------------------------------------------------
\* The plugin thread.

Dispatch(task) == pendingTasks' = Append(pendingTasks, task)

\* Install, for the first session; a handler that cannot be installed takes the others
\* down, and the next session finds none.  The policy is then kept until the plugin is
\* shut down.
Install ==
  /\ handlers = "No"
  /\ handlers' = "Yes"
  /\ UNCHANGED <<worldVars, levelVars, respectVars, weatherVars, taskVars, observed,
                 resetEpoch, requests, luaVars, unlockVars>>

ObserveLoads ==
  /\ observed # live
  /\ observed' = live
  /\ UNCHANGED <<worldVars, levelVars, respectVars, weatherVars, taskVars, handlers,
                 resetEpoch, requests, luaVars, unlockVars>>

\* The session has the persistent items reset in each world before it replays them.
ResetState ==
  /\ handlers = "Yes" /\ observed > 0 /\ resetEpoch # observed
  /\ Dispatch(Task("Reset")) /\ resetEpoch' = observed
  /\ UNCHANGED <<worldVars, levelVars, respectVars, weatherVars, batch, handlers,
                 observed, requests, luaVars, unlockVars>>

\* Handle: the session asks for one item of a world at a time.  A handler that finds
\* the game's tables not as it knows them refuses.
InHand == {id \in Ids : requests[id].outcome = "Held" /\ requests[id].epoch = observed}
Tables == {"Cheat", "Weather", "Unlockable"}

Handle(handler, item) ==
  /\ handlers = "Yes" /\ handler \in configured
  /\ observed > 0 /\ resetEpoch = observed
  /\ Len(requests) < MaxRequests /\ InHand = {}
  /\ LET request == Request(handler, item) IN
       \/ requests' = Append(requests, request) /\ Dispatch(ItemTask(Len(requests) + 1))
       \/ /\ handler \in Tables
          /\ requests' = Append(requests, [request EXCEPT !.outcome = "False"])
          /\ UNCHANGED pendingTasks
  /\ UNCHANGED <<worldVars, levelVars, respectVars, weatherVars, batch, managerVars, luaVars,
                 unlockVars>>

UpdateUnlockable ==
  /\ handlers = "Yes"
  /\ (backlog # <<>> \/ outstanding # <<>>) /\ ~flushQueued
  /\ flushQueued' = TRUE /\ Dispatch(Task("Flush"))
  /\ UNCHANGED <<worldVars, levelVars, respectVars, weatherVars, batch, managerVars,
                 requests, luaVars, nativeQueue, rewards, backlog, outstanding, allowances,
                 stray>>

UpdateLua ==
  /\ handlers = "Yes" /\ checkpointRestored
  /\ checkpointRestored' = FALSE /\ Dispatch(Task("Reapply"))
  /\ UNCHANGED <<worldVars, levelVars, respectVars, weatherVars, batch, managerVars,
                 requests, appliedItems, unlockVars>>

\* Remove: CancelPending clears the tasks ...
CancelPending ==
  /\ handlers = "Yes"
  /\ handlers' = "Removing"
  /\ requests' = Report({task.id : task \in ToSet(pendingTasks)}, "Dropped")
  /\ pendingTasks' = <<>>
  /\ UNCHANGED <<worldVars, levelVars, respectVars, weatherVars, batch, observed, resetEpoch, luaVars, unlockVars>>

\* ... and waits for the batch; then the handlers go with all they hold.
GoesAtOnce == TRUE
BatchIsOver == ~Draining
FinishRemove ==
  /\ handlers = "Removing" /\ BatchIsOver
  /\ handlers' = "Gone" /\ resetEpoch' = 0
  /\ permitted' = FALSE
  /\ appliedItems' = {} /\ checkpointRestored' = FALSE
  /\ requests' = Report(ToSet(backlog) \cup ToSet(outstanding), "Dropped")
  /\ backlog' = <<>> /\ outstanding' = <<>> /\ allowances' = [hash \in Unlocks |-> 0]
  /\ flushQueued' = FALSE
  /\ UNCHANGED <<worldVars, levelVars, respectDue, bars, expected, lateInstall, weatherVars, taskVars,
                 observed, nativeQueue, rewards, stray>>

-----------------------------------------------------------------------------
RunTask ==
  \/ RunStaleItem \/ RunSimpleItem \/ RunWeaponItem \/ RunRespectItem \/ RunLuaItem
  \/ RunWeatherItem \/ RunRelease \/ RunUnlockableItem \/ RunFlush \/ RunReset
  \/ RunReapply
Game ==
  \/ LoadSave \/ LoadWritesRespect \/ FinishLoading \/ ChangeControl
  \/ BeginLevel \/ RestartLevel \/ GameAwardsRespect \/ WeatherTick
  \/ \E hash \in Unlocks : GameGivesReward(hash)
  \/ GameProcessesUnlock
Plugin ==
  \/ Install \/ ObserveLoads \/ ResetState \/ UpdateUnlockable \/ UpdateLua
  \/ \E handler \in configured : \E item \in ItemsOf(handler) : Handle(handler, item)
  \/ CancelPending \/ FinishRemove
Next == Game \/ StartFrame \/ RunTask \/ Plugin

Spec == Init /\ [][Next]_vars

\* Frames keep coming, the plugin loop keeps turning, and between the frames the game
\* works through its queue of unlocks.
Fairness ==
  /\ WF_vars(StartFrame) /\ WF_vars(RunTask)
  /\ WF_vars(ObserveLoads) /\ WF_vars(UpdateUnlockable) /\ WF_vars(UpdateLua)
  /\ WF_vars(FinishRemove) /\ SF_vars(GameProcessesUnlock)
FairSpec == Spec /\ Fairness

-----------------------------------------------------------------------------
\* Shapes of the state, and the bounds.
TypeOK ==
  /\ configured \in Configurations
  /\ mode \in {"MainMenu", "Loading", "Ready", "Interactive"}
  /\ live \in 0..MaxWorld /\ observed \in 0..live /\ resetEpoch \in 0..observed
  /\ respectDue \in {"No", "Permitted", "Unwatched"} /\ permitted \in BOOLEAN
  /\ bars \in 0..MaxBars /\ expected \in 0..MaxBars
  /\ checkpoint.bars \in 0..MaxBars /\ checkpoint.unlocked \subseteq LuaItems
  /\ unlocked \subseteq LuaItems /\ appliedItems \subseteq LuaItems
  /\ checkpointRestored \in BOOLEAN
  /\ nativeQueue \in Seq(Unlocks) /\ Len(nativeQueue) <= NativeRoom
  /\ rewards \in 0..MaxRewards
  /\ bashStage \in Stages /\ shownStage \in Stages
  /\ handlers \in {"No", "Yes", "Removing", "Gone"}
  /\ Len(requests) <= MaxRequests
  /\ \A id \in Ids : /\ requests[id].outcome \in {"Held", "True", "False", "Dropped"}
                     /\ requests[id].effect \in 0..1
  /\ backlog \in Seq(Ids) /\ outstanding \in Seq(Ids)
  /\ allowances \in [Unlocks -> 0..MaxRequests]
  /\ flushQueued \in BOOLEAN /\ stray \in BOOLEAN /\ lateInstall \in BOOLEAN

\* What an item's completion tells the session is what became of the item: TRUE once
\* it has taken effect, once, and FALSE only of an item that has not (ItemCompletion is
\* passed through tasks, backlog and hook, and reports on its own when lost).
TruthfulCompletions ==
  \A id \in Ids : requests[id].effect = IF requests[id].outcome = "True" THEN 1 ELSE 0

\* The hook lets a blocked unlock pass only for an item of the world it is in: an
\* allowance does not outlive the item it was made for.
AllowancesArePaidFor ==
  /\ ~stray
  /\ \A hash \in Unlocks : allowances[hash] = Cardinality(For(hash))

\* An activity whose item was reported as applied in this world is unlocked whenever
\* the level can be played and no reapplication is under way, however often the level
\* restarts from its checkpoint.
Reapplying ==
  \/ checkpointRestored
  \/ \E task \in ToSet(pendingTasks) \cup ToSet(batch) : task.kind = "Reapply"
LuaUnlocksSurvive ==
  handlers = "Yes" /\ mode = "Interactive" /\ ~Reapplying =>
    \A id \in Ids : requests[id].handler = "Lua" /\ requests[id].outcome = "True"
                    /\ IsCurrent(id) => requests[id].item \in unlocked

\* While the handler is installed the player's respect is what the save held and the
\* session granted since: neither a checkpoint nor the game adds or takes any, and no
\* load is taken for a checkpoint (SaveLoadHook and the permits it uses).  One case is
\* excepted because the code gets it wrong: a handler that is installed between the
\* load hook and the write blocks the respect of that save, until the next load.
RespectIsEarned ==
  Has("Respect") /\ respectDue = "No" /\ ~lateInstall => bars = expected

\* A task that uses a handler never runs once the handler is gone: Remove has waited
\* for the batch it may be in.
Owned == {"Flush", "Reset", "Reapply"}
NoTaskOutlivesItsHandler ==
  handlers = "Gone" =>
    \A task \in ToSet(pendingTasks) \cup ToSet(batch) :
      /\ task.kind \notin Owned
      /\ task.kind # "Item"

IsHeld(id) == id \in Ids /\ requests[id].outcome = "Held"

\* A world that is played on answers every item it was handed.
EveryRequestCompletes ==
  \A id \in 1..MaxRequests : <>[](mode = "Interactive") => (IsHeld(id) ~> ~IsHeld(id))

\* A weather item does not hold the weather for ever.
WeatherIsReleased == bashStage # NoStage ~> (bashStage = NoStage \/ ~Installed)
=============================================================================
