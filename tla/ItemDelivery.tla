---------------------------- MODULE ItemDelivery ----------------------------
(***************************************************************************)
(* The plugin as it runs: SessionRuntime driven by the plugin thread       *)
(* (Plugin.cpp, SessionRuntime.cpp), the game thread with its save hooks   *)
(* and frame tasks (SaveRevisionMonitor.cpp, GameThreadDispatcher.cpp,     *)
(* the item handlers), the event queue with its world epochs between them  *)
(* (GameEvents.cpp), and an AP client that delivers the slot's items in    *)
(* any order and as often as it likes.                                     *)
(*                                                                         *)
(* The two threads meet in the event queue, the task queue, two epochs and *)
(* the readiness that the plugin thread reads once per loop; each step     *)
(* below is what one thread does between two such meetings.                *)
(***************************************************************************)
EXTENDS SessionRuntime, Sequences

CONSTANTS
  Slot,        \* the AP session the client offers
  Inventory,   \* the items the slot has received, by index
  HookItems,   \* items whose handler checks IsCurrent instead of CanApply
  MaxEpoch     \* bound on the loads and world ends of one process

Indices == 0..(MaxIndex - 1)

ASSUME DeliveryAssumption ==
  /\ Slot \in Sessions
  /\ Inventory \in [Indices -> Items]
  /\ HookItems \subseteq Items
  /\ MaxEpoch \in Nat

VARIABLES
  mode,      \* GameReadiness as the game's memory shows it
  world,     \* the loaded world: how often each item was applied to it
  saves,     \* the save files, by checksum
  held,      \* persistent items in effect in the game
  menuPolled,\* history: the plugin loop has turned at this main menu
  recorded,  \* history: saves whose cursor the journal file has from their world
  live,      \* GameEventQueue.liveEpoch_
  observed,  \* GameEventQueue.observedEpoch_
  events,    \* GameEventQueue.events_
  tasks,     \* GameThreadDispatcher's pending tasks
  pc,        \* where the plugin loop is
  seen,      \* gameContext.readiness of this turn of the loop
  batch      \* events drained in this turn and not processed yet

gameVars   == <<mode, world, saves, held, menuPolled>>
queueVars  == <<live, observed, events, tasks>>
loopVars   == <<pc, seen, batch>>
deliveryAll == <<vars, gameVars, queueVars, loopVars, recorded>>

Modes == {"MainMenu", "Loading", "Ready", "Interactive"}
IsLoaded(m) == m \in {"Ready", "Interactive"}

\* from: the save a world was loaded from; fresh: it is a new game that began
\* with the plugin waiting for one.
Worlds == [applied : [Indices -> 0..2], from : Checksums \cup {None}, fresh : BOOLEAN]
NoWorld == [applied |-> [i \in Indices |-> 0], from |-> None, fresh |-> FALSE]

\* A save file that is not there is none of the worlds.
ASSUME NoSaveAssumption == None \notin Worlds

LoadedEvent(c)  == [kind |-> "SaveLoaded", checksum |-> c, id |-> 0, applied |-> FALSE]
WrittenEvent(c) == [kind |-> "SaveWritten", checksum |-> c, id |-> 0, applied |-> FALSE]
CompletedEvent(id, applied) ==
  [kind |-> "RequestCompleted", checksum |-> None, id |-> id, applied |-> applied]

DInit ==
  /\ Init
  /\ mode = "MainMenu" /\ world = NoWorld
  /\ saves = [c \in Checksums |-> None] /\ held = {}
  /\ menuPolled = "No" /\ recorded = {}
  /\ live = 0 /\ observed = 0 /\ events = <<>> /\ tasks = <<>>
  /\ pc = "Read" /\ seen = "MainMenu" /\ batch = <<>>

-----------------------------------------------------------------------------
\* The game thread.

\* The load hook reports a load before the game starts it, and with it every
\* item on its way loses its world (PushSaveLoaded).
LoadSave(c) ==
  /\ mode # "Loading"
  /\ saves[c] # None
  /\ live < MaxEpoch
  /\ live' = live + 1
  /\ events' = Append(events, LoadedEvent(c))
  /\ world' = [applied |-> saves[c].applied, from |-> c, fresh |-> FALSE]
  /\ mode' = "Loading" /\ menuPolled' = "No"
  /\ UNCHANGED <<vars, saves, held, recorded, observed, tasks, loopVars>>

\* A new game starts without any hook.  The plugin loop must have turned at the
\* menu before: it does so every 50 ms, the player needs longer.
NewGame ==
  /\ mode = "MainMenu" /\ menuPolled = "Yes"
  /\ world' = [NoWorld EXCEPT !.fresh = (context = "Waiting")]
  /\ mode' = "Loading"
  /\ UNCHANGED <<vars, saves, held, menuPolled, recorded, queueVars, loopVars>>

FinishLoading ==
  /\ mode = "Loading"
  /\ mode' = "Ready"
  /\ UNCHANGED <<vars, world, saves, held, menuPolled, recorded, queueVars, loopVars>>

\* Cutscenes and menus take control away and give it back.
GainControl ==
  /\ mode = "Ready"
  /\ mode' = "Interactive"
  /\ UNCHANGED <<vars, world, saves, held, menuPolled, recorded, queueVars, loopVars>>

LoseControl ==
  /\ mode = "Interactive"
  /\ mode' = "Ready"
  /\ UNCHANGED <<vars, world, saves, held, menuPolled, recorded, queueVars, loopVars>>

QuitToMenu ==
  /\ IsLoaded(mode)
  /\ mode' = "MainMenu" /\ world' = NoWorld /\ menuPolled' = "No"
  /\ UNCHANGED <<vars, saves, held, recorded, queueVars, loopVars>>

\* The save hook reports the save while it is written; its contents, checksum
\* included, are new.
SaveGame(c) ==
  /\ IsLoaded(mode)
  /\ saves[c] = None
  /\ saves' = [saves EXCEPT ![c] = world]
  /\ events' = Append(events, WrittenEvent(c))
  /\ UNCHANGED <<vars, mode, world, held, menuPolled, recorded, live, observed, tasks,
                 loopVars>>

\* ItemCompletion::CanApply; the hook-activity handler asks for IsCurrent only.
CanApplyInAnyWorld(task) == mode = "Interactive" \/ task.name \in HookItems
CanApply(task) ==
  /\ task.epoch = live
  /\ mode = "Interactive" \/ task.name \in HookItems

Applied(w, task) ==
  IF task.kind = "Item" THEN [w EXCEPT !.applied[task.index] = @ + 1] ELSE w

\* One frame task.  A handler may fail; a task that cannot apply drops its
\* completion, which reports FALSE.
RunReset ==
  /\ tasks # <<>> /\ Head(tasks).kind = "Reset"
  /\ held' = {}
  /\ tasks' = Tail(tasks)
  /\ UNCHANGED <<vars, mode, world, saves, menuPolled, recorded, live, observed, events,
                 loopVars>>

RunItem ==
  /\ tasks # <<>> /\ Head(tasks).kind \in {"Item", "Replay"}
  /\ LET task == Head(tasks) IN
     \/ /\ CanApply(task)
        /\ world.applied[task.index] < 2
        /\ world' = Applied(world, task)
        /\ held' = IF task.name \in PersistentItems THEN held \cup {task.name} ELSE held
        /\ events' = Append(events, CompletedEvent(task.id, TRUE))
     \/ /\ events' = Append(events, CompletedEvent(task.id, FALSE))
        /\ UNCHANGED <<world, held>>
  /\ tasks' = Tail(tasks)
  /\ UNCHANGED <<vars, mode, saves, menuPolled, recorded, live, observed, loopVars>>

-----------------------------------------------------------------------------
\* The plugin thread, one turn of the loop.

ReadContext ==
  /\ pc = "Read"
  /\ seen' = mode /\ pc' = "Drain"
  /\ menuPolled' = IF mode = "MainMenu" /\ menuPolled = "No" THEN "Read" ELSE menuPolled
  /\ UNCHANGED <<vars, mode, world, saves, held, queueVars, recorded, batch>>

\* Drain: everything up to the live epoch will have been processed.
DrainQueue ==
  /\ pc = "Drain"
  /\ batch' = events /\ events' = <<>>
  /\ observed' = live
  /\ pc' = "Events"
  /\ UNCHANGED <<vars, gameVars, recorded, live, tasks, seen>>

\* The journal file now has the cursor of save c from the world that was saved.
Known(w) == w.fresh \/ w.from \in recorded
RecordedAfter(c) ==
  IF disk'.snapshots[Slot][c] # disk.snapshots[Slot][c] /\ Known(saves[c])
  THEN recorded \cup {c} ELSE recorded

ProcessEvent ==
  /\ pc = "Events" /\ batch # <<>>
  /\ LET event == Head(batch) IN
     \/ /\ event.kind = "SaveLoaded" /\ SaveLoaded(event.checksum)
        /\ UNCHANGED recorded
     \/ /\ event.kind = "SaveWritten"
        /\ SaveWritten(event.checksum) \/ IgnoreSaveWritten
        /\ recorded' = RecordedAfter(event.checksum)
     \/ /\ event.kind = "RequestCompleted"
        /\ CompleteRequest(event.id, event.applied)
        /\ UNCHANGED recorded
  /\ batch' = Tail(batch)
  /\ UNCHANGED <<gameVars, queueVars, pc, seen>>

\* SessionRuntime::UpdateReadiness.  Leaving a world moves both epochs, so an
\* item of that world can no longer be applied.
UpdateWorld ==
  /\ pc = "Events" /\ batch = <<>>
  /\ UpdateReadiness(seen = "MainMenu", IsLoaded(seen))
  /\ IF gameplayLoaded /\ ~IsLoaded(seen)
     THEN /\ live < MaxEpoch
          /\ live' = live + 1 /\ observed' = live + 1
     ELSE UNCHANGED <<live, observed>>
  /\ menuPolled' = IF menuPolled = "Read" THEN "Yes" ELSE menuPolled
  /\ pc' = "Poll"
  /\ UNCHANGED <<mode, world, saves, held, events, tasks, recorded, seen, batch>>

\* PollNetwork asks for requests until there is none ...
AskForRequest ==
  /\ pc = "Poll" /\ ~draining /\ pending = NoRequest
  /\ NextRequest(seen = "Interactive")
  /\ pc' = IF pending' # NoRequest THEN "Start" ELSE "Poll"
  /\ UNCHANGED <<gameVars, queueVars, recorded, seen, batch>>

RequestPending ==
  /\ pc = "Poll" /\ ~draining /\ pending # NoRequest
  /\ pc' = "Read"
  /\ UNCHANGED <<vars, gameVars, queueVars, recorded, seen, batch>>

NoMoreLines ==
  /\ pc = "Poll" /\ DrainEnds
  /\ pc' = "Read"
  /\ UNCHANGED <<gameVars, queueVars, recorded, seen, batch>>

\* ... and starts the one it gets: policies are installed here, ...
StartInstall ==
  /\ pc = "Start" /\ pending.kind = "Policies"
  /\ \E installed \in BOOLEAN : ReportResult(installed)
  /\ pc' = "Poll"
  /\ UNCHANGED <<gameVars, queueVars, recorded, seen, batch>>

\* ... a reset is a task of its own, which a handler that is not ready stops or
\* leaves half done, ...
StartReset ==
  /\ pc = "Start" /\ pending.kind = "Reset"
  /\ \E ready, queued \in BOOLEAN :
       /\ ready => queued
       /\ tasks' = IF queued
                   THEN Append(tasks, [kind |-> "Reset", index |-> 0, name |-> None,
                                       id |-> 0, epoch |-> 0])
                   ELSE tasks
       /\ ReportResult(ready)
  /\ pc' = "Poll"
  /\ UNCHANGED <<gameVars, live, observed, events, recorded, seen, batch>>

\* ... and an item becomes a task with a completion for the observed epoch; one
\* that no handler can start is completed with FALSE.
EpochAtCreation == live
EpochOfCompletion == observed
StartItem ==
  /\ pc = "Start" /\ pending.kind \in {"Item", "Replay"}
  /\ \/ /\ tasks' = Append(tasks, [kind |-> pending.kind, index |-> pending.index,
                                   name |-> pending.name, id |-> requestId,
                                   epoch |-> EpochOfCompletion])
        /\ UNCHANGED events
     \/ /\ events' = Append(events, CompletedEvent(requestId, FALSE))
        /\ UNCHANGED tasks
  /\ pc' = "Poll"
  /\ UNCHANGED <<vars, gameVars, live, observed, recorded, seen, batch>>

\* What the client sends.  It answers for a save with what the plugin told it of
\* it, or with an empty snapshot for a save nobody knows; it acknowledges
\* revisions it was told.
ClientLine ==
  \/ Connected \/ Disconnected \/ OnSessionEnd
  \/ OnSessionReady(Slot, TRUE)
  \/ \E i \in Indices : OnItem(i, Inventory[i], seen = "Interactive")
  \/ \E c \in Checksums :
       LET snapshot == journal.snapshots[Slot][c] IN
       \/ snapshot # None /\ OnSaveContext(c, snapshot.nextIndex, TRUE, snapshot.items)
       \/ snapshot = None /\ OnSaveContext(c, 0, TRUE, {})
  \/ \E c \in Checksums :
       /\ journal.pending[Slot][c] # None
       /\ OnSaveRevisionAck(c, journal.pending[Slot][c], TRUE)

HandleLine ==
  /\ pc = "Poll" /\ ClientLine
  /\ pc' = IF pending' # NoRequest THEN "Start" ELSE "Poll"
  /\ UNCHANGED <<gameVars, queueVars, recorded, seen, batch>>

\* The game crashes or is closed: the saves and the journal file are left.
Crash ==
  /\ Restart
  /\ mode' = "MainMenu" /\ world' = NoWorld /\ held' = {} /\ menuPolled' = "No"
  /\ live' = 0 /\ observed' = 0 /\ events' = <<>> /\ tasks' = <<>>
  /\ pc' = "Read" /\ seen' = "MainMenu" /\ batch' = <<>>
  /\ UNCHANGED <<saves, recorded>>

GameThread ==
  \/ \E c \in Checksums : LoadSave(c) \/ SaveGame(c)
  \/ NewGame \/ FinishLoading \/ GainControl \/ LoseControl \/ QuitToMenu
  \/ RunReset \/ RunItem

PluginThread ==
  \/ ReadContext \/ DrainQueue \/ ProcessEvent \/ UpdateWorld
  \/ AskForRequest \/ RequestPending \/ NoMoreLines \/ HandleLine
  \/ StartInstall \/ StartReset \/ StartItem

DNext == GameThread \/ PluginThread \/ Crash

DSpec == DInit /\ [][DNext]_deliveryAll

-----------------------------------------------------------------------------
\* Properties.

\* No item is applied twice to a world whose saves were recorded, none before its
\* predecessors, and none is lost from a world by saving and loading it, however
\* lines are retransmitted and whatever is loaded, saved, quit or lost in between.
Ordered ==
  INSTANCE OrderedDelivery WITH
    Saves <- Checksums, Items <- MaxIndex,
    delivered <- IF Known(world) THEN world.applied ELSE [i \in {} |-> 0],
    saved <- [c \in {x \in Checksums : saves[x] # None /\ Known(saves[x])} |-> saves[c].applied]
DeliversInOrder == Ordered!Spec

\* Nothing of a world is still on its way to the plugin.
Quiet ==
  /\ live = observed /\ events = <<>> /\ batch = <<>> /\ IsLoaded(mode)
  /\ gameplayLoaded /\ pending.kind # "Item"

\* The cursor of a settled world is the number of items applied to it, so none
\* is skipped and none will be repeated.
CursorCountsApplied ==
  (Quiet /\ Known(world) /\ Ready(context))
  => \A i \in Indices : world.applied[i] = (IF i < nextIndex THEN 1 ELSE 0)

\* Once a restore is over, the game has exactly the persistent items before the
\* world's cursor, those it had when it was saved and has received since: what an
\* earlier world had was reset, and nothing of this one is missing.
HeldMatchesWorld ==
  (/\ Quiet /\ Ready(context) /\ tasks = <<>>
   /\ session # None /\ restore.state = "None")
  => held = {Inventory[i] : i \in {k \in Indices : k < nextIndex}} \cap PersistentItems

\* "Every item ends up applied exactly once per save, in order" said of a new
\* game, whatever was played before it: the code breaks it (a save that was still
\* waiting for its cursor at the main menu hands that cursor to the next game).
NewGameInOrder ==
  world.from = None =>
    \A i, j \in Indices : i < j /\ world.applied[j] > 0 => world.applied[i] > 0

=============================================================================
