----------------------------- MODULE DeathLink -----------------------------
(***************************************************************************)
(* Deaths in both directions: the hook on the game's death routine with    *)
(* its monitor (DeathMonitor.cpp), the window in which a death counts as   *)
(* caused by the plugin (DeathSuppression.hpp), the controller that tries  *)
(* to carry out a received death (DeathLinkController.cpp) and the kill    *)
(* itself (DeathLinkActions.cpp).                                          *)
(*                                                                         *)
(* The plugin thread polls, drains, resets and updates; the game thread    *)
(* runs the hook and the kill.  They share armed, until, consumed, the     *)
(* event queue, its epochs, the task and its result without a lock, so a   *)
(* step is what a thread does from one of them to the next.                *)
(*                                                                         *)
(* A window of time is Open until WindowElapses, and a second passes with  *)
(* SecondPasses.  A death and a kill take less than a second, and an       *)
(* explosion hurts the player within its five seconds, once.               *)
(***************************************************************************)
EXTENDS Naturals, Sequences

CONSTANTS
  MaxWorld,   \* bound on the worlds one process loads
  MaxEvents   \* bound on the events that wait for the plugin thread

ASSUME DeathLinkAssumption == MaxWorld \in Nat /\ MaxEvents \in Nat

NoWorld == 0
\* A load moves the live epoch, and so does the plugin when it sees a world end.
Epochs == 0..(2 * MaxWorld + 1)

VARIABLES
  mode,       \* GameReadiness as the game's memory shows it
  world,      \* the world that is loaded or being loaded
  player,     \* the player as the game's memory shows it
  blast,      \* an explosion set off by the plugin may still hurt the player
  reported,   \* history: the death of this life was reported
  until,      \* DeathSuppression.until_: no window, an open or an elapsed one
  consumed,   \* DeathSuppression.consumed_
  armed,      \* DeathMonitor.armed
  aliveSince, \* DeathMonitor.aliveSince: not set, less than a second ago, longer ago
  live,       \* GameEventQueue.liveEpoch_
  observed,   \* GameEventQueue.observedEpoch_
  events,     \* GameEventQueue.events_
  gpc,        \* where the game thread is
  dying,      \* the death the hook is handling
  attempt,    \* the kill task that is running
  tasks,      \* the dispatcher's kill tasks
  task,       \* DeathLinkController.task: its result
  pending,    \* DeathLinkController.pending: the world it was received in
  struck,     \* history: the pending death has already killed the player
  resting,    \* DeathLinkController.retryAt is in the future
  ppc,        \* where the plugin loop is
  seen,       \* gameContext.readiness of this turn of the loop
  gameplayLoaded, \* SessionRuntime.gameplayLoaded_
  batch       \* events drained in this turn and not processed yet

gameVars    == <<mode, world, player, blast, reported>>
windowVars  == <<until, consumed>>
monitorVars == <<armed, aliveSince>>
queueVars   == <<live, observed, events>>
frameVars   == <<gpc, dying, attempt>>
ctlVars     == <<task, pending, struck, resting>>
loopVars    == <<ppc, seen, gameplayLoaded, batch>>
vars == <<gameVars, windowVars, monitorVars, queueVars, frameVars, tasks,
          ctlVars, loopVars>>

IsLoaded(m) == m \in {"Ready", "Interactive"}

\* A kill task: watched says that the controller still holds its result.
NoTask == [epoch |-> 0, world |-> NoWorld, watched |-> FALSE]
\* arena: a derby or race, where the kill is the wreck of the player's car;
\* rearmed: the monitor was armed while the kill ran.
NoAttempt == [task |-> NoTask, arena |-> FALSE, rearmed |-> FALSE]
\* then: where the game thread goes on after the hook.
NoDeath == [cause |-> "Own", wasArmed |-> FALSE, then |-> "Idle"]

SaveLoadedEvent == [kind |-> "SaveLoaded", cause |-> "Own", again |-> FALSE]
PlayerDiedEvent(cause, again) ==
  [kind |-> "PlayerDied", cause |-> cause, again |-> again]

Init ==
  /\ mode = "MainMenu" /\ world = NoWorld /\ player = "None"
  /\ blast = FALSE /\ reported = FALSE
  /\ until = "Off" /\ consumed = FALSE
  /\ armed = FALSE /\ aliveSince = "No"
  /\ live = 0 /\ observed = 0 /\ events = <<>>
  /\ gpc = "Idle" /\ dying = NoDeath /\ attempt = NoAttempt
  /\ tasks = <<>>
  /\ task = "None" /\ pending = NoWorld /\ struck = FALSE /\ resting = FALSE
  /\ ppc = "Read" /\ seen = "MainMenu" /\ gameplayLoaded = FALSE /\ batch = <<>>

-----------------------------------------------------------------------------
\* DeathSuppression.

Begin == until' = "Open" /\ consumed' = FALSE
End == until' = "Off" /\ consumed' = FALSE

\* Expire swaps the deadline it has read for none: a window begun in between
\* has another deadline and stays.
ExpiredBlindly == "Off"
Expired == IF until = "Past" THEN "Off" ELSE until

WindowElapses ==
  /\ until = "Open" /\ gpc = "Idle"
  /\ until' = "Past" /\ blast' = FALSE
  /\ UNCHANGED <<mode, world, player, reported, consumed, monitorVars, queueVars,
                 frameVars, tasks, ctlVars, loopVars>>

SecondPasses ==
  /\ aliveSince = "Recent" /\ gpc = "Idle"
  /\ aliveSince' = "Long"
  /\ UNCHANGED <<gameVars, windowVars, armed, queueVars, frameVars, tasks, ctlVars, loopVars>>

-----------------------------------------------------------------------------
\* The game.

\* The load hook reports the load before the game replaces the world.
LoadSave ==
  /\ gpc = "Idle" /\ mode # "Loading" /\ world < MaxWorld
  /\ Len(events) < MaxEvents
  /\ mode' = "Loading" /\ world' = world + 1 /\ player' = "None"
  /\ blast' = FALSE /\ reported' = FALSE
  /\ live' = live + 1 /\ events' = Append(events, SaveLoadedEvent)
  /\ UNCHANGED <<windowVars, monitorVars, observed, frameVars, tasks, ctlVars, loopVars>>

\* A new game has no hook.
NewGame ==
  /\ gpc = "Idle" /\ mode = "MainMenu" /\ world < MaxWorld
  /\ mode' = "Loading" /\ world' = world + 1
  /\ UNCHANGED <<player, blast, reported, windowVars, monitorVars, queueVars, frameVars,
                 tasks, ctlVars, loopVars>>

\* Loading takes longer than a turn of the plugin loop, which then knows that the
\* world before is gone.
FinishLoading ==
  /\ gpc = "Idle" /\ mode = "Loading" /\ ~gameplayLoaded
  /\ mode' = "Ready" /\ player' = "Alive"
  /\ UNCHANGED <<world, blast, reported, windowVars, monitorVars, queueVars, frameVars,
                 tasks, ctlVars, loopVars>>

ChangeControl ==
  /\ gpc = "Idle" /\ IsLoaded(mode)
  /\ mode' = IF mode = "Ready" THEN "Interactive" ELSE "Ready"
  /\ UNCHANGED <<world, player, blast, reported, windowVars, monitorVars, queueVars,
                 frameVars, tasks, ctlVars, loopVars>>

QuitToMenu ==
  /\ gpc = "Idle" /\ IsLoaded(mode)
  /\ mode' = "MainMenu" /\ player' = "None" /\ blast' = FALSE /\ reported' = FALSE
  /\ UNCHANGED <<world, windowVars, monitorVars, queueVars, frameVars, tasks, ctlVars,
                 loopVars>>

Respawn ==
  /\ gpc = "Idle" /\ player = "Dead"
  /\ player' = "Alive" /\ reported' = FALSE
  /\ UNCHANGED <<mode, world, blast, windowVars, monitorVars, queueVars, frameVars, tasks,
                 ctlVars, loopVars>>

-----------------------------------------------------------------------------
\* HumanDieHook, entered whenever the game's death routine runs for the player.

KillCause == IF attempt.rearmed THEN "KillAfterRearm" ELSE "Kill"

\* The first thing the hook does is disarm the monitor.
ArmedAsBefore == armed
ArmedAfterDeath == FALSE
EnterHook(cause, then) ==
  /\ gpc' = "Dying"
  /\ dying' = [cause |-> cause, wasArmed |-> armed, then |-> then]
  /\ armed' = ArmedAfterDeath
  /\ struck' = IF cause # "Own" /\ attempt.task.watched THEN TRUE ELSE struck

\* The player dies in the game, or the routine runs again for a dead player.
OwnDeath ==
  /\ gpc = "Idle" /\ player # "None"
  /\ EnterHook("Own", "Idle")
  /\ UNCHANGED <<gameVars, windowVars, aliveSince, queueVars, attempt, tasks, task, pending,
                 resting, loopVars>>

\* The explosion the plugin set off kills a little later.
BlastKills ==
  /\ gpc = "Idle" /\ blast /\ player = "Alive"
  /\ EnterHook("Kill", "Idle")
  /\ UNCHANGED <<gameVars, windowVars, aliveSince, queueVars, attempt, tasks, task, pending,
                 resting, loopVars>>

\* Consume: a death inside the window is the plugin's and takes the window with
\* it; any other is reported if the monitor was armed.
Suppressed == until = "Open"
Reports == ~Suppressed /\ dying.wasArmed
Consume ==
  /\ gpc = "Dying"
  /\ until' = "Off"
  /\ consumed' = (consumed \/ Suppressed)
  /\ Reports => Len(events) < MaxEvents
  /\ events' = IF Reports THEN Append(events, PlayerDiedEvent(dying.cause, reported))
               ELSE events
  /\ blast' = FALSE
  /\ gpc' = dying.then /\ dying' = NoDeath
  /\ UNCHANGED <<mode, world, monitorVars, live, observed, attempt, tasks, ctlVars, loopVars>>

ConsumeAndDie ==
  /\ Consume
  /\ player' = "Dead" /\ reported' = (reported \/ Reports)

\* Derbies and races reset the player at once: a new life.
ConsumeAndReset ==
  /\ dying.then = "Detonated" => attempt.arena
  /\ player = "Alive"
  /\ Consume
  /\ UNCHANGED player /\ reported' = FALSE

-----------------------------------------------------------------------------
\* The kill task on the game thread.

\* TaskToken::Finish: the result reaches the controller if it still holds it.
Finish(outcome) == task' = IF attempt.task.watched THEN outcome ELSE task
\* A task that ends before its kill begins.
EndsUnstarted(outcome) ==
  /\ task' = IF Head(tasks).watched THEN outcome ELSE task
  /\ tasks' = Tail(tasks)
  /\ UNCHANGED <<gameVars, windowVars, monitorVars, queueVars, frameVars, pending, struck,
                 resting, loopVars>>

NextTask == gpc = "Idle" /\ tasks # <<>>
CurrentForever(t) == TRUE
IsCurrent(t) == t.epoch = live
MayKill == NextTask /\ IsCurrent(Head(tasks)) /\ mode = "Interactive"

TaskStale == NextTask /\ ~IsCurrent(Head(tasks)) /\ EndsUnstarted("Dropped")
TaskBusy ==
  /\ NextTask /\ IsCurrent(Head(tasks)) /\ mode # "Interactive"
  /\ EndsUnstarted("Deferred")

\* KillPlayer returns before it has touched anything: the player is dead, or the
\* derby, the race or the car is not ready, or the car is gone.
KillRefused ==
  /\ MayKill
  /\ \/ EndsUnstarted("Dropped")
     \/ player = "Alive" /\ EndsUnstarted("Deferred")

StartAttempt(step, arena) ==
  /\ MayKill /\ player = "Alive"
  /\ attempt' = [task |-> Head(tasks), arena |-> arena, rearmed |-> FALSE]
  /\ tasks' = Tail(tasks)
  /\ gpc' = step
  /\ Begin
  /\ UNCHANGED <<gameVars, monitorVars, queueVars, dying, ctlVars, loopVars>>

StartDetonation == \E arena \in BOOLEAN : StartAttempt("Detonating", arena)
StartKill == StartAttempt("Striking", FALSE)

\* The rest of KillPlayer, step by step.
Onward(step) ==
  /\ gpc' = step
  /\ UNCHANGED <<mode, world, player, reported, monitorVars, queueVars, dying, attempt,
                 tasks, ctlVars, loopVars>>
Ends(outcome) ==
  /\ Finish(outcome)
  /\ gpc' = "Idle" /\ attempt' = NoAttempt
  /\ UNCHANGED <<mode, world, player, reported, monitorVars, queueVars, dying, tasks, pending,
                 struck, resting, loopVars>>
Strikes(then) ==
  /\ EnterHook(KillCause, then)
  /\ UNCHANGED <<gameVars, windowVars, aliveSince, queueVars, attempt, tasks, task, pending,
                 resting, loopVars>>

\* Detonate.  An explosion that does not wreck the car hurts nobody, and none fails
\* while an earlier one still burns.
ExplosionFails ==
  /\ gpc = "Detonating" /\ ~blast
  /\ UNCHANGED blast
  /\ \/ attempt.arena /\ End /\ Ends("Deferred")
     \/ ~attempt.arena /\ Begin /\ Onward("Striking")

ExplosionKills == gpc = "Detonating" /\ Strikes("Detonated")

ExplosionSpares ==
  /\ gpc = "Detonating"
  /\ blast' = TRUE /\ UNCHANGED windowVars
  /\ Onward("Detonated")

\* In an arena the wreck is the kill and the window stays open for it; elsewhere
\* the player is killed as well unless the explosion did it (DetonateAndKill).
AfterDetonation ==
  /\ gpc = "Detonated"
  /\ UNCHANGED blast
  /\ \/ attempt.arena /\ UNCHANGED windowVars /\ Ends("Applied")
     \/ ~attempt.arena /\ player = "Dead" /\ End /\ Ends("Applied")
     \/ ~attempt.arena /\ player # "Dead" /\ Begin /\ Onward("Striking")

\* KillOnFoot: the kill, then no hit points if the player is not dead.
KillLands == gpc = "Striking" /\ Strikes("Weakening")
KillMisses ==
  /\ gpc = "Striking"
  /\ UNCHANGED <<blast, windowVars>> /\ Onward("Weakening")
WeakeningKills == gpc = "Weakening" /\ player # "Dead" /\ Strikes("Judging")
WeakeningMisses ==
  /\ gpc = "Weakening"
  /\ UNCHANGED <<blast, windowVars>> /\ Onward("Judging")

\* A player neither could kill will not be killed by the explosion either.
DiedByVitals == player = "Dead"
Died == consumed \/ player = "Dead"
JudgeKill ==
  /\ gpc = "Judging"
  /\ End /\ blast' = FALSE
  /\ Ends(IF Died THEN "Applied" ELSE "Deferred")

-----------------------------------------------------------------------------
\* The plugin thread, one turn of the loop.

ReadContext ==
  /\ ppc = "Read"
  /\ seen' = mode /\ ppc' = "Expire"
  /\ UNCHANGED <<gameVars, windowVars, monitorVars, queueVars, frameVars, tasks, ctlVars,
                 gameplayLoaded, batch>>

\* DeathMonitor::Poll: expire the window (read, then swap), ...
PollWindow ==
  /\ ppc = "Expire"
  /\ ppc' = IF until = "Past" THEN "Swap" ELSE "Vitals"
  /\ UNCHANGED <<gameVars, windowVars, monitorVars, queueVars, frameVars, tasks, ctlVars,
                 seen, gameplayLoaded, batch>>

PollExpires ==
  /\ ppc = "Swap"
  /\ until' = Expired /\ ppc' = "Vitals"
  /\ UNCHANGED <<gameVars, consumed, monitorVars, queueVars, frameVars, tasks, ctlVars,
                 seen, gameplayLoaded, batch>>

\* ... and arm once the player has been alive for a second.
SeesAlive == IsLoaded(seen) /\ player = "Alive"
PollVitals ==
  /\ ppc = "Vitals"
  /\ \/ armed /\ UNCHANGED aliveSince /\ ppc' = "Drain"
     \/ ~armed /\ ~SeesAlive /\ aliveSince' = "No" /\ ppc' = "Drain"
     \/ /\ ~armed /\ SeesAlive /\ aliveSince # "Long"
        /\ aliveSince' = "Recent" /\ ppc' = "Drain"
     \/ ~armed /\ SeesAlive /\ aliveSince = "Long" /\ UNCHANGED aliveSince /\ ppc' = "Arm"
  /\ UNCHANGED <<gameVars, windowVars, armed, queueVars, frameVars, tasks, ctlVars,
                 seen, gameplayLoaded, batch>>

PollArms ==
  /\ ppc = "Arm"
  /\ armed' = TRUE /\ aliveSince' = "No" /\ ppc' = "Drain"
  /\ attempt' = [attempt EXCEPT !.rearmed = attempt # NoAttempt]
  /\ UNCHANGED <<gameVars, windowVars, queueVars, gpc, dying, tasks, ctlVars,
                 seen, gameplayLoaded, batch>>

DrainQueue ==
  /\ ppc = "Drain"
  /\ batch' = events /\ events' = <<>> /\ observed' = live
  /\ ppc' = "Events"
  /\ UNCHANGED <<gameVars, windowVars, monitorVars, live, frameVars, tasks, ctlVars,
                 seen, gameplayLoaded>>

\* ResetDeathLink: the controller forgets its death and its attempt, the monitor
\* disarms and ends the window.
Unwatched(t) == [t EXCEPT !.watched = FALSE]
ResetDeathLink ==
  /\ pending' = NoWorld /\ task' = "None" /\ struck' = FALSE
  /\ tasks' = [i \in DOMAIN tasks |-> Unwatched(tasks[i])]
  /\ attempt' = [attempt EXCEPT !.task = Unwatched(@)]
  /\ armed' = FALSE /\ aliveSince' = "No"
  /\ End

ProcessSaveLoaded ==
  /\ ppc = "Events" /\ batch # <<>> /\ Head(batch).kind = "SaveLoaded"
  /\ ResetDeathLink
  /\ batch' = Tail(batch)
  /\ UNCHANGED <<gameVars, queueVars, gpc, dying, resting, ppc, seen, gameplayLoaded>>

\* session_player_died sends the death.
ProcessPlayerDied ==
  /\ ppc = "Events" /\ batch # <<>> /\ Head(batch).kind = "PlayerDied"
  /\ batch' = Tail(batch)
  /\ UNCHANGED <<gameVars, windowVars, monitorVars, queueVars, frameVars, tasks, ctlVars,
                 ppc, seen, gameplayLoaded>>

\* Leaving a world moves both epochs, once.
NoWorldSeen == ~IsLoaded(seen)
WorldEnded == gameplayLoaded /\ ~IsLoaded(seen)
UpdateReadiness ==
  /\ ppc = "Events" /\ batch = <<>>
  /\ IF WorldEnded
     THEN live' = live + 1 /\ observed' = live + 1 /\ ResetDeathLink
     ELSE UNCHANGED <<live, observed, windowVars, monitorVars, attempt, tasks, task, pending,
                      struck>>
  /\ gameplayLoaded' = IsLoaded(seen)
  /\ ppc' = "Receive"
  /\ UNCHANGED <<gameVars, events, gpc, dying, resting, seen, batch>>

\* PollNetwork may fail to install the handlers or end them, and with them the
\* tasks that wait.  A discarded task finishes as deferred (~TaskToken).
NeverFinished == "Running"
DiscardedAs == "Deferred"
CancelPending ==
  /\ ppc = "Receive" /\ tasks # <<>>
  /\ tasks' = <<>>
  /\ task' = IF \E i \in DOMAIN tasks : tasks[i].watched THEN DiscardedAs ELSE task
  /\ UNCHANGED <<gameVars, windowVars, monitorVars, queueVars, frameVars, pending, struck,
                 resting, loopVars>>

\* A death of another player joins the one that waits.  The session passes on
\* what arrives while a world is loaded.
Receive ==
  /\ ppc = "Receive"
  /\ \/ gameplayLoaded /\ pending' = world
     \/ UNCHANGED pending
  /\ ppc' = "Update"
  /\ UNCHANGED <<gameVars, windowVars, monitorVars, queueVars, frameVars, tasks, task, struck,
                 resting, seen, gameplayLoaded, batch>>

\* DeathLinkController::Update.
TurnEnds ==
  /\ ppc = "Update" /\ ppc' = "Read"
  /\ UNCHANGED <<gameVars, windowVars, monitorVars, queueVars, frameVars, seen,
                 gameplayLoaded, batch>>

UpdateWaits ==
  /\ \/ task = "Running"
     \/ task = "None" /\ (pending = NoWorld \/ resting \/ seen # "Interactive")
  /\ TurnEnds
  /\ UNCHANGED <<tasks, ctlVars>>

UpdateSettles ==
  /\ task \in {"Applied", "Dropped"}
  /\ task' = "None" /\ pending' = NoWorld /\ struck' = FALSE
  /\ TurnEnds
  /\ UNCHANGED <<tasks, resting>>

UpdateDefers ==
  /\ task = "Deferred"
  /\ task' = "None" /\ resting' = TRUE
  /\ TurnEnds
  /\ UNCHANGED <<tasks, pending, struck>>

\* The task carries the epoch this thread has seen: the live one may be that of a
\* load it has not heard of.
DispatchKill ==
  /\ task = "None" /\ pending # NoWorld /\ ~resting /\ seen = "Interactive"
  /\ tasks' = Append(tasks, [epoch |-> observed, world |-> pending, watched |-> TRUE])
  /\ task' = "Running"
  /\ TurnEnds
  /\ UNCHANGED <<pending, struck, resting>>

RetryDelayElapses ==
  /\ resting /\ resting' = FALSE
  /\ UNCHANGED <<gameVars, windowVars, monitorVars, queueVars, frameVars, tasks, task,
                 pending, struck, loopVars>>

-----------------------------------------------------------------------------
StartTask == TaskStale \/ TaskBusy \/ KillRefused \/ StartDetonation \/ StartKill
KillStep ==
  \/ StartTask \/ ExplosionFails \/ ExplosionKills \/ ExplosionSpares \/ AfterDetonation
  \/ KillLands \/ KillMisses \/ WeakeningKills \/ WeakeningMisses \/ JudgeKill
HookStep == ConsumeAndDie \/ ConsumeAndReset

Game ==
  \/ LoadSave \/ NewGame \/ FinishLoading \/ ChangeControl \/ QuitToMenu \/ Respawn
  \/ OwnDeath \/ BlastKills \/ WindowElapses \/ SecondPasses

LoopStep ==
  \/ ReadContext \/ PollWindow \/ PollExpires \/ PollVitals \/ PollArms \/ DrainQueue
  \/ ProcessSaveLoaded \/ ProcessPlayerDied \/ UpdateReadiness \/ Receive
  \/ UpdateWaits \/ UpdateSettles \/ UpdateDefers \/ DispatchKill

Next == Game \/ HookStep \/ KillStep \/ LoopStep \/ CancelPending \/ RetryDelayElapses

\* The loop turns every 50 ms, every frame runs the tasks (between deaths), delays
\* end; handlers are not torn down forever, and the game does not refuse or survive
\* every kill.
Fairness ==
  /\ WF_vars(LoopStep) /\ WF_vars(KillStep) /\ WF_vars(HookStep)
  /\ WF_vars(RetryDelayElapses)
  /\ SF_vars(StartTask) /\ SF_vars(StartKill) /\ SF_vars(KillLands)
  /\ <>[][~CancelPending]_vars

Spec == Init /\ [][Next]_vars
FairSpec == Spec /\ Fairness

-----------------------------------------------------------------------------
\* Properties.

Tasks == [epoch : Epochs, world : 0..MaxWorld, watched : BOOLEAN]
Events == [kind : {"SaveLoaded", "PlayerDied"}, cause : {"Own", "Kill", "KillAfterRearm"},
           again : BOOLEAN]
Modes == {"MainMenu", "Loading", "Ready", "Interactive"}
TypeOK ==
  /\ mode \in Modes /\ seen \in Modes /\ world \in 0..MaxWorld /\ pending \in 0..MaxWorld
  /\ player \in {"None", "Alive", "Dead"} /\ until \in {"Off", "Open", "Past"}
  /\ aliveSince \in {"No", "Recent", "Long"}
  /\ {blast, reported, consumed, armed, struck, resting, gameplayLoaded}
       \subseteq BOOLEAN
  /\ live \in Epochs /\ observed \in Epochs
  /\ events \in Seq(Events) /\ batch \in Seq(Events) /\ tasks \in Seq(Tasks)
  /\ task \in {"None", "Running", "Applied", "Deferred", "Dropped"}
  /\ gpc \in {"Idle", "Dying", "Detonating", "Detonated", "Striking", "Weakening", "Judging"}
  /\ attempt \in [task : Tasks, arena : BOOLEAN, rearmed : BOOLEAN]
  /\ ppc \in {"Read", "Expire", "Swap", "Vitals", "Arm", "Drain", "Events", "Receive",
              "Update"}

Reported == {events[i] : i \in DOMAIN events} \cup {batch[i] : i \in DOMAIN batch}

\* No death the plugin caused is sent back out to the other players, whichever way
\* it kills, whatever expires, is reset or reloaded meanwhile.  The one exception
\* is a monitor that the plugin thread arms between two calls of one kill.
KillsAreNotSentBack == \A event \in Reported : event.cause # "Kill"

\* One life of the player sends at most one death, however often the game's death
\* routine runs for it.
OneReportPerLife == \A event \in Reported : ~event.again

\* A death received in one world never kills the player of another.
Killing == gpc \in {"Detonating", "Striking", "Weakening", "Judging"}
DeathsStrikeTheirWorld == Killing => attempt.task.world = world

\* A death that has killed the player is not tried again, even where the game
\* brings him back at once.
KillIsNotRetried == struck => task # "Deferred"

\* While the player stays in control, a received death is settled in the end: no
\* discarded or refused task leaves it waiting forever.
ReceivedDeathSettles ==
  <>[](mode = "Interactive") => (pending # NoWorld ~> pending = NoWorld)
=============================================================================
