-------------------------- MODULE DeathLink_proofs --------------------------
(***************************************************************************)
(* Proofs about DeathLink, for any number of worlds, any number of waiting *)
(* events and every interleaving of the game and the plugin thread.        *)
(*                                                                         *)
(* No checked invariant is inductive.  That a kill strikes the world its   *)
(* death was received in rests on what the two epochs say of loads that    *)
(* the plugin has not heard of (EpochInv, TaskInv); that the window covers *)
(* every strike rests on no load being due while a kill is under way       *)
(* (AttemptInv); that a life reports one death rests on when the monitor   *)
(* can be armed (ArmInv).                                                  *)
(***************************************************************************)
EXTENDS DeathLink, TLAPS

USE DEF gameVars, windowVars, monitorVars, queueVars, frameVars, ctlVars, loopVars

IsLoadEvent(event) == event.kind = "SaveLoaded"
LoadIn(queue) == \E i \in DOMAIN queue : IsLoadEvent(queue[i])

\* From the first step of KillPlayer to its last, with the deaths it causes.
KillSteps == {"Detonating", "Detonated", "Striking", "Weakening", "Judging"}
InKill == gpc \in KillSteps \/ (gpc = "Dying" /\ dying.then # "Idle")
\* The death the hook is handling was caused by the plugin.
StrikeInHook == gpc = "Dying" /\ dying.cause # "Own"

\* The loop has read the readiness and has not yet told the runtime.
Turning == ppc \in {"Expire", "Swap", "Vitals", "Arm", "Drain", "Events"}

-----------------------------------------------------------------------------
\* The inductive invariant.

\* TypeOK in two halves, which different provers are good at: SMT does the data,
\* Zenon the Boolean flags.
Deaths == [cause : {"Own", "Kill", "KillAfterRearm"}, wasArmed : BOOLEAN,
           then : {"Idle", "Detonated", "Weakening", "Judging"}]

DataOK ==
  /\ mode \in Modes /\ seen \in Modes /\ world \in 0..MaxWorld /\ pending \in 0..MaxWorld
  /\ player \in {"None", "Alive", "Dead"} /\ until \in {"Off", "Open", "Past"}
  /\ aliveSince \in {"No", "Recent", "Long"}
  /\ live \in Epochs /\ observed \in Epochs
  /\ events \in Seq(Events) /\ batch \in Seq(Events) /\ tasks \in Seq(Tasks)
  /\ task \in {"None", "Running", "Applied", "Deferred", "Dropped"}
  /\ gpc \in {"Idle", "Dying", "Detonating", "Detonated", "Striking", "Weakening", "Judging"}
  /\ attempt \in [task : Tasks, arena : BOOLEAN, rearmed : BOOLEAN]
  /\ dying \in Deaths
  /\ ppc \in {"Read", "Expire", "Swap", "Vitals", "Arm", "Drain", "Events", "Receive",
              "Update"}

FlagOK ==
  /\ blast \in BOOLEAN /\ reported \in BOOLEAN /\ consumed \in BOOLEAN /\ armed \in BOOLEAN
  /\ struck \in BOOLEAN /\ resting \in BOOLEAN /\ gameplayLoaded \in BOOLEAN

\* While a world is played that the runtime knows of, the loop sees it loaded.
LoopInv ==
  /\ ppc # "Events" => batch = <<>>
  /\ Turning /\ gameplayLoaded /\ IsLoaded(mode) => IsLoaded(seen)

\* How often the live epoch can still move in the worlds begun so far: once for each
\* world that was or will be seen loaded and has not been seen to end.
SeenLoaded == gameplayLoaded \/ (Turning /\ IsLoaded(seen))
EndsToCome ==
  (IF mode # "MainMenu" THEN 1 ELSE 0)
  + (IF SeenLoaded /\ ~IsLoaded(mode) THEN 1 ELSE 0)

\* An epoch the plugin has not observed is that of a load whose event waits.
EpochInv ==
  /\ observed <= live
  /\ live + EndsToCome <= 2 * world
  /\ observed < live => LoadIn(events)
  /\ observed = live /\ LoadIn(events) => ~gameplayLoaded /\ ppc # "Events"

\* A task for the live epoch, and a death that could become one, is for the world
\* that is loaded, unless that one is gone and the plugin is about to notice.
TaskInv ==
  /\ \A i \in DOMAIN tasks :
       /\ tasks[i].world # NoWorld
       /\ tasks[i].epoch <= observed
       /\ tasks[i].epoch = live =>
            /\ gameplayLoaded /\ ~LoadIn(batch)
            /\ tasks[i].world = world \/ ~IsLoaded(mode)
  /\ pending # NoWorld =>
       /\ gameplayLoaded
       /\ observed = live /\ ~LoadIn(batch) => pending = world \/ ~IsLoaded(mode)

\* A kill is for the loaded world, and nothing that would reset the death link can
\* come in between, as long as it runs or its explosion burns.
AttemptInv ==
  /\ ~InKill => attempt = NoAttempt
  /\ InKill => mode = "Interactive" /\ attempt.task.world = world /\ world # NoWorld
  /\ blast \/ InKill \/ StrikeInHook =>
       /\ IsLoaded(mode) /\ gameplayLoaded /\ observed = live
       /\ ~LoadIn(events) /\ ~LoadIn(batch)

\* The controller holds the result of at most one task or attempt, the one it runs.
WatchInv ==
  /\ \A i \in DOMAIN tasks : tasks[i].watched =>
       /\ task = "Running" /\ ~attempt.task.watched
       /\ \A j \in DOMAIN tasks : tasks[j].watched => i = j
  /\ attempt.task.watched => task = "Running"

\* An attempt that has struck will end as applied.
StruckInv ==
  /\ attempt.task.watched => until = "Open" \/ consumed
  /\ struck /\ task # "Applied" =>
       /\ attempt.task.watched
       /\ gpc \in {"Dying", "Detonated", "Weakening", "Judging"}
       /\ gpc = "Detonated" => attempt.arena \/ player = "Dead"
       /\ gpc \in {"Weakening", "Judging"} => consumed

\* There is a player only in a loaded world, and deaths and kills need one.
PlayerInv ==
  /\ ~IsLoaded(mode) => player = "None"
  /\ gpc # "Idle" => IsLoaded(mode)
  /\ reported => player = "Dead"

\* Where the window is closed the monitor is not armed, but by the plugin thread
\* after the kill began.
WindowInv ==
  /\ blast => until = "Open"
  /\ gpc = "Detonating" => until = "Open" /\ player = "Alive"
  /\ gpc = "Detonated" /\ player = "Dead" => ~blast
  /\ InKill /\ ~attempt.rearmed /\ (until # "Open" \/ gpc = "Dying") => ~armed
  /\ gpc = "Dying" /\ dying.cause = "Kill" /\ dying.wasArmed => until = "Open"

\* The monitor is armed only in a life that has reported no death, and not between
\* a death and its report: arming takes a second, a death takes less.
ArmInv ==
  /\ armed => aliveSince = "No" /\ ~reported
  /\ ppc = "Arm" => aliveSince = "Long" /\ ~armed /\ ~reported
  /\ gpc = "Dying" /\ dying.wasArmed => aliveSince # "Long" /\ ~reported /\ ~armed

IInv ==
  /\ DataOK /\ FlagOK
  /\ LoopInv /\ EpochInv /\ TaskInv /\ AttemptInv /\ WatchInv
  /\ StruckInv /\ PlayerInv /\ WindowInv /\ ArmInv
  /\ KillsAreNotSentBack /\ OneReportPerLife

-----------------------------------------------------------------------------
\* Queues.

\* The halves make up TypeOK.
LEMMA TypeHalves == DataOK /\ FlagOK => TypeOK
BY DEF TypeOK, DataOK, FlagOK

\* A load is in a queue with a new event if it was there or is the new event.
LEMMA AppendEvent ==
  ASSUME NEW q \in Seq(Events), NEW e \in Events
  PROVE  /\ Append(q, e) \in Seq(Events)
         /\ LoadIn(Append(q, e)) <=> LoadIn(q) \/ IsLoadEvent(e)
<1>1. /\ Append(q, e) \in Seq(Events) /\ DOMAIN Append(q, e) = 1..(Len(q) + 1)
      /\ DOMAIN q = 1..Len(q)
      /\ \A i \in 1..Len(q) : Append(q, e)[i] = q[i]
      /\ Append(q, e)[Len(q) + 1] = e
  OBVIOUS
<1>2. DOMAIN Append(q, e) = DOMAIN q \cup {Len(q) + 1}
  BY <1>1
<1> QED BY <1>1, <1>2 DEF LoadIn

\* A load is in a queue if it is its head or in the rest.
LEMMA TakeEvent ==
  ASSUME NEW q \in Seq(Events), q # <<>>
  PROVE  /\ Head(q) \in Events /\ Tail(q) \in Seq(Events)
         /\ LoadIn(q) <=> IsLoadEvent(Head(q)) \/ LoadIn(Tail(q))
<1>1. /\ Head(q) = q[1] /\ 1 \in DOMAIN q /\ Tail(q) \in Seq(Events)
      /\ \A i \in DOMAIN Tail(q) : i + 1 \in DOMAIN q /\ Tail(q)[i] = q[i + 1]
      /\ \A i \in DOMAIN q : i = 1 \/ (i - 1 \in DOMAIN Tail(q) /\ Tail(q)[i - 1] = q[i])
  OBVIOUS
<1>2. LoadIn(q) => IsLoadEvent(Head(q)) \/ LoadIn(Tail(q))
  BY <1>1 DEF LoadIn
<1>3. IsLoadEvent(Head(q)) \/ LoadIn(Tail(q)) => LoadIn(q)
  BY <1>1 DEF LoadIn
<1> QED BY <1>1, <1>2, <1>3

\* The tasks that wait stay as they are when the first of them is taken or another
\* one is added.
LEMMA TakeTask ==
  ASSUME NEW q \in Seq(Tasks), q # <<>>
  PROVE  /\ Head(q) \in Tasks /\ Head(q) = q[1] /\ 1 \in DOMAIN q
         /\ Tail(q) \in Seq(Tasks)
         /\ \A i \in DOMAIN Tail(q) : i \in Nat /\ i + 1 \in DOMAIN q /\ Tail(q)[i] = q[i + 1]
         /\ 0 \notin DOMAIN Tail(q)
         /\ \A i \in DOMAIN Tail(q) : \E j \in DOMAIN q : Tail(q)[i] = q[j]
OBVIOUS

LEMMA AddTask ==
  ASSUME NEW q \in Seq(Tasks), NEW t \in Tasks
  PROVE  /\ Append(q, t) \in Seq(Tasks)
         /\ DOMAIN Append(q, t) = DOMAIN q \cup {Len(q) + 1}
         /\ Len(q) + 1 \notin DOMAIN q
         /\ \A i \in DOMAIN q : Append(q, t)[i] = q[i]
         /\ Append(q, t)[Len(q) + 1] = t
OBVIOUS

\* What the controller no longer watches stays a task of its world and epoch.
LEMMA UnwatchedTasks ==
  ASSUME NEW q \in Seq(Tasks), NEW r,
         r = [i \in DOMAIN q |-> Unwatched(q[i])]
  PROVE  /\ r \in Seq(Tasks) /\ DOMAIN r = DOMAIN q
         /\ \A i \in DOMAIN q : /\ r[i].epoch = q[i].epoch /\ r[i].world = q[i].world
                                /\ ~r[i].watched
<1>1. \A t \in Tasks : /\ Unwatched(t) \in Tasks /\ ~Unwatched(t).watched
                       /\ Unwatched(t).epoch = t.epoch /\ Unwatched(t).world = t.world
  BY DEF Unwatched, Tasks
<1>2. DOMAIN q = 1..Len(q) /\ Len(q) \in Nat /\ \A i \in DOMAIN q : q[i] \in Tasks
  OBVIOUS
<1>3. r \in [1..Len(q) -> Tasks]
  BY <1>1, <1>2
<1>4. r \in Seq(Tasks)
  BY <1>2, <1>3
<1> QED BY <1>1, <1>2, <1>4

-----------------------------------------------------------------------------
\* Who moves what.

\* Only the game changes its worlds.
LEMMA WorldSteps ==
  Next => \/ UNCHANGED <<mode, world>>
          \/ LoadSave \/ NewGame \/ FinishLoading \/ ChangeControl \/ QuitToMenu
BY DEF Next, Game, HookStep, KillStep, LoopStep, StartTask,
       WindowElapses, SecondPasses, Respawn, OwnDeath, BlastKills, ConsumeAndDie,
       ConsumeAndReset, Consume, TaskStale, TaskBusy, KillRefused, EndsUnstarted,
       StartDetonation, StartKill, StartAttempt, ExplosionFails, ExplosionKills,
       ExplosionSpares, AfterDetonation, KillLands, KillMisses, WeakeningKills,
       WeakeningMisses, JudgeKill, Onward, Ends, Strikes, ReadContext, PollWindow,
       PollExpires, PollVitals, PollArms, DrainQueue, ProcessSaveLoaded,
       ProcessPlayerDied, UpdateReadiness, CancelPending, Receive, TurnEnds,
       UpdateWaits, UpdateSettles, UpdateDefers, DispatchKill, RetryDelayElapses

\* Only the loop moves itself.
LEMMA LoopSteps ==
  Next => UNCHANGED loopVars \/ LoopStep
BY DEF Next, Game, HookStep, KillStep, StartTask,
       LoadSave, NewGame, FinishLoading, ChangeControl, QuitToMenu,
       WindowElapses, SecondPasses, Respawn, OwnDeath, BlastKills, ConsumeAndDie,
       ConsumeAndReset, Consume, TaskStale, TaskBusy, KillRefused, EndsUnstarted,
       StartDetonation, StartKill, StartAttempt, ExplosionFails, ExplosionKills,
       ExplosionSpares, AfterDetonation, KillLands, KillMisses, WeakeningKills,
       WeakeningMisses, JudgeKill, Onward, Ends, Strikes, CancelPending, RetryDelayElapses

\* Only loads, reports and the loop move the events and the epochs.
LEMMA QueueSteps ==
  Next => \/ UNCHANGED queueVars
          \/ LoadSave \/ HookStep \/ DrainQueue \/ UpdateReadiness
BY DEF Next, Game, KillStep, LoopStep, StartTask,
       NewGame, FinishLoading, ChangeControl, QuitToMenu,
       WindowElapses, SecondPasses, Respawn, OwnDeath, BlastKills,
       TaskStale, TaskBusy, KillRefused, EndsUnstarted,
       StartDetonation, StartKill, StartAttempt, ExplosionFails, ExplosionKills,
       ExplosionSpares, AfterDetonation, KillLands, KillMisses, WeakeningKills,
       WeakeningMisses, JudgeKill, Onward, Ends, Strikes, ReadContext, PollWindow,
       PollExpires, PollVitals, PollArms, ProcessSaveLoaded,
       ProcessPlayerDied, CancelPending, Receive, TurnEnds,
       UpdateWaits, UpdateSettles, UpdateDefers, DispatchKill, RetryDelayElapses

\* What a step of the hook does to the queue.
LEMMA HookQueue ==
  HookStep => /\ UNCHANGED <<live, observed>>
              /\ events' = IF Reports THEN Append(events, PlayerDiedEvent(dying.cause, reported))
                           ELSE events
BY DEF HookStep, ConsumeAndDie, ConsumeAndReset, Consume

-----------------------------------------------------------------------------
\* Types.

\* The program starts in IInv.
LEMMA InitLemma == Init => IInv
<1> SUFFICES ASSUME Init PROVE IInv
  OBVIOUS
<1> USE DEF Init, NoAttempt, NoTask, NoDeath, NoWorld
<1>1. DataOK
  BY DeathLinkAssumption DEF DataOK, Modes, Epochs, Events, Tasks, Deaths
<1>2. FlagOK
  BY Zenon DEF FlagOK
<1>3. LoopInv /\ EpochInv /\ TaskInv /\ AttemptInv
  BY DEF LoopInv, EpochInv, EndsToCome, SeenLoaded, Turning, IsLoaded, LoadIn, TaskInv,
         AttemptInv, InKill, KillSteps, StrikeInHook
<1>4. WatchInv /\ StruckInv /\ PlayerInv /\ WindowInv /\ ArmInv
  BY DEF WatchInv, StruckInv, PlayerInv, WindowInv, ArmInv, InKill, KillSteps, IsLoaded
<1>5. KillsAreNotSentBack /\ OneReportPerLife
  BY DEF KillsAreNotSentBack, OneReportPerLife, Reported
<1> QED BY <1>1, <1>2, <1>3, <1>4, <1>5 DEF IInv

LEMMA FlagStep == FlagOK /\ Next => FlagOK'
<1> SUFFICES ASSUME FlagOK, Next PROVE FlagOK'
  OBVIOUS
<1>1. CASE Game
  BY <1>1, Zenon DEF FlagOK, Game, LoadSave, NewGame, FinishLoading, ChangeControl,
     QuitToMenu, Respawn, OwnDeath, BlastKills, EnterHook, ArmedAfterDeath, WindowElapses,
     SecondPasses
<1>2. CASE HookStep
  BY <1>2, Zenon DEF FlagOK, HookStep, ConsumeAndDie, ConsumeAndReset, Consume, Reports,
     Suppressed
<1>3. CASE KillStep
  BY <1>3, Zenon DEF FlagOK, KillStep, StartTask, TaskStale, TaskBusy, KillRefused,
     EndsUnstarted, StartDetonation, StartKill, StartAttempt, ExplosionFails,
     ExplosionKills, ExplosionSpares, AfterDetonation, KillLands, KillMisses,
     WeakeningKills, WeakeningMisses, JudgeKill, Onward, Ends, Strikes, EnterHook,
     ArmedAfterDeath, Begin, End
<1>4. CASE ReadContext \/ PollWindow \/ PollExpires \/ PollVitals \/ PollArms \/ DrainQueue
           \/ ProcessSaveLoaded \/ ProcessPlayerDied \/ Receive
  BY <1>4, Zenon DEF FlagOK, ReadContext, PollWindow, PollExpires, PollVitals, PollArms,
     DrainQueue, ProcessSaveLoaded, ProcessPlayerDied, Receive, ResetDeathLink, End
<1>5. CASE UpdateReadiness
  <2>1. gameplayLoaded' \in BOOLEAN
    BY <1>5 DEF UpdateReadiness, IsLoaded
  <2>2. CASE WorldEnded
    BY <1>5, <2>1, <2>2, Zenon DEF FlagOK, UpdateReadiness, ResetDeathLink, End
  <2>3. CASE ~WorldEnded
    BY <1>5, <2>1, <2>3, Zenon DEF FlagOK, UpdateReadiness
  <2> QED BY <2>2, <2>3
<1>6. CASE UpdateWaits \/ UpdateSettles \/ UpdateDefers \/ DispatchKill \/ CancelPending
           \/ RetryDelayElapses
  BY <1>6, Zenon DEF FlagOK, UpdateWaits, UpdateSettles, UpdateDefers, DispatchKill,
     TurnEnds, CancelPending, RetryDelayElapses
<1> QED BY <1>1, <1>2, <1>3, <1>4, <1>5, <1>6 DEF Next, LoopStep

\* The live epoch stays in its bound because no world ends twice (EpochInv).
LEMMA DataStep == DataOK /\ FlagOK /\ LoopInv /\ EpochInv /\ Next => DataOK'
<1> SUFFICES ASSUME DataOK, FlagOK, LoopInv, EpochInv, Next PROVE DataOK'
  OBVIOUS
<1> USE DeathLinkAssumption DEF DataOK
<1>1. CASE LoadSave \/ NewGame \/ FinishLoading \/ ChangeControl \/ QuitToMenu
  <2>1. SaveLoadedEvent \in Events
    BY DEF SaveLoadedEvent, Events
  <2>2. live' \in Epochs /\ world' \in 0..MaxWorld /\ mode' \in Modes
    BY <1>1 DEF LoadSave, NewGame, FinishLoading, ChangeControl, QuitToMenu, EpochInv,
       EndsToCome, Epochs, Modes
  <2>3. events' \in Seq(Events)
    BY <1>1, <2>1, AppendEvent DEF LoadSave, NewGame, FinishLoading, ChangeControl, QuitToMenu
  <2>4. /\ player' \in {"None", "Alive", "Dead"}
        /\ UNCHANGED <<seen, pending, until, aliveSince, observed, batch, tasks, task, gpc,
                       attempt, dying, ppc>>
    BY <1>1 DEF LoadSave, NewGame, FinishLoading, ChangeControl, QuitToMenu
  <2> QED BY <2>2, <2>3, <2>4
<1>2. CASE Respawn \/ WindowElapses \/ SecondPasses
  BY <1>2 DEF Respawn, WindowElapses, SecondPasses
<1>d. \A cause, then : EnterHook(cause, then) /\ cause \in {"Own", "Kill", "KillAfterRearm"}
                          /\ then \in {"Idle", "Detonated", "Weakening", "Judging"}
          => gpc' = "Dying" /\ dying' \in Deaths
  BY DEF FlagOK, EnterHook, Deaths
<1>10. CASE OwnDeath \/ BlastKills
  <2>1. gpc' = "Dying" /\ dying' \in Deaths
    BY <1>10, <1>d DEF OwnDeath, BlastKills
  <2> QED BY <1>10, <2>1 DEF OwnDeath, BlastKills
<1>3. CASE HookStep
  <2>1. PlayerDiedEvent(dying.cause, reported) \in Events
    BY DEF FlagOK, PlayerDiedEvent, Events, Deaths
  <2>2. events' \in Seq(Events)
    BY <1>3, <2>1, AppendEvent, HookQueue
  <2>3. gpc' = dying.then /\ dying' = NoDeath /\ UNCHANGED attempt
    BY <1>3 DEF HookStep, ConsumeAndDie, ConsumeAndReset, Consume
  <2>4. gpc' \in {"Idle", "Dying", "Detonating", "Detonated", "Striking", "Weakening",
                  "Judging"} /\ dying' \in Deaths
    BY <2>3 DEF NoDeath, Deaths
  <2>5. player' \in {"None", "Alive", "Dead"} /\ until' = "Off"
    BY <1>3 DEF HookStep, ConsumeAndDie, ConsumeAndReset, Consume
  <2> QED BY <1>3, <2>2, <2>3, <2>4, <2>5 DEF HookStep, ConsumeAndDie, ConsumeAndReset, Consume
<1>4. CASE StartTask
  <2>1. Head(tasks) \in Tasks /\ tasks' = Tail(tasks) /\ tasks' \in Seq(Tasks)
    BY <1>4, TakeTask DEF StartTask, TaskStale, TaskBusy, KillRefused, EndsUnstarted,
       StartDetonation, StartKill, StartAttempt, NextTask, MayKill
  <2>2. /\ attempt' = attempt \/ \E arena \in BOOLEAN :
             attempt' = [task |-> Head(tasks), arena |-> arena, rearmed |-> FALSE]
        /\ gpc' \in {gpc, "Detonating", "Striking"} /\ until' \in {until, "Open"}
        /\ task' \in {task, "Dropped", "Deferred"}
        /\ UNCHANGED <<mode, seen, world, pending, player, aliveSince, live, observed, events,
                       batch, dying, ppc>>
    BY <1>4 DEF StartTask, TaskStale, TaskBusy, KillRefused, EndsUnstarted,
       StartDetonation, StartKill, StartAttempt, Begin
  <2>3. ASSUME NEW arena \in BOOLEAN
        PROVE  [task |-> Head(tasks), arena |-> arena, rearmed |-> FALSE]
                 \in [task : Tasks, arena : BOOLEAN, rearmed : BOOLEAN]
    BY <2>1
  <2>4. attempt' \in [task : Tasks, arena : BOOLEAN, rearmed : BOOLEAN]
    BY <2>2, <2>3
  <2> QED BY <2>1, <2>2, <2>4
<1>5. CASE KillStep /\ ~StartTask
  <2>1. NoAttempt \in [task : Tasks, arena : BOOLEAN, rearmed : BOOLEAN]
    BY DEF NoAttempt, NoTask, NoWorld, Tasks, Epochs
  <2>2. CASE ExplosionKills \/ KillLands \/ WeakeningKills
    <3>1. gpc' = "Dying" /\ dying' \in Deaths
      BY <2>2, <1>d DEF ExplosionKills, KillLands, WeakeningKills, Strikes, KillCause
    <3> QED BY <2>2, <3>1 DEF ExplosionKills, KillLands, WeakeningKills, Strikes
  <2>3. ASSUME NEW step \in KillSteps, Onward(step), UNCHANGED windowVars \/ Begin
        PROVE  DataOK'
    BY <2>3 DEF Onward, Begin, KillSteps
  <2>4. ASSUME NEW outcome \in {"Applied", "Deferred"}, Ends(outcome), UNCHANGED windowVars \/ End
        PROVE  DataOK'
    BY <2>1, <2>4 DEF Ends, Finish, End
  <2>5. CASE ExplosionSpares \/ KillMisses \/ WeakeningMisses
    BY <2>3, <2>5 DEF ExplosionSpares, KillMisses, WeakeningMisses, KillSteps
  <2>6. CASE ExplosionFails
    BY <2>3, <2>4, <2>6 DEF ExplosionFails, KillSteps
  <2>7. CASE AfterDetonation
    BY <2>3, <2>4, <2>7 DEF AfterDetonation, KillSteps
  <2>8. CASE JudgeKill
    BY <2>4, <2>8 DEF JudgeKill
  <2> QED BY <1>5, <2>2, <2>5, <2>6, <2>7, <2>8 DEF KillStep
<1>6. CASE ReadContext \/ PollWindow \/ PollExpires \/ PollVitals \/ DrainQueue
           \/ ProcessPlayerDied \/ Receive \/ UpdateWaits \/ UpdateSettles \/ UpdateDefers
           \/ RetryDelayElapses \/ CancelPending
  <2>1. CASE ReadContext \/ PollWindow \/ PollExpires \/ PollVitals
    BY <2>1 DEF ReadContext, PollWindow, PollExpires, PollVitals, Expired
  <2>2. CASE DrainQueue
    BY <2>2 DEF DrainQueue
  <2>5. CASE ProcessPlayerDied
    BY <2>5, TakeEvent DEF ProcessPlayerDied
  <2>3. CASE Receive \/ UpdateWaits \/ UpdateSettles \/ UpdateDefers
    BY <2>3 DEF Receive, UpdateWaits, UpdateSettles, UpdateDefers, TurnEnds, NoWorld
  <2>4. CASE RetryDelayElapses
    BY <2>4 DEF RetryDelayElapses
  <2>6. CASE CancelPending
    BY <2>6 DEF CancelPending, DiscardedAs
  <2> QED BY <1>6, <2>1, <2>2, <2>3, <2>4, <2>5, <2>6
<1>7. CASE PollArms
  <2>1. attempt' \in [task : Tasks, arena : BOOLEAN, rearmed : BOOLEAN]
    BY <1>7 DEF PollArms
  <2> QED BY <1>7, <2>1 DEF PollArms
<1>8. CASE DispatchKill
  <2>1. [epoch |-> observed, world |-> pending, watched |-> TRUE] \in Tasks
    BY DEF Tasks
  <2> QED BY <1>8, <2>1, AddTask DEF DispatchKill, TurnEnds
<1>9. CASE ProcessSaveLoaded \/ UpdateReadiness
  <2>1. ResetDeathLink => /\ tasks' \in Seq(Tasks) /\ pending' \in 0..MaxWorld
                          /\ task' = "None" /\ until' = "Off" /\ aliveSince' = "No"
    BY UnwatchedTasks DEF ResetDeathLink, NoWorld, End
  <2>2. ResetDeathLink => attempt' \in [task : Tasks, arena : BOOLEAN, rearmed : BOOLEAN]
    <3> SUFFICES ASSUME ResetDeathLink
                 PROVE  attempt' \in [task : Tasks, arena : BOOLEAN, rearmed : BOOLEAN]
      OBVIOUS
    <3>1. Unwatched(attempt.task) \in Tasks
      BY DEF Unwatched, Tasks
    <3>2. attempt' = [attempt EXCEPT !.task = Unwatched(attempt.task)]
      BY DEF ResetDeathLink
    <3> QED BY <3>1, <3>2
  <2>3. CASE ProcessSaveLoaded
    BY <2>1, <2>2, <2>3, TakeEvent DEF ProcessSaveLoaded
  <2>4. CASE UpdateReadiness
    <3>1. WorldEnded => live + 1 \in Epochs
      BY <2>4 DEF WorldEnded, UpdateReadiness, LoopInv, Turning, EpochInv, EndsToCome,
         SeenLoaded, Epochs
    <3>2. CASE WorldEnded
      BY <2>1, <2>2, <2>4, <3>1, <3>2 DEF UpdateReadiness
    <3>3. CASE ~WorldEnded
      BY <2>4, <3>3 DEF UpdateReadiness
    <3> QED BY <3>2, <3>3
  <2> QED BY <1>9, <2>3, <2>4
<1> QED BY <1>1, <1>2, <1>3, <1>4, <1>5, <1>6, <1>7, <1>8, <1>9,
        <1>10 DEF Next, Game, LoopStep
-----------------------------------------------------------------------------
\* The loop, the epochs and the tasks.

LEMMA LoopStepInv == LoopInv /\ Next => LoopInv'
<1> SUFFICES ASSUME LoopInv, Next PROVE LoopInv'
  OBVIOUS
<1>1. CASE UNCHANGED <<mode, loopVars>>
  BY <1>1 DEF LoopInv, Turning
<1>2. CASE LoadSave \/ NewGame \/ FinishLoading \/ ChangeControl \/ QuitToMenu
  BY <1>2 DEF LoopInv, Turning, IsLoaded, LoadSave, NewGame, FinishLoading, ChangeControl,
     QuitToMenu
<1>3. CASE LoopStep
  BY <1>3 DEF LoopInv, Turning, LoopStep, ReadContext, PollWindow, PollExpires, PollVitals,
     PollArms, DrainQueue, ProcessSaveLoaded, ProcessPlayerDied, UpdateReadiness, Receive,
     TurnEnds, UpdateWaits, UpdateSettles, UpdateDefers, DispatchKill
<1> QED BY <1>1, <1>2, <1>3, WorldSteps, LoopSteps

\* A report is not a load.
LEMMA ReportIsNoLoad ==
  ASSUME DataOK, FlagOK, HookStep
  PROVE  LoadIn(events') <=> LoadIn(events)
<1>1. /\ PlayerDiedEvent(dying.cause, reported) \in Events
      /\ ~IsLoadEvent(PlayerDiedEvent(dying.cause, reported))
  BY DEF DataOK, FlagOK, PlayerDiedEvent, IsLoadEvent, Events, Deaths
<1>2. CASE Reports
  <2>1. events' = Append(events, PlayerDiedEvent(dying.cause, reported))
    BY <1>2, HookQueue
  <2>2. events \in Seq(Events)
    BY DEF DataOK
  <2> QED BY <1>1, <2>1, <2>2, AppendEvent
<1>3. CASE ~Reports
  BY <1>3, HookQueue DEF LoadIn
<1> QED BY <1>2, <1>3

\* The live epoch moves at the hooked load of a world and once more when its end is
\* seen, and a load always leaves an event behind that has to be processed.
LEMMA EpochStepInv == DataOK /\ FlagOK /\ LoopInv /\ EpochInv /\ Next => EpochInv'
<1> SUFFICES ASSUME DataOK, FlagOK, LoopInv, EpochInv, Next PROVE EpochInv'
  OBVIOUS
<1>t. live \in Nat /\ observed \in Nat /\ world \in Nat /\ mode \in Modes
  BY DeathLinkAssumption DEF DataOK, Epochs
<1>1. CASE UNCHANGED <<mode, world, queueVars, loopVars>>
  BY <1>1 DEF EpochInv, EndsToCome, SeenLoaded, Turning, LoadIn
<1>2. CASE LoadSave
  <2>1. SaveLoadedEvent \in Events /\ IsLoadEvent(SaveLoadedEvent)
    BY DEF SaveLoadedEvent, Events, IsLoadEvent
  <2>2. LoadIn(events')
    BY <1>2, <2>1, AppendEvent DEF LoadSave, DataOK
  <2>3. observed' <= live' /\ observed' < live'
    BY <1>2, <1>t DEF LoadSave, EpochInv
  <2>4. live' + EndsToCome' <= 2 * world'
    <3>1. mode # "MainMenu" \/ ~IsLoaded(mode)
      BY DEF IsLoaded
    <3>2. EndsToCome' <= EndsToCome + 1 /\ EndsToCome \in Nat /\ EndsToCome' \in Nat
      BY <1>2, <3>1 DEF LoadSave, EndsToCome, SeenLoaded, Turning, IsLoaded
    <3>3. live' = live + 1 /\ world' = world + 1 /\ live + EndsToCome <= 2 * world
      BY <1>2 DEF LoadSave, EpochInv
    <3>4. ASSUME NEW e \in Nat, NEW f \in Nat, f <= e + 1, live + e <= 2 * world
          PROVE  live + 1 + f <= 2 * (world + 1)
      BY <1>t, <3>4
    <3> QED BY <3>2, <3>3, <3>4
  <2>5. ~(observed' = live')
    BY <1>2, <1>t DEF LoadSave, EpochInv
  <2> QED BY <2>2, <2>3, <2>4, <2>5 DEF EpochInv
<1>3. CASE NewGame \/ FinishLoading \/ ChangeControl \/ QuitToMenu
  <2>1. UNCHANGED <<queueVars, loopVars>>
    BY <1>3 DEF NewGame, FinishLoading, ChangeControl, QuitToMenu
  <2>2. live' + EndsToCome' <= 2 * world'
    BY <1>3, <1>t DEF NewGame, FinishLoading, ChangeControl, QuitToMenu, EpochInv, EndsToCome,
       SeenLoaded, Turning, IsLoaded, Modes
  <2> QED BY <2>1, <2>2 DEF EpochInv, LoadIn
<1>4. CASE HookStep
  <2>1. UNCHANGED <<live, observed, mode, world, loopVars>>
    BY <1>4, HookQueue DEF HookStep, ConsumeAndDie, ConsumeAndReset, Consume
  <2>2. UNCHANGED EndsToCome
    BY <2>1 DEF EndsToCome, SeenLoaded, Turning, IsLoaded
  <2> QED BY <1>4, <2>1, <2>2, ReportIsNoLoad DEF EpochInv
<1>5. CASE DrainQueue
  BY <1>5, <1>t DEF DrainQueue, EpochInv, EndsToCome, SeenLoaded, Turning, LoadIn
<1>6. CASE UpdateReadiness
  <2>1. UNCHANGED <<mode, world, events, seen>> /\ gameplayLoaded' = IsLoaded(seen)
        /\ ppc = "Events" /\ ppc' = "Receive"
    BY <1>6 DEF UpdateReadiness
  <2>2. CASE WorldEnded
    <3>1. live' = live + 1 /\ observed' = live + 1 /\ gameplayLoaded /\ ~gameplayLoaded'
          /\ ~IsLoaded(mode)
      BY <1>6, <2>1, <2>2 DEF UpdateReadiness, WorldEnded, LoopInv, Turning
    <3> QED BY <1>t, <2>1, <3>1 DEF EpochInv, EndsToCome, SeenLoaded, Turning, LoadIn
  <2>3. CASE ~WorldEnded
    <3>1. UNCHANGED <<live, observed>>
      BY <1>6, <2>3 DEF UpdateReadiness
    <3> QED BY <1>t, <2>1, <2>3, <3>1 DEF EpochInv, EndsToCome, SeenLoaded, Turning, LoadIn,
         WorldEnded
  <2> QED BY <2>2, <2>3
<1>7. CASE LoopStep /\ ~DrainQueue /\ ~UpdateReadiness
  <2>1. UNCHANGED <<mode, world, queueVars, gameplayLoaded>>
    BY <1>7 DEF LoopStep, ReadContext, PollWindow, PollExpires, PollVitals,
       PollArms, ProcessSaveLoaded, ProcessPlayerDied, Receive,
       TurnEnds, UpdateWaits, UpdateSettles, UpdateDefers, DispatchKill
  <2>2. /\ ppc' = "Events" <=> ppc = "Events"
        /\ \/ Turning' /\ ~Turning /\ seen' = mode
           \/ (Turning' => Turning) /\ UNCHANGED seen
    BY <1>7 DEF Turning, LoopStep, ReadContext, PollWindow, PollExpires, PollVitals,
       PollArms, ProcessSaveLoaded, ProcessPlayerDied, Receive,
       TurnEnds, UpdateWaits, UpdateSettles, UpdateDefers, DispatchKill
  <2>3. IF SeenLoaded' /\ ~IsLoaded(mode') THEN SeenLoaded /\ ~IsLoaded(mode) ELSE TRUE
    BY <2>1, <2>2 DEF SeenLoaded
  <2>4. live' + EndsToCome' <= 2 * world'
    BY <1>t, <2>1, <2>3 DEF EpochInv, EndsToCome
  <2> QED BY <2>1, <2>2, <2>4 DEF EpochInv, LoadIn
<1> QED BY <1>1, <1>2, <1>3, <1>4, <1>5, <1>6, <1>7, WorldSteps, LoopSteps, QueueSteps

\* A waiting task is for the world of its epoch.
LEMMA TaskStepInv ==
  DataOK /\ FlagOK /\ LoopInv /\ EpochInv /\ TaskInv /\ Next => TaskInv'
<1> SUFFICES ASSUME DataOK, FlagOK, LoopInv, EpochInv, TaskInv, Next PROVE TaskInv'
  OBVIOUS
<1>t. live \in Nat /\ observed \in Nat /\ \A i \in DOMAIN tasks : tasks[i].epoch \in Nat
  <2>1. \A i \in DOMAIN tasks : tasks[i] \in Tasks
    BY DEF DataOK
  <2> QED BY <2>1, DeathLinkAssumption DEF DataOK, Epochs, Tasks
<1>1. CASE LoadSave
  <2>1. live' = live + 1 /\ UNCHANGED <<observed, tasks, pending, gameplayLoaded>>
    BY <1>1 DEF LoadSave
  <2> QED BY <1>t, <2>1 DEF TaskInv, EpochInv
<1>2. CASE NewGame \/ FinishLoading \/ ChangeControl \/ QuitToMenu
  BY <1>2 DEF TaskInv, LoadIn, IsLoaded, NewGame, FinishLoading, ChangeControl, QuitToMenu
<1>3. CASE StartTask \/ CancelPending
  <2>1. UNCHANGED <<mode, world, live, observed, gameplayLoaded, batch, pending>>
    BY <1>3 DEF StartTask, TaskStale, TaskBusy, KillRefused, EndsUnstarted, StartDetonation,
       StartKill, StartAttempt, CancelPending
  <2>2. \A i \in DOMAIN tasks' : \E j \in DOMAIN tasks : tasks'[i] = tasks[j]
    <3>1. CASE StartTask
      <4>1. tasks # <<>> /\ tasks' = Tail(tasks)
        BY <3>1 DEF StartTask, TaskStale, TaskBusy, KillRefused, EndsUnstarted,
           StartDetonation, StartKill, StartAttempt, NextTask, MayKill
      <4> QED BY <4>1, TakeTask DEF DataOK
    <3>2. CASE CancelPending
      BY <3>2 DEF CancelPending
    <3> QED BY <1>3, <3>1, <3>2
  <2> QED BY <2>1, <2>2 DEF TaskInv, LoadIn
<1>4. CASE DrainQueue
  <2>1. /\ UNCHANGED <<mode, world, live, gameplayLoaded, tasks, pending>>
        /\ observed' = live /\ (LoadIn(batch') <=> LoadIn(events)) /\ ~LoadIn(batch)
    BY <1>4 DEF DrainQueue, LoadIn, LoopInv
  <2>2. observed = live \/ LoadIn(events)
    BY <1>t DEF EpochInv
  <2>3. \A i \in DOMAIN tasks :
          tasks[i].epoch <= live /\ (tasks[i].epoch = live => observed = live)
    BY <1>t DEF TaskInv, EpochInv
  <2> QED BY <1>t, <2>1, <2>2, <2>3 DEF TaskInv, EpochInv
<1>5. CASE ProcessSaveLoaded
  <2>1. LoadIn(batch)
    BY <1>5, TakeEvent DEF ProcessSaveLoaded, IsLoadEvent, DataOK
  <2>2. /\ UNCHANGED <<observed, live>> /\ pending' = NoWorld
        /\ tasks' = [i \in DOMAIN tasks |-> Unwatched(tasks[i])]
    BY <1>5 DEF ProcessSaveLoaded, ResetDeathLink
  <2>3. DOMAIN tasks' = DOMAIN tasks
        /\ \A i \in DOMAIN tasks : /\ tasks'[i].epoch = tasks[i].epoch
                                   /\ tasks'[i].world = tasks[i].world
    BY <2>2, UnwatchedTasks DEF DataOK
  <2> QED BY <2>1, <2>2, <2>3 DEF TaskInv
<1>6. CASE ProcessPlayerDied
  <2>1. LoadIn(batch') <=> LoadIn(batch)
    BY <1>6, TakeEvent DEF ProcessPlayerDied, IsLoadEvent, DataOK
  <2>2. UNCHANGED <<mode, world, live, observed, gameplayLoaded, tasks, pending>>
    BY <1>6 DEF ProcessPlayerDied
  <2> QED BY <2>1, <2>2 DEF TaskInv
<1>7. CASE UpdateReadiness
  <2>1. UNCHANGED <<mode, world, batch>> /\ gameplayLoaded' = IsLoaded(seen)
    BY <1>7 DEF UpdateReadiness
  <2>2. CASE WorldEnded
    <3>1. /\ live' = live + 1 /\ observed' = live + 1 /\ pending' = NoWorld
          /\ tasks' = [i \in DOMAIN tasks |-> Unwatched(tasks[i])]
      BY <1>7, <2>2 DEF UpdateReadiness, ResetDeathLink
    <3>2. DOMAIN tasks' = DOMAIN tasks
          /\ \A i \in DOMAIN tasks : /\ tasks'[i].epoch = tasks[i].epoch
                                     /\ tasks'[i].world = tasks[i].world
      BY <3>1, UnwatchedTasks DEF DataOK
    <3>3. \A i \in DOMAIN tasks : tasks[i].epoch <= live
      BY <1>t DEF TaskInv, EpochInv
    <3> QED BY <1>t, <3>1, <3>2, <3>3 DEF TaskInv
  <2>3. CASE ~WorldEnded
    <3>1. UNCHANGED <<live, observed, tasks, pending>> /\ (gameplayLoaded => gameplayLoaded')
      BY <1>7, <2>1, <2>3 DEF UpdateReadiness, WorldEnded
    <3> QED BY <2>1, <3>1 DEF TaskInv, LoadIn
  <2> QED BY <2>2, <2>3
<1>8. CASE Receive
  BY <1>8 DEF TaskInv, LoadIn, LoopInv, Receive
<1>9. CASE DispatchKill
  <2> DEFINE t == [epoch |-> observed, world |-> pending, watched |-> TRUE]
  <2>1. UNCHANGED <<mode, world, live, observed, gameplayLoaded, batch, pending>>
        /\ tasks' = Append(tasks, t) /\ ~LoadIn(batch) /\ pending # NoWorld
    BY <1>9 DEF DispatchKill, TurnEnds, LoopInv, LoadIn
  <2>2. t \in Tasks
    BY DEF DataOK, Tasks
  <2>3. \A i \in DOMAIN tasks' : (i \in DOMAIN tasks /\ tasks'[i] = tasks[i]) \/ tasks'[i] = t
    BY <2>1, <2>2, AddTask DEF DataOK
  <2>4. t.epoch = observed /\ t.world = pending
    OBVIOUS
  <2> HIDE DEF t
  <2> QED BY <1>t, <2>1, <2>3, <2>4 DEF TaskInv, LoadIn
<1>10. CASE UpdateSettles
  BY <1>10 DEF TaskInv, LoadIn, UpdateSettles, TurnEnds
<1>11. CASE UNCHANGED <<mode, world, live, observed, gameplayLoaded, batch, tasks, pending>>
  BY <1>11 DEF TaskInv, LoadIn
<1>12. \/ UNCHANGED <<tasks, pending, live, observed, gameplayLoaded, batch, mode, world>>
       \/ LoadSave \/ NewGame \/ FinishLoading \/ ChangeControl \/ QuitToMenu
       \/ StartTask \/ CancelPending \/ DrainQueue \/ ProcessSaveLoaded \/ ProcessPlayerDied
       \/ UpdateReadiness \/ Receive \/ DispatchKill \/ UpdateSettles
  BY DEF Next, Game, HookStep, KillStep, LoopStep,
       WindowElapses, SecondPasses, Respawn, OwnDeath, BlastKills, ConsumeAndDie,
       ConsumeAndReset, Consume, ExplosionFails, ExplosionKills,
       ExplosionSpares, AfterDetonation, KillLands, KillMisses, WeakeningKills,
       WeakeningMisses, JudgeKill, Onward, Ends, Strikes, ReadContext, PollWindow,
       PollExpires, PollVitals, PollArms, TurnEnds, UpdateWaits, UpdateDefers,
       RetryDelayElapses
<1> QED BY <1>1, <1>2, <1>3, <1>4, <1>5, <1>6, <1>7, <1>8, <1>9, <1>10, <1>11, <1>12

-----------------------------------------------------------------------------
\* The kill.

\* A kill begins in the world its death was received in, and no load is due.
LEMMA StartOfKill ==
  ASSUME DataOK, EpochInv, TaskInv, MayKill
  PROVE  /\ gameplayLoaded /\ observed = live /\ ~LoadIn(events) /\ ~LoadIn(batch)
         /\ Head(tasks) \in Tasks /\ Head(tasks).world = world /\ world # NoWorld
<1>1. Head(tasks) = tasks[1] /\ 1 \in DOMAIN tasks /\ Head(tasks) \in Tasks
  BY TakeTask DEF DataOK, MayKill, NextTask
<1>2. tasks[1].epoch = live /\ mode = "Interactive"
  BY <1>1 DEF MayKill, IsCurrent
<1>3. live \in Nat /\ observed \in Nat
  BY DeathLinkAssumption DEF DataOK, Epochs
<1>4. observed = live
  BY <1>1, <1>2, <1>3 DEF TaskInv, EpochInv
<1> QED BY <1>1, <1>2, <1>4 DEF TaskInv, EpochInv, IsLoaded

\* What the hook records of the death it is entered for.
LEMMA HookFrame ==
  ASSUME NEW cause, NEW then, EnterHook(cause, then)
  PROVE  /\ gpc' = "Dying" /\ ~armed'
         /\ dying'.cause = cause /\ dying'.then = then /\ dying'.wasArmed = armed
BY DEF EnterHook, ArmedAfterDeath

\* What a step of a kill that runs does to the frame of the game thread.
LEMMA KillFrames ==
  ASSUME KillStep, ~StartTask
  PROVE  /\ UNCHANGED <<mode, world, queueVars, tasks, pending, loopVars, reported, player>>
         /\ gpc \in KillSteps
         /\ \/ /\ gpc' = "Idle" /\ attempt' = NoAttempt
               /\ task' = "Applied" \/ task' = "Deferred" \/ ~attempt.task.watched
               /\ ~attempt.task.watched => UNCHANGED task
            \/ gpc' \in KillSteps /\ UNCHANGED <<attempt, dying, task>>
            \/ gpc' = "Dying" /\ dying'.then # "Idle" /\ UNCHANGED <<attempt, task>>
<1>1. CASE ExplosionKills \/ KillLands \/ WeakeningKills
  BY <1>1, HookFrame DEF ExplosionKills, KillLands, WeakeningKills, Strikes, KillSteps
<1>2. CASE ExplosionSpares \/ KillMisses \/ WeakeningMisses \/ JudgeKill
  BY <1>2 DEF ExplosionSpares, KillMisses, WeakeningMisses, JudgeKill, Onward, Ends, Finish,
     KillSteps
<1>3. CASE ExplosionFails
  <2>1. CASE Ends("Deferred")
    BY <1>3, <2>1 DEF ExplosionFails, Ends, Finish, KillSteps
  <2>2. CASE Onward("Striking")
    BY <1>3, <2>2 DEF ExplosionFails, Onward, KillSteps
  <2> QED BY <1>3, <2>1, <2>2 DEF ExplosionFails
<1>4. CASE AfterDetonation
  <2>1. CASE Ends("Applied")
    BY <1>4, <2>1 DEF AfterDetonation, Ends, Finish, KillSteps
  <2>2. CASE Onward("Striking")
    BY <1>4, <2>2 DEF AfterDetonation, Onward, KillSteps
  <2> QED BY <1>4, <2>1, <2>2 DEF AfterDetonation
<1> QED BY <1>1, <1>2, <1>3, <1>4 DEF KillStep

\* A record stays the same when a field is set to what it holds.
LEMMA SameTask ==
  ASSUME NEW a, NEW b, NEW c
  PROVE  [[epoch |-> a, world |-> b, watched |-> c] EXCEPT !.watched = c]
           = [epoch |-> a, world |-> b, watched |-> c]
OBVIOUS

LEMMA SameAttempt ==
  ASSUME NEW a, NEW b, NEW c
  PROVE  /\ [[task |-> a, arena |-> b, rearmed |-> c] EXCEPT !.task = a]
              = [task |-> a, arena |-> b, rearmed |-> c]
         /\ [[task |-> a, arena |-> b, rearmed |-> c] EXCEPT !.rearmed = c]
              = [task |-> a, arena |-> b, rearmed |-> c]
OBVIOUS

\* A reset finds no kill under way, so it leaves no attempt without its watcher.
LEMMA ResetFindsNoKill ==
  ASSUME DataOK, LoopInv, AttemptInv, ProcessSaveLoaded \/ (UpdateReadiness /\ WorldEnded)
  PROVE  /\ ~blast /\ ~InKill /\ ~StrikeInHook
         /\ attempt = NoAttempt /\ attempt' = NoAttempt
<1>1. NoAttempt.task = NoTask /\ Unwatched(NoTask) = NoTask
      /\ [NoAttempt EXCEPT !.task = NoTask] = NoAttempt
  <2>1. NoAttempt.task = NoTask
    BY DEF NoAttempt
  <2>2. Unwatched(NoTask) = NoTask
    BY SameTask DEF Unwatched, NoTask
  <2>3. [NoAttempt EXCEPT !.task = NoTask] = NoAttempt
    BY SameAttempt DEF NoAttempt
  <2> QED BY <2>1, <2>2, <2>3
<1>2. attempt' = [attempt EXCEPT !.task = Unwatched(attempt.task)]
  BY DEF ProcessSaveLoaded, UpdateReadiness, ResetDeathLink
<1>3. LoadIn(batch) \/ ~IsLoaded(mode)
  <2>1. CASE ProcessSaveLoaded
    BY <2>1, TakeEvent DEF DataOK, ProcessSaveLoaded, IsLoadEvent
  <2>2. CASE UpdateReadiness /\ WorldEnded
    BY <2>2 DEF UpdateReadiness, WorldEnded, LoopInv, Turning
  <2> QED BY <2>1, <2>2
<1>4. ~blast /\ ~InKill /\ ~StrikeInHook
  BY <1>3 DEF AttemptInv
<1>5. attempt = NoAttempt
  BY <1>4 DEF AttemptInv
<1> QED BY <1>1, <1>2, <1>4, <1>5

\* Arming the monitor changes nothing of an attempt but that it is known to be armed.
LEMMA ArmingKeepsAttempt ==
  ASSUME DataOK, PollArms
  PROVE  /\ attempt'.task = attempt.task /\ attempt'.arena = attempt.arena
         /\ attempt'.rearmed <=> attempt # NoAttempt
         /\ attempt = NoAttempt => attempt' = NoAttempt
<1>1. attempt' = [attempt EXCEPT !.rearmed = attempt # NoAttempt]
  BY DEF PollArms
<1>2. attempt \in [task : Tasks, arena : BOOLEAN, rearmed : BOOLEAN]
  BY DEF DataOK
<1>3. CASE attempt = NoAttempt
  <2>1. attempt' = [NoAttempt EXCEPT !.rearmed = FALSE]
    BY <1>1, <1>3
  <2>2. [NoAttempt EXCEPT !.rearmed = FALSE] = NoAttempt
    BY SameAttempt DEF NoAttempt
  <2>3. ~NoAttempt.rearmed
    BY DEF NoAttempt
  <2> QED BY <1>3, <2>1, <2>2, <2>3
<1>4. CASE attempt # NoAttempt
  BY <1>1, <1>2, <1>4
<1> QED BY <1>3, <1>4

\* A kill is for the loaded world and nothing resets the death link meanwhile.
LEMMA AttemptStepInv ==
  DataOK /\ FlagOK /\ LoopInv /\ EpochInv /\ TaskInv /\ AttemptInv /\ Next => AttemptInv'
<1> SUFFICES ASSUME DataOK, FlagOK, LoopInv, EpochInv, TaskInv, AttemptInv, Next
             PROVE  AttemptInv'
  OBVIOUS
<1>1. CASE LoadSave \/ NewGame \/ FinishLoading \/ ChangeControl \/ QuitToMenu
  <2>1. gpc = "Idle" /\ UNCHANGED <<frameVars, gameplayLoaded, observed, batch>>
        /\ (blast' => blast /\ ~LoadSave /\ ~QuitToMenu)
    BY <1>1 DEF LoadSave, NewGame, FinishLoading, ChangeControl, QuitToMenu
  <2>2. ~InKill' /\ ~StrikeInHook' /\ attempt' = NoAttempt
    BY <2>1 DEF AttemptInv, InKill, StrikeInHook, KillSteps
  <2>3. blast' => /\ UNCHANGED <<live, events>> /\ IsLoaded(mode')
    BY <1>1, <2>1 DEF NewGame, FinishLoading, ChangeControl, AttemptInv, IsLoaded
  <2> QED BY <2>1, <2>2, <2>3 DEF AttemptInv, LoadIn
<1>2. CASE OwnDeath \/ BlastKills
  <2>1. /\ gpc = "Idle" /\ gpc' = "Dying" /\ dying'.then = "Idle"
        /\ (OwnDeath => dying'.cause = "Own") /\ (~OwnDeath => blast)
        /\ UNCHANGED <<gameVars, queueVars, attempt, loopVars>>
    BY <1>2, HookFrame DEF OwnDeath, BlastKills
  <2>2. ~InKill /\ ~InKill' /\ (StrikeInHook' => blast)
    BY <2>1 DEF InKill, StrikeInHook, KillSteps, OwnDeath
  <2> QED BY <2>1, <2>2 DEF AttemptInv, LoadIn, InKill
<1>3. CASE HookStep
  <2>1. /\ gpc = "Dying" /\ gpc' = dying.then /\ dying' = NoDeath /\ ~blast'
        /\ UNCHANGED <<mode, world, live, observed, attempt, gameplayLoaded, batch>>
    BY <1>3 DEF HookStep, ConsumeAndDie, ConsumeAndReset, Consume
  <2>2. dying.then \in {"Idle", "Detonated", "Weakening", "Judging"}
    BY DEF DataOK, Deaths
  <2>3. (InKill' <=> InKill) /\ ~StrikeInHook'
    BY <2>1, <2>2 DEF InKill, StrikeInHook, KillSteps
  <2>4. LoadIn(events') <=> LoadIn(events)
    BY <1>3, ReportIsNoLoad
  <2> QED BY <2>1, <2>3, <2>4 DEF AttemptInv, LoadIn
<1>4. CASE StartTask
  <2>1. CASE TaskStale \/ TaskBusy \/ KillRefused
    BY <2>1 DEF AttemptInv, InKill, StrikeInHook, LoadIn, TaskStale, TaskBusy, KillRefused,
       EndsUnstarted
  <2>2. CASE StartDetonation \/ StartKill
    <3>1. /\ MayKill /\ attempt'.task = Head(tasks) /\ gpc' \in KillSteps
          /\ UNCHANGED <<mode, world, gameplayLoaded, observed, live, events, batch>>
      BY <2>2 DEF StartDetonation, StartKill, StartAttempt, KillSteps
    <3>2. mode = "Interactive" /\ IsLoaded(mode)
      BY <3>1 DEF MayKill, IsLoaded
    <3> QED BY <3>1, <3>2, StartOfKill DEF AttemptInv, InKill, LoadIn
  <2> QED BY <1>4, <2>1, <2>2 DEF StartTask
<1>5. CASE KillStep /\ ~StartTask
  <2>1. InKill /\ IsLoaded(mode)
    BY <1>5, KillFrames DEF InKill, AttemptInv, IsLoaded
  <2> QED BY <1>5, <2>1, KillFrames DEF AttemptInv, InKill, StrikeInHook, KillSteps, LoadIn
<1>6. CASE PollArms
  BY <1>6, ArmingKeepsAttempt DEF AttemptInv, InKill, StrikeInHook, LoadIn, PollArms
<1>7. CASE DrainQueue
  BY <1>7 DEF AttemptInv, InKill, StrikeInHook, LoadIn, DrainQueue
<1>8. CASE ProcessSaveLoaded \/ (UpdateReadiness /\ WorldEnded)
  <2>1. UNCHANGED <<blast, gpc, dying>>
    BY <1>8 DEF ProcessSaveLoaded, UpdateReadiness
  <2> QED BY <1>8, <2>1, ResetFindsNoKill DEF AttemptInv, InKill, StrikeInHook
<1>9. CASE UpdateReadiness /\ ~WorldEnded
  BY <1>9 DEF AttemptInv, InKill, StrikeInHook, LoadIn, UpdateReadiness, WorldEnded
<1>10. CASE ProcessPlayerDied
  <2>1. LoadIn(batch') <=> LoadIn(batch)
    BY <1>10, TakeEvent DEF ProcessPlayerDied, IsLoadEvent, DataOK
  <2> QED BY <1>10, <2>1 DEF AttemptInv, InKill, StrikeInHook, LoadIn, ProcessPlayerDied
<1>11. CASE UNCHANGED <<mode, world, blast, queueVars, frameVars, gameplayLoaded, batch>>
  BY <1>11 DEF AttemptInv, InKill, StrikeInHook, LoadIn
<1>12. CASE WindowElapses
  BY <1>12 DEF AttemptInv, InKill, StrikeInHook, LoadIn, WindowElapses
<1>13. \/ LoadSave \/ NewGame \/ FinishLoading \/ ChangeControl \/ QuitToMenu
       \/ OwnDeath \/ BlastKills \/ HookStep \/ KillStep \/ WindowElapses
       \/ PollArms \/ DrainQueue \/ ProcessSaveLoaded \/ ProcessPlayerDied \/ UpdateReadiness
       \/ UNCHANGED <<mode, world, blast, queueVars, frameVars, gameplayLoaded, batch>>
  BY DEF Next, Game, LoopStep, Respawn, SecondPasses, ReadContext, PollWindow, PollExpires,
     PollVitals, Receive, TurnEnds, UpdateWaits, UpdateSettles, UpdateDefers, DispatchKill,
     CancelPending, RetryDelayElapses
<1> QED BY <1>1, <1>2, <1>3, <1>4, <1>5, <1>6, <1>7, <1>8, <1>9, <1>10, <1>11, <1>12, <1>13

\* One task or attempt at a time is the controller's.
LEMMA WatchStepInv ==
  DataOK /\ LoopInv /\ AttemptInv /\ WatchInv /\ Next => WatchInv'
<1> SUFFICES ASSUME DataOK, LoopInv, AttemptInv, WatchInv, Next PROVE WatchInv'
  OBVIOUS
<1>1. CASE TaskStale \/ TaskBusy \/ KillRefused
  <2>1. tasks # <<>> /\ tasks' = Tail(tasks) /\ UNCHANGED attempt
        /\ (~Head(tasks).watched => UNCHANGED task)
    BY <1>1 DEF TaskStale, TaskBusy, KillRefused, MayKill, NextTask, EndsUnstarted
  <2>2. Head(tasks) = tasks[1] /\ 1 \in DOMAIN tasks
        /\ \A i \in DOMAIN tasks' : /\ i \in Nat /\ i # 0 /\ i + 1 \in DOMAIN tasks
                                    /\ tasks'[i] = tasks[i + 1]
    BY <2>1, TakeTask DEF DataOK
  <2>3. CASE tasks[1].watched
    <3>1. \A i \in DOMAIN tasks' : ~tasks'[i].watched
      BY <2>2, <2>3 DEF WatchInv
    <3>2. ~attempt'.task.watched
      BY <2>1, <2>2, <2>3 DEF WatchInv
    <3> QED BY <3>1, <3>2 DEF WatchInv
  <2>4. CASE ~tasks[1].watched
    <3>1. \A i \in DOMAIN tasks' : tasks'[i].watched =>
            \A j \in DOMAIN tasks' : tasks'[j].watched => i = j
      BY <2>2 DEF WatchInv
    <3> QED BY <2>1, <2>2, <2>4, <3>1 DEF WatchInv
  <2> QED BY <2>3, <2>4
<1>2. CASE StartDetonation \/ StartKill
  <2>1. tasks # <<>> /\ tasks' = Tail(tasks) /\ attempt'.task = Head(tasks)
        /\ UNCHANGED task /\ attempt = NoAttempt
    BY <1>2 DEF StartDetonation, StartKill, StartAttempt, MayKill, NextTask, AttemptInv, InKill,
       KillSteps
  <2>2. Head(tasks) = tasks[1] /\ 1 \in DOMAIN tasks
        /\ \A i \in DOMAIN tasks' : /\ i \in Nat /\ i # 0 /\ i + 1 \in DOMAIN tasks
                                    /\ tasks'[i] = tasks[i + 1]
    BY <2>1, TakeTask DEF DataOK
  <2>3. \A i \in DOMAIN tasks' : tasks'[i].watched =>
          task = "Running" /\ ~tasks[1].watched
    BY <2>2 DEF WatchInv
  <2>4. \A i \in DOMAIN tasks' : tasks'[i].watched =>
          \A j \in DOMAIN tasks' : tasks'[j].watched => i = j
    BY <2>2 DEF WatchInv
  <2>5. attempt'.task.watched => task = "Running"
    BY <2>1, <2>2 DEF WatchInv
  <2> QED BY <2>1, <2>2, <2>3, <2>4, <2>5 DEF WatchInv
<1>3. CASE KillStep /\ ~StartTask
  <2>1. CASE attempt' = NoAttempt /\ attempt.task.watched
    <3>1. \A i \in DOMAIN tasks' : ~tasks'[i].watched
      BY <1>3, <2>1, KillFrames DEF WatchInv
    <3>2. ~attempt'.task.watched
      BY <2>1 DEF NoAttempt, NoTask
    <3> QED BY <3>1, <3>2 DEF WatchInv
  <2>2. CASE attempt' = NoAttempt /\ ~attempt.task.watched
    <3>1. ~attempt'.task.watched
      BY <2>2 DEF NoAttempt, NoTask
    <3>2. UNCHANGED <<tasks, task>>
      BY <1>3, <2>2, KillFrames
    <3> QED BY <2>2, <3>1, <3>2 DEF WatchInv
  <2>3. CASE UNCHANGED <<attempt, task>>
    BY <1>3, <2>3, KillFrames DEF WatchInv
  <2> QED BY <1>3, <2>1, <2>2, <2>3, KillFrames
<1>4. CASE PollArms
  BY <1>4, ArmingKeepsAttempt DEF WatchInv, PollArms
<1>5. CASE ProcessSaveLoaded \/ (UpdateReadiness /\ WorldEnded)
  <2>1. ~attempt'.task.watched
    BY <1>5, ResetFindsNoKill DEF NoAttempt, NoTask
  <2>2. tasks' = [i \in DOMAIN tasks |-> Unwatched(tasks[i])]
    BY <1>5 DEF ProcessSaveLoaded, UpdateReadiness, ResetDeathLink
  <2>3. \A i \in DOMAIN tasks' : ~tasks'[i].watched
    BY <2>2, UnwatchedTasks DEF DataOK
  <2> QED BY <2>1, <2>3 DEF WatchInv
<1>6. CASE UpdateReadiness /\ ~WorldEnded
  BY <1>6 DEF WatchInv, UpdateReadiness
<1>7. CASE CancelPending
  BY <1>7 DEF WatchInv, CancelPending
<1>8. CASE UpdateSettles \/ UpdateDefers
  BY <1>8 DEF WatchInv, UpdateSettles, UpdateDefers, TurnEnds
<1>9. CASE DispatchKill
  <2> DEFINE t == [epoch |-> observed, world |-> pending, watched |-> TRUE]
  <2>1. tasks' = Append(tasks, t) /\ task = "None" /\ task' = "Running" /\ UNCHANGED attempt
    BY <1>9 DEF DispatchKill, TurnEnds
  <2>2. t \in Tasks
    BY DEF DataOK, Tasks
  <2>3. DOMAIN tasks' = DOMAIN tasks \cup {Len(tasks) + 1}
        /\ \A i \in DOMAIN tasks : tasks'[i] = tasks[i]
    BY <2>1, <2>2, AddTask DEF DataOK
  <2>4. ~attempt.task.watched /\ \A i \in DOMAIN tasks : ~tasks[i].watched
    BY <2>1 DEF WatchInv
  <2> HIDE DEF t
  <2> QED BY <2>1, <2>3, <2>4 DEF WatchInv
<1>10. CASE UNCHANGED <<tasks, task, attempt>>
  BY <1>10 DEF WatchInv
<1>11. \/ TaskStale \/ TaskBusy \/ KillRefused \/ StartDetonation \/ StartKill
       \/ (KillStep /\ ~StartTask) \/ PollArms \/ ProcessSaveLoaded \/ UpdateReadiness
       \/ CancelPending \/ UpdateSettles \/ UpdateDefers \/ DispatchKill
       \/ UNCHANGED <<tasks, task, attempt>>
  <2>1. CASE Game \/ HookStep \/ RetryDelayElapses
    BY <2>1 DEF Game, HookStep, LoadSave, NewGame, FinishLoading, ChangeControl, QuitToMenu,
       Respawn, WindowElapses, SecondPasses, OwnDeath, BlastKills, ConsumeAndDie,
       ConsumeAndReset, Consume, RetryDelayElapses
  <2>2. CASE LoopStep
    BY <2>2 DEF LoopStep, ReadContext, PollWindow, PollExpires, PollVitals, DrainQueue,
       ProcessPlayerDied, Receive, TurnEnds, UpdateWaits
  <2> QED BY <2>1, <2>2 DEF Next, StartTask
<1> QED BY <1>1, <1>2, <1>3, <1>4, <1>5, <1>6, <1>7, <1>8, <1>9, <1>10, <1>11

\* Only deaths and the plugin's kills touch the window while a kill runs: it elapses
\* with time, which a kill does not take, and a reset finds no kill.
LEMMA WindowSteps ==
  ASSUME DataOK, LoopInv, AttemptInv, Next
  PROVE  \/ UNCHANGED windowVars
         \/ PollExpires /\ (until = "Open" => UNCHANGED windowVars) /\ UNCHANGED consumed
         \/ WindowElapses
         \/ HookStep \/ KillStep
         \/ (ProcessSaveLoaded \/ (UpdateReadiness /\ WorldEnded))
              /\ attempt' = NoAttempt /\ ~blast /\ ~InKill /\ ~StrikeInHook
<1>1. CASE Game
  BY <1>1 DEF Game, LoadSave, NewGame, FinishLoading, ChangeControl, QuitToMenu, Respawn,
     SecondPasses, OwnDeath, BlastKills
<1>2. CASE LoopStep /\ ~ProcessSaveLoaded /\ ~UpdateReadiness
  BY <1>2 DEF LoopStep, ReadContext, PollWindow, PollExpires, Expired, PollVitals, PollArms,
     DrainQueue, ProcessPlayerDied, Receive, TurnEnds, UpdateWaits, UpdateSettles,
     UpdateDefers, DispatchKill
<1>3. CASE UpdateReadiness /\ ~WorldEnded
  BY <1>3 DEF UpdateReadiness
<1>4. CASE CancelPending \/ RetryDelayElapses
  BY <1>4 DEF CancelPending, RetryDelayElapses
<1>5. CASE ProcessSaveLoaded \/ (UpdateReadiness /\ WorldEnded)
  BY <1>5, ResetFindsNoKill
<1> QED BY <1>1, <1>2, <1>3, <1>4, <1>5 DEF Next

\* Who the controller's death and its task change by.
LEMMA ControllerSteps ==
  ASSUME Next
  PROVE  \/ UNCHANGED <<task, struck>>
         \/ OwnDeath \/ BlastKills \/ KillStep \/ ProcessSaveLoaded
         \/ (UpdateReadiness /\ WorldEnded) \/ CancelPending
         \/ UpdateSettles \/ UpdateDefers \/ DispatchKill
<1>1. CASE Game \/ HookStep \/ RetryDelayElapses
  BY <1>1 DEF Game, HookStep, LoadSave, NewGame, FinishLoading, ChangeControl, QuitToMenu,
     Respawn, WindowElapses, SecondPasses, ConsumeAndDie, ConsumeAndReset, Consume,
     RetryDelayElapses
<1>2. CASE LoopStep
  BY <1>2 DEF LoopStep, ReadContext, PollWindow, PollExpires, PollVitals, PollArms, DrainQueue,
     ProcessPlayerDied, UpdateReadiness, Receive, TurnEnds, UpdateWaits
<1> QED BY <1>1, <1>2 DEF Next

\* The frame of the game thread stays as it is but for the game thread's own steps.
LEMMA FrameSteps ==
  ASSUME Next
  PROVE  \/ UNCHANGED <<gpc, dying>>
         \/ OwnDeath \/ BlastKills \/ HookStep \/ KillStep
BY DEF Next, Game, LoopStep, LoadSave, NewGame, FinishLoading, ChangeControl, QuitToMenu,
   Respawn, WindowElapses, SecondPasses, ReadContext, PollWindow, PollExpires, PollVitals,
   PollArms, DrainQueue, ProcessSaveLoaded, ProcessPlayerDied, UpdateReadiness, Receive,
   TurnEnds, UpdateWaits, UpdateSettles, UpdateDefers, DispatchKill, CancelPending,
   RetryDelayElapses

\* Only the game moves the player.
LEMMA PlayerSteps ==
  ASSUME Next
  PROVE  \/ UNCHANGED <<player, reported, blast>>
         \/ LoadSave \/ FinishLoading \/ QuitToMenu \/ Respawn \/ HookStep
         \/ UNCHANGED <<player, reported>> /\ (WindowElapses \/ KillStep)
<1>1. CASE Game
  BY <1>1 DEF Game, NewGame, ChangeControl, WindowElapses, SecondPasses, OwnDeath, BlastKills
<1>2. CASE KillStep
  <2>1. CASE StartTask
    BY <2>1 DEF StartTask, TaskStale, TaskBusy, KillRefused, EndsUnstarted, StartDetonation,
       StartKill, StartAttempt
  <2>2. CASE ~StartTask
    BY <1>2, <2>2, KillFrames
  <2> QED BY <2>1, <2>2
<1>3. CASE LoopStep \/ CancelPending \/ RetryDelayElapses
  BY <1>3 DEF LoopStep, ReadContext, PollWindow, PollExpires, PollVitals, PollArms, DrainQueue,
     ProcessSaveLoaded, ProcessPlayerDied, UpdateReadiness, Receive, TurnEnds, UpdateWaits,
     UpdateSettles, UpdateDefers, DispatchKill, CancelPending, RetryDelayElapses
<1> QED BY <1>1, <1>2, <1>3 DEF Next

\* An attempt that has struck ends as applied: its window is open until a death has
\* consumed it, and the kill asks for either.
LEMMA StruckStepInv ==
  DataOK /\ FlagOK /\ LoopInv /\ AttemptInv /\ WatchInv /\ StruckInv /\ Next => StruckInv'
<1> SUFFICES ASSUME DataOK, FlagOK, LoopInv, AttemptInv, WatchInv, StruckInv, Next
             PROVE  StruckInv'
  OBVIOUS
<1>n. ~NoAttempt.task.watched
  BY DEF NoAttempt, NoTask
<1>i. gpc = "Idle" => ~attempt.task.watched /\ ~(struck /\ task # "Applied")
  BY <1>n DEF AttemptInv, InKill, KillSteps, StruckInv
<1>1. CASE TaskStale \/ TaskBusy \/ KillRefused
  <2>1. tasks # <<>> /\ gpc = "Idle" /\ UNCHANGED <<struck, attempt>>
        /\ (~Head(tasks).watched => UNCHANGED task)
    BY <1>1 DEF TaskStale, TaskBusy, KillRefused, MayKill, NextTask, EndsUnstarted
  <2>2. task = "Applied" => ~Head(tasks).watched
    BY <2>1, TakeTask DEF DataOK, WatchInv
  <2> QED BY <1>i, <2>1, <2>2 DEF StruckInv
<1>2. CASE StartDetonation \/ StartKill
  <2>1. gpc = "Idle" /\ UNCHANGED <<struck, task>> /\ until' = "Open"
    BY <1>2 DEF StartDetonation, StartKill, StartAttempt, Begin, MayKill, NextTask
  <2> QED BY <1>i, <2>1 DEF StruckInv
<1>3. CASE ExplosionKills \/ KillLands \/ WeakeningKills
  <2>1. /\ gpc' = "Dying" /\ UNCHANGED <<windowVars, attempt, task>>
        /\ (struck' => struck \/ attempt.task.watched)
    BY <1>3 DEF ExplosionKills, KillLands, WeakeningKills, Strikes, EnterHook
  <2> QED BY <2>1 DEF StruckInv
<1>4. CASE ExplosionSpares \/ KillMisses \/ WeakeningMisses
  BY <1>4 DEF StruckInv, ExplosionSpares, KillMisses, WeakeningMisses, Onward
<1>5. CASE ExplosionFails
  <2>1. gpc = "Detonating" /\ UNCHANGED struck /\ ~(struck /\ task # "Applied")
    BY <1>5 DEF ExplosionFails, Ends, Onward, StruckInv
  <2>2. CASE attempt.arena
    <3>1. attempt' = NoAttempt /\ (task = "Applied" => ~attempt.task.watched)
      BY <1>5, <2>2 DEF ExplosionFails, Ends, WatchInv
    <3>2. task = "Applied" => UNCHANGED task
      BY <1>5, <2>2, <3>1 DEF ExplosionFails, Ends, Finish
    <3> QED BY <1>n, <2>1, <3>1, <3>2 DEF StruckInv
  <2>3. CASE ~attempt.arena
    <3>1. until' = "Open" /\ UNCHANGED task
      BY <1>5, <2>3 DEF ExplosionFails, Begin, Onward
    <3> QED BY <2>1, <3>1 DEF StruckInv
  <2> QED BY <2>2, <2>3
<1>6. CASE AfterDetonation
  <2>1. gpc = "Detonated" /\ UNCHANGED <<struck, player>>
    BY <1>6 DEF AfterDetonation, Ends, Onward
  <2>2. CASE attempt.arena \/ player = "Dead"
    <3>1. attempt' = NoAttempt /\ task' = IF attempt.task.watched THEN "Applied" ELSE task
      BY <1>6, <2>2 DEF AfterDetonation, Ends, Finish
    <3> QED BY <1>n, <2>1, <3>1 DEF StruckInv
  <2>3. CASE ~attempt.arena /\ player # "Dead"
    <3>1. until' = "Open" /\ UNCHANGED task
      BY <1>6, <2>3 DEF AfterDetonation, Begin, Onward
    <3> QED BY <2>1, <2>3, <3>1 DEF StruckInv
  <2> QED BY <2>2, <2>3
<1>7. CASE JudgeKill
  <2>1. gpc = "Judging" /\ UNCHANGED struck /\ attempt' = NoAttempt
        /\ (consumed /\ attempt.task.watched => task' = "Applied")
        /\ (~attempt.task.watched => UNCHANGED task)
    BY <1>7 DEF JudgeKill, Ends, Finish, Died
  <2>2. task = "Applied" => ~attempt.task.watched
    BY DEF WatchInv
  <2> QED BY <1>n, <2>1, <2>2 DEF StruckInv
<1>8. CASE HookStep
  <2>1. /\ gpc = "Dying" /\ gpc' = dying.then /\ UNCHANGED <<attempt, struck, task>>
        /\ (attempt.task.watched /\ (until = "Open" \/ consumed) => consumed')
    BY <1>8 DEF HookStep, ConsumeAndDie, ConsumeAndReset, Consume, Suppressed, FlagOK
  <2>2. gpc' = "Detonated" => attempt.arena \/ player' = "Dead"
    BY <1>8, <2>1 DEF HookStep, ConsumeAndDie, ConsumeAndReset
  <2>3. attempt.task.watched => gpc' \in {"Detonated", "Weakening", "Judging"}
    BY <1>n, <2>1 DEF AttemptInv, InKill, KillSteps, DataOK, Deaths
  <2> QED BY <2>1, <2>2, <2>3 DEF StruckInv
<1>9. CASE OwnDeath \/ BlastKills
  <2>1. gpc = "Idle" /\ UNCHANGED <<attempt, task, windowVars>>
        /\ (attempt.task.watched \/ (struck' => struck))
    BY <1>9, Zenon DEF OwnDeath, BlastKills, EnterHook, windowVars
  <2> QED BY <1>i, <2>1 DEF StruckInv
<1>10. CASE ProcessSaveLoaded \/ (UpdateReadiness /\ WorldEnded)
  <2>1. attempt' = NoAttempt /\ struck' = FALSE
    BY <1>10, ResetFindsNoKill DEF ProcessSaveLoaded, UpdateReadiness, ResetDeathLink
  <2> QED BY <1>n, <2>1 DEF StruckInv
<1>11. CASE CancelPending
  <2>1. UNCHANGED <<attempt, struck, windowVars, gpc, player>>
    BY <1>11 DEF CancelPending
  <2>2. CASE \E i \in DOMAIN tasks : tasks[i].watched
    <3>1. task = "Running" /\ ~attempt.task.watched
      BY <2>2 DEF WatchInv
    <3> QED BY <2>1, <3>1 DEF StruckInv
  <2>3. CASE ~\E i \in DOMAIN tasks : tasks[i].watched
    <3>1. UNCHANGED task
      BY <1>11, <2>3 DEF CancelPending
    <3> QED BY <2>1, <3>1 DEF StruckInv
  <2> QED BY <2>2, <2>3
<1>12. CASE UpdateSettles \/ UpdateDefers \/ DispatchKill
  <2>1. task # "Running" /\ UNCHANGED <<attempt, windowVars, gpc, player>>
        /\ (task = "Applied" => struck' = FALSE) /\ (struck' => struck)
    BY <1>12 DEF UpdateSettles, UpdateDefers, DispatchKill, TurnEnds
  <2> QED BY <2>1 DEF WatchInv, StruckInv
<1>13. CASE PollArms
  BY <1>13, ArmingKeepsAttempt DEF StruckInv, PollArms
<1>14. CASE LoadSave \/ FinishLoading \/ QuitToMenu \/ Respawn \/ WindowElapses
  <2>1. gpc = "Idle" /\ UNCHANGED <<attempt, struck, task>>
    BY <1>14 DEF LoadSave, FinishLoading, QuitToMenu, Respawn, WindowElapses
  <2> QED BY <1>i, <2>1 DEF StruckInv
<1>15. CASE NewGame \/ ChangeControl \/ SecondPasses \/ RetryDelayElapses
            \/ (LoopStep /\ ~PollArms /\ ~ProcessSaveLoaded /\ ~(UpdateReadiness /\ WorldEnded)
                /\ ~UpdateSettles /\ ~UpdateDefers /\ ~DispatchKill)
  <2>1. UNCHANGED <<attempt, struck, task, gpc, player, consumed>>
        /\ (until = "Open" => until' = "Open")
    BY <1>15 DEF NewGame, ChangeControl, SecondPasses, RetryDelayElapses, LoopStep, ReadContext,
       PollWindow, PollExpires, Expired, PollVitals, DrainQueue, ProcessPlayerDied,
       UpdateReadiness, Receive, TurnEnds, UpdateWaits
  <2> QED BY <2>1 DEF StruckInv
<1> QED BY <1>1, <1>2, <1>3, <1>4, <1>5, <1>6, <1>7, <1>8, <1>9, <1>10, <1>11, <1>12, <1>13,
        <1>14, <1>15 DEF Next, Game, KillStep, StartTask

\* Deaths and kills need a player, and a reported death is that of a dead one.
LEMMA PlayerStepInv == DataOK /\ FlagOK /\ PlayerInv /\ Next => PlayerInv'
<1> SUFFICES ASSUME DataOK, FlagOK, PlayerInv, Next PROVE PlayerInv'
  OBVIOUS
<1>1. CASE LoadSave \/ NewGame \/ FinishLoading \/ ChangeControl \/ QuitToMenu
  BY <1>1 DEF PlayerInv, IsLoaded, LoadSave, NewGame, FinishLoading, ChangeControl, QuitToMenu
<1>2. CASE UNCHANGED <<mode, world>>
  <2>1. CASE Respawn
    BY <1>2, <2>1 DEF PlayerInv, Respawn
  <2>2. CASE HookStep
    <3>1. gpc = "Dying" /\ IsLoaded(mode)
      BY <2>2 DEF HookStep, ConsumeAndDie, ConsumeAndReset, Consume, PlayerInv
    <3>2. reported' => player' = "Dead"
      BY <2>2 DEF HookStep, ConsumeAndDie, ConsumeAndReset, FlagOK
    <3> QED BY <1>2, <3>1, <3>2 DEF PlayerInv, IsLoaded
  <2>3. CASE OwnDeath \/ BlastKills \/ KillStep
    <3>1. (gpc' # "Idle" => IsLoaded(mode)) /\ UNCHANGED <<player, reported>>
      <4>1. CASE OwnDeath \/ BlastKills
        BY <4>1 DEF OwnDeath, BlastKills, PlayerInv
      <4>2. CASE StartTask
        BY <4>2 DEF StartTask, TaskStale, TaskBusy, KillRefused, EndsUnstarted,
           StartDetonation, StartKill, StartAttempt, MayKill, NextTask, PlayerInv, IsLoaded
      <4>3. CASE KillStep /\ ~StartTask
        BY <4>3, KillFrames DEF PlayerInv, KillSteps
      <4> QED BY <2>3, <4>1, <4>2, <4>3
    <3> QED BY <1>2, <3>1 DEF PlayerInv, IsLoaded
  <2>4. CASE UNCHANGED <<player, reported, gpc>>
    BY <1>2, <2>4 DEF PlayerInv, IsLoaded
  <2>5. CASE LoadSave \/ FinishLoading \/ QuitToMenu
    BY <1>1, <2>5
  <2> QED BY <2>1, <2>2, <2>3, <2>4, <2>5, PlayerSteps, FrameSteps
<1> QED BY <1>1, <1>2, WorldSteps

\* Where the plugin kills, the window is open unless the monitor was armed after the
\* kill began, and an explosion of its burns under an open window.
LEMMA WindowStepInv ==
  DataOK /\ FlagOK /\ LoopInv /\ AttemptInv /\ WindowInv /\ Next => WindowInv'
<1> SUFFICES ASSUME DataOK, FlagOK, LoopInv, AttemptInv, WindowInv, Next
             PROVE  WindowInv'
  OBVIOUS
<1>k. InKill => attempt # NoAttempt
  BY DEF AttemptInv, NoAttempt, NoTask
<1>1. CASE TaskStale \/ TaskBusy \/ KillRefused
  BY <1>1 DEF WindowInv, InKill, KillSteps, TaskStale, TaskBusy, KillRefused, EndsUnstarted
<1>2. CASE StartDetonation \/ StartKill
  <2>1. player = "Alive" /\ until' = "Open" /\ gpc' \in {"Detonating", "Striking"}
        /\ UNCHANGED <<player, blast>>
    BY <1>2 DEF StartDetonation, StartKill, StartAttempt, Begin
  <2> QED BY <2>1 DEF WindowInv
<1>3. CASE ExplosionKills \/ KillLands \/ WeakeningKills
  <2>1. /\ gpc \in KillSteps /\ gpc # "Dying"
        /\ UNCHANGED <<windowVars, attempt, blast>>
        /\ gpc' = "Dying" /\ ~armed' /\ dying'.wasArmed = armed
        /\ dying'.cause = KillCause
    BY <1>3, HookFrame DEF ExplosionKills, KillLands, WeakeningKills, Strikes, KillSteps
  <2>2. dying'.cause = "Kill" => ~attempt.rearmed
    BY <2>1 DEF KillCause
  <2> QED BY <2>1, <2>2 DEF WindowInv, InKill
<1>4. CASE ExplosionSpares
  BY <1>4 DEF WindowInv, InKill, KillSteps, ExplosionSpares, Onward
<1>5. CASE KillMisses \/ WeakeningMisses
  BY <1>5 DEF WindowInv, InKill, KillSteps, KillMisses, WeakeningMisses, Onward
<1>6. CASE ExplosionFails \/ AfterDetonation \/ JudgeKill
  <2>1. CASE gpc' = "Idle"
    <3>1. ~InKill' /\ gpc' = "Idle"
      BY <2>1 DEF InKill, KillSteps
    <3>2. blast' => until' = "Open"
      <4>1. CASE ExplosionFails
        BY <4>1 DEF ExplosionFails
      <4>2. CASE AfterDetonation
        BY <2>1, <4>2 DEF AfterDetonation, WindowInv, Onward
      <4>3. CASE JudgeKill
        BY <4>3 DEF JudgeKill
      <4> QED BY <1>6, <4>1, <4>2, <4>3
    <3> QED BY <3>1, <3>2 DEF WindowInv
  <2>2. CASE gpc' # "Idle"
    <3>1. until' = "Open" /\ gpc' = "Striking"
      <4>1. CASE ExplosionFails
        BY <2>2, <4>1 DEF ExplosionFails, Onward, Ends, Begin
      <4>2. CASE AfterDetonation
        BY <2>2, <4>2 DEF AfterDetonation, Onward, Ends, Begin
      <4>3. CASE JudgeKill
        BY <2>2, <4>3 DEF JudgeKill, Ends
      <4> QED BY <1>6, <4>1, <4>2, <4>3
    <3> QED BY <3>1 DEF WindowInv
  <2> QED BY <2>1, <2>2
<1>7. CASE HookStep
  <2>1. gpc = "Dying" /\ gpc' = dying.then /\ ~blast' /\ UNCHANGED <<attempt, armed>>
    BY <1>7 DEF HookStep, ConsumeAndDie, ConsumeAndReset, Consume
  <2>2. dying.then \in {"Idle", "Detonated", "Weakening", "Judging"}
    BY DEF DataOK, Deaths
  <2>3. InKill' <=> InKill
    BY <2>1, <2>2 DEF InKill, KillSteps
  <2> QED BY <2>1, <2>2, <2>3 DEF WindowInv
<1>8. CASE OwnDeath \/ BlastKills
  <2>1. /\ gpc = "Idle" /\ gpc' = "Dying" /\ ~InKill'
        /\ UNCHANGED <<windowVars, blast>> /\ (dying'.cause # "Own" => blast)
    BY <1>8, HookFrame DEF OwnDeath, BlastKills, InKill, KillSteps
  <2> QED BY <2>1 DEF WindowInv
<1>9. CASE ProcessSaveLoaded \/ (UpdateReadiness /\ WorldEnded)
  <2>1. /\ ~blast /\ ~InKill /\ ~StrikeInHook
    BY <1>9, ResetFindsNoKill
  <2>2. UNCHANGED <<blast, gpc, dying>>
    BY <1>9 DEF ProcessSaveLoaded, UpdateReadiness
  <2> QED BY <2>1, <2>2 DEF WindowInv, InKill, KillSteps, StrikeInHook
<1>10. CASE PollArms
  <2>1. InKill => attempt'.rearmed
    BY <1>10, <1>k, ArmingKeepsAttempt
  <2> QED BY <1>10, <2>1 DEF WindowInv, InKill, PollArms
<1>11. CASE LoadSave \/ FinishLoading \/ QuitToMenu \/ Respawn \/ WindowElapses
  BY <1>11 DEF WindowInv, InKill, KillSteps, LoadSave, FinishLoading, QuitToMenu, Respawn,
     WindowElapses
<1>12. CASE NewGame \/ ChangeControl \/ SecondPasses \/ RetryDelayElapses \/ CancelPending
            \/ (LoopStep /\ ~PollArms /\ ~ProcessSaveLoaded /\ ~(UpdateReadiness /\ WorldEnded))
  <2>1. UNCHANGED <<attempt, blast, gpc, dying, player, armed>>
        /\ (until' = until \/ (until # "Open" /\ until' # "Open"))
    BY <1>12 DEF NewGame, ChangeControl, SecondPasses, RetryDelayElapses, CancelPending,
       LoopStep, ReadContext, PollWindow, PollExpires, Expired, PollVitals, DrainQueue,
       ProcessPlayerDied, UpdateReadiness, Receive, TurnEnds, UpdateWaits, UpdateSettles,
       UpdateDefers, DispatchKill
  <2> QED BY <2>1 DEF WindowInv, InKill
<1> QED BY <1>1, <1>2, <1>3, <1>4, <1>5, <1>6, <1>7, <1>8, <1>9, <1>10, <1>11,
        <1>12 DEF Next, Game, KillStep, StartTask

\* The monitor is armed in lives that have reported nothing: between the poll that saw
\* the player alive for a second and the arming no death can be reported.
LEMMA ArmStepInv == DataOK /\ FlagOK /\ PlayerInv /\ ArmInv /\ Next => ArmInv'
<1> SUFFICES ASSUME DataOK, FlagOK, PlayerInv, ArmInv, Next PROVE ArmInv'
  OBVIOUS
<1>1. CASE LoadSave \/ FinishLoading \/ QuitToMenu \/ Respawn \/ SecondPasses
  BY <1>1 DEF ArmInv, LoadSave, FinishLoading, QuitToMenu, Respawn, SecondPasses
<1>2. CASE HookStep
  <2>1. gpc = "Dying" /\ (gpc' = "Dying" => ~dying'.wasArmed) /\ UNCHANGED <<monitorVars, ppc>>
    <3>1. ~NoDeath.wasArmed
      BY DEF NoDeath
    <3> QED BY <1>2, <3>1 DEF HookStep, ConsumeAndDie, ConsumeAndReset, Consume
  <2>2. reported' => reported \/ dying.wasArmed
    BY <1>2, Zenon DEF HookStep, ConsumeAndDie, ConsumeAndReset, Reports
  <2> QED BY <2>1, <2>2 DEF ArmInv
<1>3. CASE OwnDeath \/ BlastKills \/ ExplosionKills \/ KillLands \/ WeakeningKills
  <2>1. ~armed' /\ dying'.wasArmed = armed /\ UNCHANGED <<reported, aliveSince, ppc>>
    BY <1>3, HookFrame DEF OwnDeath, BlastKills, ExplosionKills, KillLands, WeakeningKills,
       Strikes
  <2> QED BY <2>1 DEF ArmInv
<1>4. CASE PollVitals
  BY <1>4 DEF ArmInv, PlayerInv, PollVitals, SeesAlive
<1>5. CASE PollArms
  BY <1>5 DEF ArmInv, PollArms
<1>6. CASE ProcessSaveLoaded \/ (UpdateReadiness /\ WorldEnded)
  BY <1>6 DEF ArmInv, ProcessSaveLoaded, UpdateReadiness, ResetDeathLink
<1>7. CASE StartTask \/ ExplosionFails \/ ExplosionSpares \/ AfterDetonation \/ KillMisses
           \/ WeakeningMisses \/ JudgeKill
  <2>1. UNCHANGED <<reported, monitorVars, ppc>> /\ gpc' # "Dying"
    <3>1. CASE StartTask
      BY <3>1 DEF StartTask, TaskStale, TaskBusy, KillRefused, EndsUnstarted, StartDetonation,
         StartKill, StartAttempt, MayKill, NextTask
    <3>2. CASE ExplosionSpares \/ KillMisses \/ WeakeningMisses \/ JudgeKill
      BY <3>2 DEF ExplosionSpares, KillMisses, WeakeningMisses, JudgeKill, Onward, Ends
    <3>3. CASE ExplosionFails
      BY <3>3 DEF ExplosionFails, Onward, Ends
    <3>4. CASE AfterDetonation
      BY <3>4 DEF AfterDetonation, Onward, Ends
    <3> QED BY <1>7, <3>1, <3>2, <3>3, <3>4
  <2> QED BY <2>1 DEF ArmInv
<1>8. CASE NewGame \/ ChangeControl \/ WindowElapses \/ RetryDelayElapses \/ CancelPending
           \/ (LoopStep /\ ~PollVitals /\ ~PollArms /\ ~ProcessSaveLoaded
               /\ ~(UpdateReadiness /\ WorldEnded))
  <2>1. UNCHANGED <<reported, monitorVars, gpc, dying>> /\ (ppc' = "Arm" => ppc = "Arm")
    BY <1>8 DEF NewGame, ChangeControl, WindowElapses, RetryDelayElapses, CancelPending,
       LoopStep, ReadContext, PollWindow, PollExpires, DrainQueue, ProcessPlayerDied,
       UpdateReadiness, Receive, TurnEnds, UpdateWaits, UpdateSettles, UpdateDefers,
       DispatchKill
  <2> QED BY <2>1 DEF ArmInv
<1> QED BY <1>1, <1>2, <1>3, <1>4, <1>5, <1>6, <1>7, <1>8 DEF Next, Game, KillStep

-----------------------------------------------------------------------------
\* What is reported.

\* Only a load and a report of the hook add an event.
LEMMA ReportedSteps ==
  ASSUME DataOK, Next
  PROVE  Reported' \subseteq
           Reported \cup {SaveLoadedEvent}
           \cup (IF HookStep /\ Reports THEN {PlayerDiedEvent(dying.cause, reported)} ELSE {})
<1>t. events \in Seq(Events) /\ batch \in Seq(Events)
  BY DEF DataOK
<1>1. CASE UNCHANGED <<events, batch>>
  BY <1>1 DEF Reported
<1>2. ASSUME NEW e, events' = Append(events, e), UNCHANGED batch
      PROVE  Reported' \subseteq Reported \cup {e}
  <2>1. \A i \in DOMAIN events' : events'[i] = e \/ \E j \in DOMAIN events : events'[i] = events[j]
    BY <1>t, <1>2
  <2> QED BY <1>2, <2>1 DEF Reported
<1>3. CASE LoadSave
  <2>1. events' = Append(events, SaveLoadedEvent) /\ UNCHANGED batch
    BY <1>3 DEF LoadSave
  <2> QED BY <1>2, <2>1
<1>4. CASE HookStep
  <2>1. UNCHANGED batch
    BY <1>4 DEF HookStep, ConsumeAndDie, ConsumeAndReset, Consume
  <2>2. CASE Reports
    <3>1. events' = Append(events, PlayerDiedEvent(dying.cause, reported))
      BY <1>4, <2>2, HookQueue
    <3> QED BY <1>2, <1>4, <2>1, <2>2, <3>1
  <2>3. CASE ~Reports
    BY <1>1, <1>4, <2>1, <2>3, HookQueue
  <2> QED BY <2>2, <2>3
<1>5. CASE DrainQueue
  <2>1. batch' = events /\ events' = <<>>
    BY <1>5 DEF DrainQueue
  <2> QED BY <2>1 DEF Reported
<1>6. CASE ProcessSaveLoaded \/ ProcessPlayerDied
  <2>1. batch # <<>> /\ batch' = Tail(batch) /\ UNCHANGED events
    BY <1>6 DEF ProcessSaveLoaded, ProcessPlayerDied
  <2>2. \A i \in DOMAIN batch' : \E j \in DOMAIN batch : batch'[i] = batch[j]
    BY <1>t, <2>1
  <2> QED BY <2>1, <2>2 DEF Reported
<1>7. CASE UpdateReadiness
  BY <1>1, <1>7 DEF UpdateReadiness
<1>8. UNCHANGED batch \/ DrainQueue \/ ProcessSaveLoaded \/ ProcessPlayerDied
  <2>1. CASE LoopStep
    BY <2>1 DEF LoopStep, ReadContext, PollWindow, PollExpires, PollVitals, PollArms,
       UpdateReadiness, Receive, TurnEnds, UpdateWaits, UpdateSettles, UpdateDefers,
       DispatchKill
  <2> QED BY <2>1, LoopSteps
<1> QED BY <1>1, <1>3, <1>4, <1>5, <1>6, <1>7, <1>8, QueueSteps

\* A reported death is not the plugin's, and not one of a life already reported.
LEMMA ReportStepInv ==
  ASSUME DataOK, FlagOK, WindowInv, ArmInv, Next, KillsAreNotSentBack, OneReportPerLife
  PROVE  KillsAreNotSentBack' /\ OneReportPerLife'
<1>1. SaveLoadedEvent.cause # "Kill" /\ ~SaveLoadedEvent.again
  BY DEF SaveLoadedEvent
<1>2. ASSUME HookStep, Reports
      PROVE  dying.cause # "Kill" /\ ~reported
  BY <1>2 DEF HookStep, ConsumeAndDie, ConsumeAndReset, Consume, Reports, Suppressed,
     WindowInv, ArmInv
<1>3. ASSUME NEW cause, NEW again
      PROVE  PlayerDiedEvent(cause, again).cause = cause
             /\ PlayerDiedEvent(cause, again).again = again
  BY DEF PlayerDiedEvent
<1>4. \A event \in Reported' : event.cause # "Kill" /\ ~event.again
  <2> SUFFICES ASSUME NEW event \in Reported' PROVE event.cause # "Kill" /\ ~event.again
    OBVIOUS
  <2>1. CASE event \in Reported
    BY <2>1 DEF KillsAreNotSentBack, OneReportPerLife
  <2>2. CASE event = SaveLoadedEvent
    BY <1>1, <2>2
  <2>3. CASE HookStep /\ Reports /\ event = PlayerDiedEvent(dying.cause, reported)
    BY <1>2, <1>3, <2>3
  <2> QED BY <2>1, <2>2, <2>3, ReportedSteps
<1> QED BY <1>4 DEF KillsAreNotSentBack, OneReportPerLife

-----------------------------------------------------------------------------
\* The theorems.

LEMMA StepLemma == IInv /\ [Next]_vars => IInv'
<1> SUFFICES ASSUME IInv, [Next]_vars PROVE IInv'
  OBVIOUS
<1>1. CASE Next
  BY <1>1, DataStep, FlagStep, LoopStepInv, EpochStepInv, TaskStepInv, AttemptStepInv,
     WatchStepInv, StruckStepInv, PlayerStepInv, WindowStepInv, ArmStepInv,
     ReportStepInv DEF IInv
<1>2. CASE UNCHANGED vars
  BY <1>2 DEF vars, IInv, DataOK, FlagOK, LoopInv, EpochInv, EndsToCome, SeenLoaded, Turning,
     LoadIn, TaskInv, AttemptInv, InKill, StrikeInHook, WatchInv, StruckInv, PlayerInv,
     WindowInv, ArmInv, KillsAreNotSentBack, OneReportPerLife, Reported
<1> QED BY <1>1, <1>2

\* In every reachable state everything the proofs say of the two threads holds.
THEOREM Invariance == Spec => []IInv
BY InitLemma, StepLemma, PTL DEF Spec

\* Whatever the worlds, the deaths and the kills are, each variable keeps its type: in
\* particular the live epoch moves at most twice for each world (GameEventQueue).
THEOREM TypeCorrect == Spec => []TypeOK
<1>1. IInv => TypeOK
  BY TypeHalves DEF IInv
<1> QED BY <1>1, Invariance, PTL

\* DeathMonitor never reports a death that DeathLinkActions caused, unless the plugin
\* thread armed the monitor while that kill was running.
THEOREM NoEchoOfKills == Spec => []KillsAreNotSentBack
<1>1. IInv => KillsAreNotSentBack
  BY DEF IInv
<1> QED BY <1>1, Invariance, PTL

\* A life of the player is reported dead once, however often HumanDieHook runs.
THEOREM OneDeathPerLife == Spec => []OneReportPerLife
<1>1. IInv => OneReportPerLife
  BY DEF IInv
<1> QED BY <1>1, Invariance, PTL

\* A death that was received in one world does not kill in another, whatever loads and
\* ends of worlds the plugin thread has yet to hear of.
THEOREM StrikesItsWorld == Spec => []DeathsStrikeTheirWorld
<1>1. IInv => DeathsStrikeTheirWorld
  BY DEF IInv, DeathsStrikeTheirWorld, Killing, AttemptInv, InKill, KillSteps
<1> QED BY <1>1, Invariance, PTL

\* DeathLinkController does not retry a death that has killed the player.
THEOREM NoSecondStrike == Spec => []KillIsNotRetried
<1>1. IInv => KillIsNotRetried
  BY DEF IInv, KillIsNotRetried, StruckInv, WatchInv
<1> QED BY <1>1, Invariance, PTL


=============================================================================
