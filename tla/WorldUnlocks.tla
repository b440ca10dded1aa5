---------------------------- MODULE WorldUnlocks ----------------------------
(***************************************************************************)
(* Activities, collectibles and diversions that stay closed until their    *)
(* unlock item arrives: the hooks on the game's own switches with the      *)
(* ownership and the requests they remember                                *)
(* (HookActivityUnlockController.cpp), and the handler that has the game   *)
(* thread initialise, grant, reset and refresh them                        *)
(* (HookActivityUnlockItemHandler.cpp).                                    *)
(*                                                                         *)
(* The game turns its switches on and off when missions begin and end,     *)
(* when the story opens the activities and while a world loads.  It shows  *)
(* CDs and tags again as it streams them in, and the ho-ing trigger when   *)
(* that diversion ends, without any hooked call.  Hooks can be disabled    *)
(* whenever they are to be, and the reads of the game's memory succeed.    *)
(***************************************************************************)
EXTENDS Naturals, Sequences, FiniteSets

CONSTANTS
  Groups,       \* sets of kinds of activities, one of which a game has
  RaceClasses,  \* classes of races
  MaxWorld,     \* bound on the worlds one process loads
  MaxTasks      \* bound on the tasks the session asks for ahead of the frames

AlwaysManagedKinds == {"Hitman", "ChopShop", "Races"}
JobKinds == {"Taxi", "Paramedic", "Firefighter", "Towing"}
Kinds == AlwaysManagedKinds \cup JobKinds \cup {"Cd", "Tags", "StuntJumps", "Hoing"}

ASSUME WorldUnlocksAssumption ==
  /\ Groups \subseteq SUBSET Kinds
  /\ RaceClasses \cap Kinds = {}
  /\ MaxWorld \in Nat /\ MaxTasks \in Nat

\* The hooked functions that switch something on or off, by kind.
SwitchesOf(kind) ==
  CASE kind = "Hitman"   -> {"HitmanManager", "HitmanAll"}
    [] kind = "ChopShop" -> {"ChopShopManager", "ChopShopAll", "ChopShopTriggers"}
    [] kind = "Cd"       -> {"CdPickups"}
    [] kind = "Tags"     -> {"TagSpots"}
    [] kind = "Hoing"    -> {"HoingTriggers"}
    [] kind = "Races"    -> {"RaceToggle"}
    [] OTHER             -> {}
Switches == UNION {SwitchesOf(kind) : kind \in Kinds}
KindOf(switch) == CHOOSE kind \in Kinds : switch \in SwitchesOf(kind)

\* The switches whose request the controller remembers and applies again.
Remembered == Switches \ {"ChopShopTriggers"}
\* A grant shows these only in freeroam once the story has opened them.
StoryKinds == {"Hitman", "ChopShop", "Races"}
\* Missions turn these off.
MissionKinds == StoryKinds \cup {"Hoing"}
SwitchedKinds == MissionKinds \cup {"Cd", "Tags"}
\* These come back without a call of their switch.
CollectibleSwitches == {"CdPickups", "TagSpots"}
UnhookedSwitches == CollectibleSwitches \cup {"HoingTriggers"}

VARIABLES
  kinds,          \* the kinds this game has; never changes
  raceTable,      \* the race records can be read; never changes
  mode,           \* GameReadiness as the game's memory shows it
  mission,        \* there is a current gameplay instance
  story,          \* the story no longer locks the diversions
  owed,           \* kinds whose switches the game has still to set as it wants them
  shown,          \* switches that are on
  shownRaces,     \* classes whose start triggers are on
  playing,        \* the activity the player is in
  installed,      \* Install: No, Enabling its hooks, Yes
  managedKinds,   \* Implementation.managedKinds and races
  native,         \* the remembered requests, native*Enabled and native*Available
  ownedKinds,     \* Implementation.ownedKinds
  ownedRaces,     \* Implementation.ownedRaceClasses
  policySet,      \* Implementation.initialized
  ready,          \* HookActivityUnlockItemHandler.initialized_
  initQueued,     \* initializationQueued_
  refreshQueued,  \* refreshQueued_
  ppc,            \* where the plugin thread is in Update
  live,           \* GameEventQueue.liveEpoch_
  observed,       \* GameEventQueue.observedEpoch_
  tasks,          \* the dispatcher's tasks
  granted         \* history: what this world was granted since its last reset, and
                  \* whether ownership was cleared since it was loaded

traits      == <<kinds, raceTable>>
gameVars    == <<mode, mission, story, owed, shown, shownRaces, playing>>
hookVars    == <<installed, managedKinds>>
ownedVars   == <<ownedKinds, ownedRaces>>
policyVars  == <<native, ownedVars, policySet>>
handlerVars == <<ready, initQueued, refreshQueued, ppc>>
epochVars   == <<live, observed>>
vars == <<traits, gameVars, hookVars, policyVars, handlerVars, epochVars, tasks, granted>>

Present == UNION {SwitchesOf(kind) : kind \in kinds}
Freeroam == ~mission
StoryActivitiesOpen == Freeroam /\ story

\* What the game wants of a kind.
Wants(kind) ==
  /\ kind \in MissionKinds => Freeroam
  /\ kind \in StoryKinds => story

NoTask == [kind |-> "None", item |-> "None", epoch |-> 0]
Task(kind) == [NoTask EXCEPT !.kind = kind]
GrantTask(item, epoch) == [kind |-> "Grant", item |-> item, epoch |-> epoch]

NothingGranted == [items |-> {}, cleared |-> TRUE]

Init ==
  /\ kinds \in Groups /\ raceTable \in {TRUE, "Races" \notin kinds}
  /\ mode = "MainMenu" /\ mission = FALSE /\ story \in BOOLEAN
  /\ owed = {} /\ shown = {} /\ shownRaces = {} /\ playing = "None"
  /\ installed = "No" /\ managedKinds = {}
  /\ native = CollectibleSwitches \cap Present
  /\ ownedKinds = {} /\ ownedRaces = {} /\ policySet = FALSE
  /\ ready = FALSE /\ initQueued = FALSE /\ refreshQueued = FALSE /\ ppc = "Idle"
  /\ live = 0 /\ observed = 0 /\ tasks = <<>> /\ granted = NothingGranted

-----------------------------------------------------------------------------
\* What the hooks let through.

IsKindManaged(kind) == kind \in managedKinds
Hooked(kind) == installed # "No" /\ IsKindManaged(kind)
PermitsEverything(kind) == TRUE
Permits(kind) == ~IsKindManaged(kind) \/ kind \in ownedKinds
\* A race class is managed whenever races are.
IsRaceClassEnabled(class) == class \in ownedRaces

\* A call of a switch by the game goes through its hook, which remembers the
\* request and passes on what Gate permits.
ForgetfulNative(kind, requested) == native
NativeAfter(kind, requested) ==
  LET remembered == SwitchesOf(kind) \cap Remembered IN
  IF requested THEN native \cup remembered ELSE native \ remembered
Gate(kind, requested) == requested /\ Permits(kind)

\* The game sets the switches of a kind in one frame.
GameSets(kind) ==
  LET requested == Wants(kind)
      passed == IF Hooked(kind) THEN Gate(kind, requested) ELSE requested
  IN
  /\ kind \in owed \ {"Races"}
  /\ owed' = owed \ {kind}
  /\ native' = IF Hooked(kind) THEN NativeAfter(kind, requested) ELSE native
  /\ shown' = IF passed THEN shown \cup SwitchesOf(kind) ELSE shown \ SwitchesOf(kind)
  /\ UNCHANGED <<traits, mode, mission, story, shownRaces, playing, hookVars, ownedVars,
                 policySet, handlerVars, epochVars, tasks, granted>>

\* Race triggers are all turned off and those of received classes on again.
VisibleRaces(wanted, owned) == IF wanted /\ raceTable THEN owned ELSE {}

GameTogglesRaces ==
  LET requested == Wants("Races") IN
  /\ "Races" \in owed
  /\ owed' = owed \ {"Races"}
  /\ IF Hooked("Races")
     THEN /\ native' = NativeAfter("Races", requested)
          /\ shownRaces' = VisibleRaces(requested, {c \in RaceClasses : IsRaceClassEnabled(c)})
     ELSE /\ shownRaces' = IF requested THEN RaceClasses ELSE {}
          /\ UNCHANGED native
  /\ UNCHANGED <<traits, mode, mission, story, shown, playing, hookVars, ownedVars,
                 policySet, handlerVars, epochVars, tasks, granted>>

-----------------------------------------------------------------------------
\* The game.

gameUnchanged == UNCHANGED <<traits, hookVars, policyVars, handlerVars, observed, tasks>>

\* The load hook moves the live epoch; every switch is set again while loading.
LoadSave ==
  /\ mode # "Loading" /\ live < MaxWorld
  /\ mode' = "Loading" /\ mission' = FALSE /\ story' \in BOOLEAN
  /\ owed' = kinds \cap SwitchedKinds /\ playing' = "None"
  /\ live' = live + 1 /\ granted' = [items |-> {}, cleared |-> FALSE]
  /\ UNCHANGED <<shown, shownRaces>> /\ gameUnchanged

FinishLoading ==
  /\ mode = "Loading" /\ owed = {}
  /\ mode' = "Ready"
  /\ UNCHANGED <<mission, story, owed, shown, shownRaces, playing, live, granted>>
  /\ gameUnchanged

ChangeControl ==
  /\ mode \in {"Ready", "Interactive"}
  /\ mode' = IF mode = "Ready" THEN "Interactive" ELSE "Ready"
  /\ UNCHANGED <<mission, story, owed, shown, shownRaces, playing, live, granted>>
  /\ gameUnchanged

BeginOrEndMission ==
  /\ mode = "Interactive" /\ playing = "None"
  /\ mission' = ~mission
  /\ owed' = owed \cup (kinds \cap MissionKinds)
  /\ UNCHANGED <<mode, story, shown, shownRaces, playing, live, granted>>
  /\ gameUnchanged

StoryOpens ==
  /\ mode = "Interactive" /\ ~story
  /\ story' = TRUE
  /\ owed' = owed \cup (kinds \cap StoryKinds)
  /\ UNCHANGED <<mode, mission, shown, shownRaces, playing, live, granted>>
  /\ gameUnchanged

\* Streaming creates the pickups and spots of a district anew, all of them on.
CollectiblesAppear ==
  /\ mode \in {"Loading", "Ready", "Interactive"}
  /\ \E switch \in CollectibleSwitches \cap Present : shown' = shown \cup {switch}
  /\ UNCHANGED <<mode, mission, story, owed, shownRaces, playing, live, granted>>
  /\ gameUnchanged

\* What the game has the player start: by a trigger that is on, by driving the
\* vehicle of a job, by a jump; the hooks of the last two refuse what is closed.
JobStarts(kind) == Hooked(kind) => Permits(kind)
HoingStartsByTrigger == "HoingTriggers" \in shown
HoingStarts == "HoingTriggers" \in shown /\ (Hooked("Hoing") => Permits("Hoing"))
StuntJumpArms == Hooked("StuntJumps") => Permits("StuntJumps")
Starts(kind) ==
  CASE kind \in JobKinds     -> JobStarts(kind)
    [] kind = "Hoing"        -> HoingStarts
    [] kind = "StuntJumps"   -> StuntJumpArms
    [] kind = "Hitman"       -> "HitmanAll" \in shown
    [] kind = "ChopShop"     -> "ChopShopAll" \in shown
    [] kind = "Races"        -> shownRaces # {}
    [] kind = "Cd"           -> "CdPickups" \in shown
    [] kind = "Tags"         -> "TagSpots" \in shown

StartActivity ==
  /\ mode = "Interactive" /\ Freeroam /\ playing = "None"
  /\ \E kind \in kinds : Starts(kind) /\ playing' = kind
  /\ UNCHANGED <<mode, mission, story, owed, shown, shownRaces, live, granted>>
  /\ gameUnchanged

\* The ho-ing diversion turns its trigger on again when it ends.
EndActivity ==
  /\ playing # "None"
  /\ playing' = "None"
  /\ shown' = IF playing = "Hoing" THEN shown \cup {"HoingTriggers"} ELSE shown
  /\ UNCHANGED <<mode, mission, story, owed, shownRaces, live, granted>>
  /\ gameUnchanged

-----------------------------------------------------------------------------
\* The controller, on the game thread.

UnderPolicy == {s \in Remembered \ {"RaceToggle"} : IsKindManaged(KindOf(s))}

\* What is on when the policy is applied to some switches.
PolicyShown(switches, requests, owned) ==
  (shown \ switches) \cup {s \in switches \cap requests : KindOf(s) \in owned}

OwnershipKept == UNCHANGED ownedVars
ClearOwnership == ownedKinds' = {} /\ ownedRaces' = {}

\* ApplyCurrentPolicy, after ClearOwnership.
ClearAndApply(requests) ==
  /\ ClearOwnership
  /\ shown' = PolicyShown(UnderPolicy, requests, {})
  /\ shownRaces' = IF IsKindManaged("Races") THEN {} ELSE shownRaces

\* The requests the game will have made, as far as its state tells.
InitialNative ==
  {s \in Remembered \cap Present :
     /\ KindOf(s) \in StoryKinds => StoryActivitiesOpen
     /\ s = "HoingTriggers" => Freeroam}

RunInitialize ==
  /\ tasks # <<>> /\ Head(tasks).kind = "Initialize"
  /\ IF installed = "Yes" /\ mode = "Interactive"
     THEN /\ native' = InitialNative
          /\ ClearAndApply(InitialNative)
          /\ granted' = [granted EXCEPT !.cleared = TRUE]
          /\ policySet' = TRUE /\ ready' = TRUE
     ELSE UNCHANGED <<policyVars, shown, shownRaces, ready, granted>>
  /\ initQueued' = FALSE
  /\ tasks' = Tail(tasks)
  /\ UNCHANGED <<traits, mode, mission, story, owed, playing, hookVars, refreshQueued, ppc,
                 epochVars>>

\* A kind is shown at once if the game wants it and nothing keeps it closed.
ShownAtOnce(kind) ==
  /\ Remembered \cap SwitchesOf(kind) \subseteq native
  /\ kind \in StoryKinds => StoryActivitiesOpen

Grant(item) ==
  IF item \in RaceClasses
  THEN /\ ownedRaces' = ownedRaces \cup {item}
       /\ shownRaces' = IF ShownAtOnce("Races") THEN VisibleRaces(TRUE, ownedRaces')
                        ELSE shownRaces
       /\ UNCHANGED <<ownedKinds, shown>>
  ELSE /\ ownedKinds' = ownedKinds \cup {item}
       /\ shown' = IF ShownAtOnce(item) THEN shown \cup (Remembered \cap SwitchesOf(item))
                   ELSE shown
       /\ UNCHANGED <<ownedRaces, shownRaces>>

\* ItemCompletion::IsCurrent: the task is for the world the game now has.
IsCurrentAnyway(task) == TRUE
IsCurrent(task) == task.epoch = live

RunGrant ==
  /\ tasks # <<>> /\ Head(tasks).kind = "Grant"
  /\ LET task == Head(tasks) IN
     IF IsCurrent(task) /\ installed = "Yes" /\ policySet
     THEN /\ Grant(task.item)
          /\ granted' = IF task.epoch = live
                        THEN [granted EXCEPT !.items = @ \cup {task.item}] ELSE granted
     ELSE UNCHANGED <<ownedVars, shown, shownRaces, granted>>
  /\ tasks' = Tail(tasks)
  /\ UNCHANGED <<traits, mode, mission, story, owed, playing, hookVars, native, policySet,
                 handlerVars, epochVars>>

\* ResetPersistentState: what was granted before is taken back.
RunReset ==
  /\ tasks # <<>> /\ Head(tasks).kind = "Reset"
  /\ IF installed = "Yes" /\ policySet
     THEN /\ ClearAndApply(native)
          /\ granted' = NothingGranted
     ELSE UNCHANGED <<ownedVars, shown, shownRaces, granted>>
  /\ tasks' = Tail(tasks)
  /\ UNCHANGED <<traits, mode, mission, story, owed, playing, hookVars, native, policySet,
                 handlerVars, epochVars>>

RefreshStaysQueued == UNCHANGED refreshQueued
RefreshIsDone == refreshQueued' = FALSE

RunRefresh ==
  /\ tasks # <<>> /\ Head(tasks).kind = "Refresh"
  /\ shown' = IF installed = "Yes" /\ policySet /\ mode = "Interactive"
              THEN PolicyShown(UnderPolicy \cap CollectibleSwitches, native, ownedKinds)
              ELSE shown
  /\ RefreshIsDone
  /\ tasks' = Tail(tasks)
  /\ UNCHANGED <<traits, mode, mission, story, owed, shownRaces, playing, hookVars,
                 policyVars, ready, initQueued, ppc, epochVars, granted>>

-----------------------------------------------------------------------------
\* The plugin thread.

pluginUnchanged == UNCHANGED <<traits, gameVars, live, granted>>

\* Install enables the hooks before the game thread can be asked for anything ...
InstallHooks ==
  /\ ppc = "Idle" /\ installed = "No"
  /\ \E items \in SUBSET (kinds \ AlwaysManagedKinds) :
       managedKinds' = items \cup (kinds \cap AlwaysManagedKinds)
  /\ installed' = "Enabling"
  /\ UNCHANGED <<policyVars, handlerVars, observed, tasks>> /\ pluginUnchanged

\* ... and takes them back when one cannot be enabled.
FinishInstall ==
  /\ installed = "Enabling"
  /\ \/ installed' = "Yes" /\ UNCHANGED <<managedKinds, native>>
     \/ /\ installed' = "No" /\ managedKinds' = {}
        /\ native' = CollectibleSwitches \cap Present
  /\ UNCHANGED <<ownedVars, policySet, handlerVars, observed, tasks>> /\ pluginUnchanged

\* The manager cancels the tasks before it removes the handler and its controller.
Remove ==
  /\ ppc = "Idle" /\ installed = "Yes"
  /\ tasks' = <<>>
  /\ ready' = FALSE /\ initQueued' = FALSE /\ refreshQueued' = FALSE
  /\ installed' = "No" /\ managedKinds' = {} /\ policySet' = FALSE
  /\ ClearOwnership
  /\ native' = CollectibleSwitches \cap Present
  /\ granted' = NothingGranted
  /\ UNCHANGED <<traits, gameVars, ppc, epochVars>>

\* SessionRuntime::ProcessGameEvents has seen every load up to the live epoch.
ObserveLoads ==
  /\ ppc = "Idle" /\ observed # live
  /\ observed' = live
  /\ UNCHANGED <<hookVars, policyVars, handlerVars, tasks>> /\ pluginUnchanged

\* Handle: an item of the session becomes a task with a completion.
Items == (managedKinds \ {"Races"}) \cup (IF "Races" \in managedKinds THEN RaceClasses ELSE {})

Handle ==
  /\ ppc = "Idle" /\ installed = "Yes" /\ ready /\ Len(tasks) < MaxTasks
  /\ \E item \in Items : tasks' = Append(tasks, GrantTask(item, observed))
  /\ UNCHANGED <<hookVars, policyVars, handlerVars, observed>> /\ pluginUnchanged

ResetState ==
  /\ ppc = "Idle" /\ installed = "Yes" /\ ready /\ Len(tasks) < MaxTasks
  /\ tasks' = Append(tasks, Task("Reset"))
  /\ UNCHANGED <<hookVars, policyVars, handlerVars, observed>> /\ pluginUnchanged

\* Update reads initialized_ ...
UpdateUninitialized ==
  /\ ppc = "Idle" /\ installed = "Yes" /\ ~ready
  /\ ppc' = "Initialize"
  /\ UNCHANGED <<hookVars, policyVars, ready, initQueued, refreshQueued, observed, tasks>>
  /\ pluginUnchanged

\* ... and queues the initialisation unless one is queued; the game thread may have
\* finished one in between.
QueueInitialization ==
  /\ ppc = "Initialize"
  /\ ppc' = "Idle" /\ initQueued' = TRUE
  /\ tasks' = IF initQueued THEN tasks ELSE Append(tasks, Task("Initialize"))
  /\ UNCHANGED <<hookVars, policyVars, ready, refreshQueued, observed>> /\ pluginUnchanged

\* RefreshCollectiblePolicy, when 250 ms have passed.
QueueRefresh ==
  /\ ppc = "Idle" /\ installed = "Yes" /\ ready /\ ~refreshQueued
  /\ refreshQueued' = TRUE
  /\ tasks' = Append(tasks, Task("Refresh"))
  /\ UNCHANGED <<hookVars, policyVars, ready, initQueued, ppc, observed>> /\ pluginUnchanged

Game ==
  \/ LoadSave \/ FinishLoading \/ ChangeControl \/ BeginOrEndMission \/ StoryOpens
  \/ CollectiblesAppear \/ StartActivity \/ EndActivity
  \/ GameTogglesRaces \/ \E kind \in kinds : GameSets(kind)
RunTask == RunInitialize \/ RunGrant \/ RunReset \/ RunRefresh
Plugin ==
  \/ InstallHooks \/ FinishInstall \/ Remove \/ ObserveLoads \/ Handle \/ ResetState
  \/ UpdateUninitialized \/ QueueInitialization \/ QueueRefresh

Next == Game \/ RunTask \/ Plugin

Spec == Init /\ [][Next]_vars

\* The loop turns every 50 ms and frames run the dispatcher's tasks.
FairSpec == Spec /\ WF_vars(QueueRefresh) /\ WF_vars(RunTask) /\ WF_vars(QueueInitialization)

-----------------------------------------------------------------------------
\* Properties.

TypeOK ==
  /\ kinds \in Groups /\ raceTable \in BOOLEAN
  /\ mode \in {"MainMenu", "Loading", "Ready", "Interactive"}
  /\ mission \in BOOLEAN /\ story \in BOOLEAN
  /\ owed \subseteq kinds /\ shown \subseteq Present /\ shownRaces \subseteq RaceClasses
  /\ playing \in kinds \cup {"None"}
  /\ installed \in {"No", "Enabling", "Yes"} /\ managedKinds \subseteq kinds
  /\ native \subseteq Remembered \cap Present
  /\ ownedKinds \subseteq managedKinds /\ ownedRaces \subseteq RaceClasses
  /\ policySet \in BOOLEAN /\ ready \in BOOLEAN
  /\ initQueued \in BOOLEAN /\ refreshQueued \in BOOLEAN
  /\ ppc \in {"Idle", "Initialize"}
  /\ live \in 0..MaxWorld /\ observed \in 0..live
  /\ tasks \in Seq([kind : {"Initialize", "Grant", "Reset", "Refresh"},
                    item : Kinds \cup RaceClasses \cup {"None"}, epoch : 0..MaxWorld])
  /\ granted.items \subseteq managedKinds \cup RaceClasses /\ granted.cleared \in BOOLEAN

\* Once the policy is set, a switch under it is only on for an activity the slot
\* has received, in whichever order the game's calls, missions, loads, grants and
\* resets come.  Switches that come on without a call are refused or hidden again.
OnlyEarnedShown ==
  policySet =>
    /\ \A s \in (shown \cap UnderPolicy) \ UnhookedSwitches : KindOf(s) \in ownedKinds
    /\ IsKindManaged("Races") => shownRaces \subseteq ownedRaces

\* A received activity is on wherever the game would have it on: a grant during a
\* mission, before the story opens it or between two calls of the game is not lost.
WantedIsShown ==
  policySet /\ owed = {} =>
    /\ \A s \in UnderPolicy : KindOf(s) \in ownedKinds /\ Wants(KindOf(s)) => s \in shown
    /\ IsKindManaged("Races") /\ raceTable /\ Wants("Races") => ownedRaces \subseteq shownRaces

\* Ownership is that of the loaded world: once it was cleared for it, exactly what
\* this world was granted since its last reset is owned, even when the policy is
\* initialised twice or grants of the world before are still queued.
OwnedByThisWorld ==
  granted.cleared => ownedKinds \cup ownedRaces = granted.items

\* Once ownership was cleared for the loaded world, no activity starts there that this
\* world was not granted since its last reset: not one that only the world before had,
\* not one that a reset took back while it was played, although the ho-ing diversion
\* turns its trigger on again.  A race starts by the trigger of its class.  (CDs and
\* tags can be taken while streaming shows them: CollectiblesHiddenAgain.)
GrantedHere(kind) ==
  IF kind = "Races" THEN granted.items \cap RaceClasses # {} ELSE kind \in granted.items
OnlyGrantedStarts ==
  [][playing = "None" /\ playing' \in managedKinds \ {"Cd", "Tags"}
       /\ policySet /\ granted.cleared
     => GrantedHere(playing')]_vars

\* CDs and tags that are streamed in before they are received do not stay visible
\* while the player is in control.
CollectiblesHiddenAgain ==
  []<>(\/ ~policySet \/ mode # "Interactive"
       \/ \A s \in CollectibleSwitches \cap UnderPolicy :
            s \in shown => KindOf(s) \in ownedKinds)
=============================================================================
