------------------------ MODULE WorldUnlocks_proofs ------------------------
(***************************************************************************)
(* Proofs about WorldUnlocks, for every set of kinds a game may have, any  *)
(* race classes, any number of worlds and any order of the game's calls,   *)
(* the tasks and the plugin's updates.                                     *)
(*                                                                         *)
(* What is shown follows from what is remembered: a switch the game owes   *)
(* no call is requested exactly if the game wants it (NativeInv).  That    *)
(* ownership is what the world was granted needs to know when the policy   *)
(* can be initialised a second time: before anything was granted           *)
(* (InitializeInv).                                                        *)
(***************************************************************************)
EXTENDS WorldUnlocks, TLAPS

USE DEF traits, gameVars, hookVars, ownedVars, policyVars, handlerVars, epochVars,
        gameUnchanged, pluginUnchanged

\* TypeOK in two halves, which different provers are good at, with the shape of granted.
TaskRecords == [kind : {"Initialize", "Grant", "Reset", "Refresh"},
                item : Kinds \cup RaceClasses \cup {"None"}, epoch : 0..MaxWorld]
DataOK ==
  /\ kinds \in Groups
  /\ mode \in {"MainMenu", "Loading", "Ready", "Interactive"}
  /\ owed \subseteq kinds /\ shown \subseteq Present /\ shownRaces \subseteq RaceClasses
  /\ playing \in kinds \cup {"None"}
  /\ installed \in {"No", "Enabling", "Yes"} /\ managedKinds \subseteq kinds
  /\ native \subseteq Remembered \cap Present
  /\ ownedKinds \subseteq managedKinds /\ ownedRaces \subseteq RaceClasses
  /\ ppc \in {"Idle", "Initialize"}
  /\ live \in 0..MaxWorld /\ observed \in 0..live
  /\ tasks \in Seq(TaskRecords)
  /\ granted \in [items : SUBSET (Kinds \cup RaceClasses), cleared : BOOLEAN]
  /\ granted.items \subseteq managedKinds \cup RaceClasses
FlagOK ==
  /\ raceTable \in BOOLEAN /\ mission \in BOOLEAN /\ story \in BOOLEAN
  /\ policySet \in BOOLEAN /\ ready \in BOOLEAN
  /\ initQueued \in BOOLEAN /\ refreshQueued \in BOOLEAN

\* The controller has a policy and its tasks only between Install and Remove.
InstallInv ==
  /\ installed # "Yes" => tasks = <<>> /\ ~policySet /\ ppc = "Idle"
  /\ installed = "No" => managedKinds = {}
  /\ policySet <=> ready
  /\ ~policySet => ownedKinds = {} /\ ownedRaces = {} /\ granted.items = {}
  /\ \A i \in DOMAIN tasks :
       tasks[i].kind = "Grant" => tasks[i].item \in managedKinds \cup RaceClasses

\* An initialisation comes before every other task and before the first grant, even
\* one that was queued while the game thread finished another.
InitializeInv ==
  /\ ~ready \/ ppc = "Initialize" =>
       granted.items = {} /\ \A i \in DOMAIN tasks : tasks[i].kind = "Initialize"
  /\ \A j \in DOMAIN tasks : tasks[j].kind = "Initialize" =>
       granted.items = {} /\ \A i \in DOMAIN tasks : i < j => tasks[i].kind = "Initialize"

\* A switch that is not owed a call was last requested as the game wants it, and an
\* owned one is on accordingly.
SettledSwitch(s) ==
  /\ s \in native <=> Wants(KindOf(s))
  /\ KindOf(s) \in ownedKinds /\ Wants(KindOf(s)) => s \in shown
SettledRaces ==
  /\ "RaceToggle" \in native <=> Wants("Races")
  /\ raceTable /\ Wants("Races") => ownedRaces \subseteq shownRaces
NativeInv ==
  policySet =>
    /\ \A s \in UnderPolicy : KindOf(s) \notin owed => SettledSwitch(s)
    /\ "Races" \in managedKinds \ owed => SettledRaces

IInv ==
  /\ DataOK /\ FlagOK /\ InstallInv /\ InitializeInv /\ OwnedByThisWorld
  /\ OnlyEarnedShown /\ NativeInv

-----------------------------------------------------------------------------
\* Kinds and switches.

LEMMA TypeHalves == DataOK /\ FlagOK => TypeOK
BY DEF TypeOK, DataOK, FlagOK, TaskRecords

\* No two kinds share a switch.
LEMMA SwitchesDisjoint ==
  ASSUME NEW kind \in Kinds, NEW s \in SwitchesOf(kind),
         NEW other \in Kinds, s \in SwitchesOf(other)
  PROVE  kind = other
BY DEF Kinds, AlwaysManagedKinds, JobKinds, SwitchesOf

\* A switch is that of the kind it belongs to.
LEMMA KindOfSwitch ==
  /\ \A kind \in Kinds : \A s \in SwitchesOf(kind) : KindOf(s) = kind /\ s \in Switches
  /\ \A s \in Switches : KindOf(s) \in Kinds /\ s \in SwitchesOf(KindOf(s))
<1>1. ASSUME NEW kind \in Kinds, NEW s \in SwitchesOf(kind)
      PROVE  KindOf(s) \in Kinds /\ s \in SwitchesOf(KindOf(s))
  BY DEF KindOf
<1>2. \A kind \in Kinds : \A s \in SwitchesOf(kind) : KindOf(s) = kind /\ s \in Switches
  BY <1>1, SwitchesDisjoint DEF Switches
<1>3. \A s \in Switches : KindOf(s) \in Kinds /\ s \in SwitchesOf(KindOf(s))
  BY <1>1 DEF Switches
<1> QED BY <1>2, <1>3

\* What the switches under the policy are.
LEMMA PolicySwitches ==
  ASSUME DataOK
  PROVE  /\ \A s \in UnderPolicy : /\ KindOf(s) \in managedKinds /\ s \in Remembered
                                   /\ s \in SwitchesOf(KindOf(s)) /\ s \in Present
         /\ \A kind \in Kinds : \A s \in UnderPolicy : s \in SwitchesOf(kind) => KindOf(s) = kind
         /\ managedKinds \subseteq Kinds /\ kinds \subseteq Kinds
<1>1. kinds \subseteq Kinds /\ managedKinds \subseteq kinds
  BY WorldUnlocksAssumption DEF DataOK
<1>2. \A s \in UnderPolicy : KindOf(s) \in managedKinds /\ s \in Remembered /\ s \in Switches
  BY DEF UnderPolicy, IsKindManaged, Remembered
<1> QED BY <1>1, <1>2, KindOfSwitch DEF Present

LEMMA CollectibleKinds ==
  /\ KindOf("CdPickups") = "Cd" /\ KindOf("TagSpots") = "Tags"
  /\ KindOf("HoingTriggers") = "Hoing" /\ KindOf("RaceToggle") = "Races"
  /\ SwitchesOf("Hoing") = {"HoingTriggers"} /\ SwitchesOf("Races") = {"RaceToggle"}
<1>1. /\ "CdPickups" \in SwitchesOf("Cd") /\ "TagSpots" \in SwitchesOf("Tags")
      /\ SwitchesOf("Hoing") = {"HoingTriggers"} /\ SwitchesOf("Races") = {"RaceToggle"}
  BY DEF SwitchesOf
<1>2. {"Cd", "Tags", "Hoing", "Races"} \subseteq Kinds
  BY DEF Kinds, AlwaysManagedKinds
<1> QED BY <1>1, <1>2, KindOfSwitch

\* Tasks that wait.
LEMMA TakeTask ==
  ASSUME NEW q \in Seq(TaskRecords), q # <<>>
  PROVE  /\ Head(q) \in TaskRecords /\ Head(q) = q[1] /\ 1 \in DOMAIN q
         /\ Tail(q) \in Seq(TaskRecords)
         /\ \A i \in DOMAIN Tail(q) :
              i \in Nat /\ i # 0 /\ i + 1 \in DOMAIN q /\ Tail(q)[i] = q[i + 1]
OBVIOUS

LEMMA AddTask ==
  ASSUME NEW q \in Seq(TaskRecords), NEW t \in TaskRecords
  PROVE  /\ Append(q, t) \in Seq(TaskRecords)
         /\ DOMAIN Append(q, t) = DOMAIN q \cup {Len(q) + 1}
         /\ \A i \in DOMAIN q : i \in Nat /\ i < Len(q) + 1 /\ Append(q, t)[i] = q[i]
         /\ Append(q, t)[Len(q) + 1] = t
OBVIOUS

\* The history of grants.
LEMMA GrantedRecords ==
  ASSUME NEW S, NEW g \in [items : SUBSET S, cleared : BOOLEAN], NEW b \in BOOLEAN
  PROVE  /\ [g EXCEPT !.cleared = b] \in [items : SUBSET S, cleared : BOOLEAN]
         /\ [g EXCEPT !.cleared = b].items = g.items
         /\ [items |-> {}, cleared |-> b] \in [items : SUBSET S, cleared : BOOLEAN]
OBVIOUS

\* The tasks the plugin thread makes.
LEMMA NewTasks ==
  ASSUME DataOK
  PROVE  /\ \A kind \in {"Initialize", "Reset", "Refresh"} :
              Task(kind) \in TaskRecords /\ Task(kind).kind = kind
         /\ \A item \in Items : /\ GrantTask(item, observed) \in TaskRecords
                                /\ GrantTask(item, observed).kind = "Grant"
                                /\ GrantTask(item, observed).item = item
         /\ Items \subseteq managedKinds \cup RaceClasses
<1>1. \A kind \in {"Initialize", "Reset", "Refresh"} :
        Task(kind) \in TaskRecords /\ Task(kind).kind = kind
  BY WorldUnlocksAssumption DEF Task, NoTask, TaskRecords
<1>2. Items \subseteq managedKinds \cup RaceClasses /\ managedKinds \subseteq Kinds
  BY WorldUnlocksAssumption DEF Items, DataOK
<1>3. observed \in 0..MaxWorld
  BY WorldUnlocksAssumption DEF DataOK
<1> QED BY <1>1, <1>2, <1>3 DEF GrantTask, TaskRecords

-----------------------------------------------------------------------------
\* The initial states.

LEMMA InitLemma == Init => IInv
<1> SUFFICES ASSUME Init PROVE IInv
  OBVIOUS
<1> USE WorldUnlocksAssumption DEF Init, NothingGranted
<1>1. DataOK
  <2>1. CollectibleSwitches \cap Present \subseteq Remembered \cap Present
    <3>1. Present \subseteq Switches
      BY DEF Present, Switches
    <3> QED BY <3>1 DEF CollectibleSwitches, Remembered
  <2>2. granted \in [items : SUBSET (Kinds \cup RaceClasses), cleared : BOOLEAN]
    OBVIOUS
  <2> QED BY <2>1, <2>2 DEF DataOK
<1>2. FlagOK
  <2>1. raceTable \in BOOLEAN
    OBVIOUS
  <2> QED BY <2>1, Zenon DEF FlagOK
<1>3. InstallInv /\ InitializeInv /\ OwnedByThisWorld
  BY DEF InstallInv, InitializeInv, OwnedByThisWorld
<1>4. OnlyEarnedShown /\ NativeInv
  BY DEF OnlyEarnedShown, NativeInv
<1> QED BY <1>1, <1>2, <1>3, <1>4 DEF IInv

-----------------------------------------------------------------------------
\* Types.

LEMMA FlagStep == FlagOK /\ Next => FlagOK'
<1> SUFFICES ASSUME FlagOK, Next PROVE FlagOK'
  OBVIOUS
<1>1. CASE Game
  BY <1>1, Zenon DEF FlagOK, Game, LoadSave, FinishLoading, ChangeControl, BeginOrEndMission,
     StoryOpens, CollectiblesAppear, StartActivity, EndActivity, GameTogglesRaces, GameSets
<1>2. CASE RunTask
  BY <1>2, Zenon DEF FlagOK, RunTask, RunInitialize, RunGrant, RunReset, RunRefresh,
     RefreshIsDone
<1>3. CASE Plugin
  BY <1>3, Zenon DEF FlagOK, Plugin, InstallHooks, FinishInstall, Remove, ObserveLoads, Handle,
     ResetState, UpdateUninitialized, QueueInitialization, QueueRefresh
<1> QED BY <1>1, <1>2, <1>3 DEF Next

\* What the policy shows, it takes from what was shown and what was requested.
LEMMA PolicyShownSubset ==
  ASSUME DataOK, NEW switches, NEW requests, requests \subseteq Remembered \cap Present, NEW owned
  PROVE  PolicyShown(switches, requests, owned) \subseteq Present
BY DEF PolicyShown, DataOK

LEMMA InitialNativeSubset == InitialNative \subseteq Remembered \cap Present
BY DEF InitialNative

LEMMA DataStep == DataOK /\ FlagOK /\ InstallInv /\ Next => DataOK'
<1> SUFFICES ASSUME DataOK, FlagOK, InstallInv, Next PROVE DataOK'
  OBVIOUS
<1> USE WorldUnlocksAssumption DEF DataOK
<1>p. UNCHANGED kinds => UNCHANGED Present
  BY DEF Present
<1>1. CASE LoadSave \/ FinishLoading \/ ChangeControl \/ BeginOrEndMission \/ StoryOpens
  <2>1. CASE LoadSave
    <3>1. granted' \in [items : SUBSET (Kinds \cup RaceClasses), cleared : BOOLEAN]
          /\ granted'.items = {}
      BY <2>1 DEF LoadSave
    <3> QED BY <2>1, <3>1, <1>p DEF LoadSave
  <2>2. CASE FinishLoading \/ ChangeControl
    BY <2>2, <1>p DEF FinishLoading, ChangeControl
  <2>3. CASE BeginOrEndMission \/ StoryOpens
    BY <2>3, <1>p DEF BeginOrEndMission, StoryOpens
  <2> QED BY <1>1, <2>1, <2>2, <2>3
<1>2. CASE CollectiblesAppear \/ StartActivity \/ EndActivity
  <2>1. CASE CollectiblesAppear
    BY <2>1, <1>p DEF CollectiblesAppear
  <2>2. CASE StartActivity
    BY <2>2, <1>p DEF StartActivity
  <2>3. CASE EndActivity
    <3>1. playing = "Hoing" => "HoingTriggers" \in Present
      BY CollectibleKinds DEF Present
    <3> QED BY <2>3, <3>1, <1>p DEF EndActivity
  <2> QED BY <1>2, <2>1, <2>2, <2>3
<1>3. CASE \E kind \in kinds : GameSets(kind)
  <2> SUFFICES ASSUME NEW kind \in kinds, GameSets(kind) PROVE DataOK'
    BY <1>3
  <2>1. SwitchesOf(kind) \subseteq Present
    BY DEF Present
  <2>2. shown' \subseteq Present /\ native' \subseteq Remembered \cap Present
    BY <2>1 DEF GameSets, NativeAfter
  <2>3. UNCHANGED <<kinds, mode, shownRaces, playing, installed, managedKinds, ownedKinds,
                    ownedRaces, ppc, live, observed, tasks, granted>>
        /\ owed' \subseteq owed
    BY DEF GameSets
  <2> QED BY <2>2, <2>3, <1>p
<1>4. CASE GameTogglesRaces
  <2>1. "Races" \in kinds /\ SwitchesOf("Races") \subseteq Present
    BY <1>4 DEF GameTogglesRaces, Present
  <2>2. shownRaces' \subseteq RaceClasses /\ native' \subseteq Remembered \cap Present
    BY <1>4, <2>1 DEF GameTogglesRaces, VisibleRaces, NativeAfter
  <2>3. UNCHANGED <<kinds, mode, shown, playing, installed, managedKinds, ownedKinds,
                    ownedRaces, ppc, live, observed, tasks, granted>>
        /\ owed' \subseteq owed
    BY <1>4 DEF GameTogglesRaces
  <2> QED BY <2>2, <2>3, <1>p
<1>5. CASE RunTask
  <2>1. /\ tasks # <<>> /\ tasks' = Tail(tasks)
        /\ UNCHANGED <<kinds, mode, owed, playing, installed, managedKinds, ppc, live, observed>>
    BY <1>5 DEF RunTask, RunInitialize, RunGrant, RunReset, RunRefresh
  <2>2. tasks' \in Seq(TaskRecords)
    BY <2>1, TakeTask
  <2>3. /\ shown' \subseteq Present /\ shownRaces' \subseteq RaceClasses
        /\ native' \subseteq Remembered \cap Present
        /\ ownedKinds' \subseteq managedKinds /\ ownedRaces' \subseteq RaceClasses
        /\ granted' \in [items : SUBSET (Kinds \cup RaceClasses), cleared : BOOLEAN]
        /\ granted'.items \subseteq managedKinds \cup RaceClasses
    <3>1. CASE RunInitialize
      <4>1. granted' \in [items : SUBSET (Kinds \cup RaceClasses), cleared : BOOLEAN]
            /\ granted'.items = granted.items
        <5>1. granted' = [granted EXCEPT !.cleared = TRUE] \/ granted' = granted
          BY <3>1 DEF RunInitialize
        <5>2. granted \in [items : SUBSET (Kinds \cup RaceClasses), cleared : BOOLEAN]
          OBVIOUS
        <5>3. [granted EXCEPT !.cleared = TRUE]
                \in [items : SUBSET (Kinds \cup RaceClasses), cleared : BOOLEAN]
              /\ [granted EXCEPT !.cleared = TRUE].items = granted.items
          BY <5>2, GrantedRecords
        <5> QED BY <5>1, <5>2, <5>3
      <4>2. CASE ClearAndApply(InitialNative) /\ native' = InitialNative
        BY <4>1, <4>2, PolicyShownSubset, InitialNativeSubset DEF ClearAndApply, ClearOwnership
      <4>3. CASE UNCHANGED <<policyVars, shown, shownRaces>>
        BY <4>1, <4>3
      <4> QED BY <3>1, <4>2, <4>3 DEF RunInitialize
    <3>2. CASE RunGrant
      <4>1. Head(tasks).item \in managedKinds \cup RaceClasses
        BY <3>2, <2>1, TakeTask DEF RunGrant, InstallInv
      <4>2. managedKinds \subseteq Kinds
        BY PolicySwitches
      <4>3. granted' \in [items : SUBSET (Kinds \cup RaceClasses), cleared : BOOLEAN]
            /\ granted'.items \subseteq managedKinds \cup RaceClasses
        BY <3>2, <4>1, <4>2 DEF RunGrant
      <4>4. CASE UNCHANGED <<ownedVars, shown, shownRaces>>
        BY <3>2, <4>3, <4>4 DEF RunGrant
      <4>5. CASE Grant(Head(tasks).item)
        <5> DEFINE item == Head(tasks).item
        <5>1. CASE item \in RaceClasses
          BY <3>2, <4>3, <4>5, <5>1 DEF RunGrant, Grant, VisibleRaces
        <5>2. CASE item \notin RaceClasses
          <6>1. item \in kinds /\ SwitchesOf(item) \subseteq Present
            BY <4>1, <5>2 DEF Present
          <6> QED BY <3>2, <4>1, <4>3, <4>5, <5>2, <6>1 DEF RunGrant, Grant
        <5> QED BY <5>1, <5>2
      <4> QED BY <3>2, <4>4, <4>5 DEF RunGrant
    <3>3. CASE RunReset
      <4>1. granted' \in [items : SUBSET (Kinds \cup RaceClasses), cleared : BOOLEAN]
            /\ granted'.items \subseteq granted.items
        <5>1. granted' = NothingGranted \/ granted' = granted
          BY <3>3 DEF RunReset
        <5>2. NothingGranted \in [items : SUBSET (Kinds \cup RaceClasses), cleared : BOOLEAN]
              /\ NothingGranted.items = {}
          BY GrantedRecords DEF NothingGranted
        <5> QED BY <5>1, <5>2
      <4>2. CASE ClearAndApply(native)
        BY <3>3, <4>1, <4>2, PolicyShownSubset DEF RunReset, ClearAndApply, ClearOwnership
      <4>3. CASE UNCHANGED <<ownedVars, shown, shownRaces>>
        BY <3>3, <4>1, <4>3 DEF RunReset
      <4> QED BY <3>3, <4>2, <4>3 DEF RunReset
    <3>4. CASE RunRefresh
      BY <3>4, PolicyShownSubset DEF RunRefresh
    <3> QED BY <1>5, <3>1, <3>2, <3>3, <3>4 DEF RunTask
  <2> QED BY <2>1, <2>2, <2>3, <1>p
<1>6. CASE InstallHooks \/ FinishInstall \/ Remove
  <2>1. CollectibleSwitches \cap Present \subseteq Remembered \cap Present
    <3>1. Present \subseteq Switches
      BY DEF Present, Switches
    <3> QED BY <3>1 DEF CollectibleSwitches, Remembered
  <2>2. CASE InstallHooks
    BY <2>2, <1>p DEF InstallHooks, InstallInv
  <2>3. CASE FinishInstall
    BY <2>1, <2>3, <1>p DEF FinishInstall, InstallInv
  <2>4. CASE Remove
    BY <2>1, <2>4, <1>p DEF Remove, ClearOwnership, NothingGranted
  <2> QED BY <1>6, <2>2, <2>3, <2>4
<1>7. CASE ObserveLoads \/ UpdateUninitialized
  BY <1>7, <1>p DEF ObserveLoads, UpdateUninitialized
<1>8. CASE Handle \/ ResetState \/ QueueInitialization \/ QueueRefresh
  <2>1. tasks' \in Seq(TaskRecords)
    BY <1>8, AddTask, NewTasks DEF Handle, ResetState, QueueInitialization, QueueRefresh
  <2> QED BY <1>8, <2>1, <1>p DEF Handle, ResetState, QueueInitialization, QueueRefresh
<1> QED BY <1>1, <1>2, <1>3, <1>4, <1>5, <1>6, <1>7, <1>8 DEF Next, Game, Plugin

-----------------------------------------------------------------------------
\* The handler and its tasks.

\* The game changes nothing that the controller and its tasks remember.
LEMMA GameSteps ==
  ASSUME Game
  PROVE  /\ UNCHANGED <<traits, hookVars, ownedVars, policySet, handlerVars, observed, tasks>>
         /\ UNCHANGED granted \/ (granted'.items = {} /\ ~granted'.cleared)
<1>1. CASE LoadSave
  <2>1. granted'.items = {} /\ ~granted'.cleared
    BY <1>1 DEF LoadSave
  <2> QED BY <1>1, <2>1 DEF LoadSave
<1>2. CASE GameTogglesRaces \/ \E kind \in kinds : GameSets(kind)
  BY <1>2 DEF GameTogglesRaces, GameSets
<1>3. CASE FinishLoading \/ ChangeControl \/ BeginOrEndMission \/ StoryOpens \/ CollectiblesAppear
           \/ StartActivity \/ EndActivity
  BY <1>3 DEF FinishLoading, ChangeControl, BeginOrEndMission, StoryOpens, CollectiblesAppear,
     StartActivity, EndActivity
<1> QED BY <1>1, <1>2, <1>3 DEF Game

LEMMA InstallStepInv == DataOK /\ FlagOK /\ InstallInv /\ Next => InstallInv'
<1> SUFFICES ASSUME DataOK, FlagOK, InstallInv, Next PROVE InstallInv'
  OBVIOUS
<1>1. CASE Game
  BY <1>1, GameSteps DEF InstallInv
<1>2. CASE RunTask
  <2>1. /\ tasks # <<>> /\ tasks' = Tail(tasks)
        /\ UNCHANGED <<installed, managedKinds, ppc>>
    BY <1>2 DEF RunTask, RunInitialize, RunGrant, RunReset, RunRefresh
  <2>2. \A i \in DOMAIN tasks' :
          tasks'[i].kind = "Grant" => tasks'[i].item \in managedKinds \cup RaceClasses
    BY <2>1, TakeTask DEF DataOK, InstallInv
  <2>3. installed = "Yes"
    BY <2>1 DEF InstallInv
  <2>4. /\ policySet' <=> ready'
        /\ ~policySet' => ownedKinds' = {} /\ ownedRaces' = {} /\ granted'.items = {}
    <3>1. CASE RunInitialize
      <4>1. granted'.items = granted.items
        BY <3>1 DEF RunInitialize, DataOK
      <4> QED BY <3>1, <4>1 DEF RunInitialize, InstallInv
    <3>2. CASE RunGrant
      BY <3>2 DEF RunGrant, InstallInv
    <3>3. CASE RunReset
      BY <3>3 DEF RunReset, InstallInv, NothingGranted
    <3>4. CASE RunRefresh
      BY <3>4 DEF RunRefresh, InstallInv
    <3> QED BY <1>2, <3>1, <3>2, <3>3, <3>4 DEF RunTask
  <2> QED BY <2>1, <2>2, <2>3, <2>4 DEF InstallInv
<1>3. CASE InstallHooks \/ FinishInstall
  BY <1>3 DEF InstallInv, InstallHooks, FinishInstall
<1>4. CASE Remove
  BY <1>4 DEF InstallInv, Remove, ClearOwnership, NothingGranted
<1>5. CASE ObserveLoads \/ UpdateUninitialized
  BY <1>5 DEF InstallInv, ObserveLoads, UpdateUninitialized
<1>6. CASE Handle \/ ResetState \/ QueueInitialization \/ QueueRefresh
  <2>1. installed = "Yes" /\ UNCHANGED <<installed, managedKinds, policySet, ready, ownedVars,
                                         granted>>
    BY <1>6 DEF Handle, ResetState, QueueInitialization, QueueRefresh, InstallInv
  <2>2. \A i \in DOMAIN tasks' :
          tasks'[i].kind = "Grant" => tasks'[i].item \in managedKinds \cup RaceClasses
    <3>1. ASSUME NEW t \in TaskRecords, tasks' = Append(tasks, t),
                 t.kind # "Grant" \/ t.item \in managedKinds \cup RaceClasses
          PROVE  \A i \in DOMAIN tasks' :
                   tasks'[i].kind = "Grant" => tasks'[i].item \in managedKinds \cup RaceClasses
      <4>1. \A i \in DOMAIN tasks' : tasks'[i] = t \/ (i \in DOMAIN tasks /\ tasks'[i] = tasks[i])
        BY <3>1, AddTask DEF DataOK
      <4> QED BY <3>1, <4>1 DEF InstallInv
    <3>2. CASE Handle
      <4>1. PICK item \in Items : tasks' = Append(tasks, GrantTask(item, observed))
        BY <3>2 DEF Handle
      <4> QED BY <3>1, <4>1, NewTasks
    <3>3. CASE ResetState \/ QueueRefresh
      BY <3>1, <3>3, NewTasks DEF ResetState, QueueRefresh
    <3>4. CASE QueueInitialization
      <4>1. CASE initQueued
        BY <3>4, <4>1 DEF QueueInitialization, InstallInv
      <4>2. CASE ~initQueued
        BY <3>1, <3>4, <4>2, NewTasks DEF QueueInitialization
      <4> QED BY <4>1, <4>2
    <3> QED BY <1>6, <3>2, <3>3, <3>4
  <2> QED BY <2>1, <2>2 DEF InstallInv
<1> QED BY <1>1, <1>2, <1>3, <1>4, <1>5, <1>6 DEF Next, Plugin

\* A second initialisation is queued only before the session is told of the first one.
LEMMA InitializeStepInv == DataOK /\ InstallInv /\ InitializeInv /\ Next => InitializeInv'
<1> SUFFICES ASSUME DataOK, InstallInv, InitializeInv, Next PROVE InitializeInv'
  OBVIOUS
<1>1. CASE Game
  BY <1>1, GameSteps DEF InitializeInv
<1>2. CASE RunTask
  <2>1. tasks # <<>> /\ tasks' = Tail(tasks) /\ UNCHANGED ppc /\ (ready => ready')
    BY <1>2 DEF RunTask, RunInitialize, RunGrant, RunReset, RunRefresh
  <2>2. /\ 1 \in DOMAIN tasks /\ Head(tasks) = tasks[1]
        /\ \A i \in DOMAIN tasks' :
             i \in Nat /\ i # 0 /\ i + 1 \in DOMAIN tasks /\ tasks'[i] = tasks[i + 1]
    BY <2>1, TakeTask DEF DataOK
  <2>3. \A j \in DOMAIN tasks' : tasks'[j].kind = "Initialize" =>
          \A i \in DOMAIN tasks' : i < j => tasks'[i].kind = "Initialize"
    BY <2>2 DEF InitializeInv
  <2>4. CASE tasks[1].kind = "Initialize"
    <3>1. granted'.items = granted.items
      BY <1>2, <2>2, <2>4 DEF RunTask, RunInitialize, RunGrant, RunReset, RunRefresh, DataOK
    <3> QED BY <2>1, <2>2, <2>3, <3>1 DEF InitializeInv
  <2>5. CASE tasks[1].kind # "Initialize"
    <3>1. ready /\ ppc # "Initialize"
      BY <2>2, <2>5 DEF InitializeInv
    <3>2. \A i \in DOMAIN tasks' : tasks'[i].kind # "Initialize"
      BY <2>2, <2>5 DEF InitializeInv
    <3> QED BY <2>1, <3>1, <3>2 DEF InitializeInv
  <2> QED BY <2>4, <2>5
<1>3. CASE InstallHooks \/ FinishInstall \/ ObserveLoads
  BY <1>3 DEF InitializeInv, InstallHooks, FinishInstall, ObserveLoads
<1>4. CASE Remove
  BY <1>4 DEF InitializeInv, Remove, NothingGranted
<1>5. CASE UpdateUninitialized
  BY <1>5 DEF InitializeInv, UpdateUninitialized
<1>6. CASE Handle \/ ResetState \/ QueueRefresh
  <2>1. ready /\ ppc = "Idle" /\ UNCHANGED <<ready, ppc, granted>>
    BY <1>6 DEF Handle, ResetState, QueueRefresh
  <2>2. \E t \in TaskRecords : t.kind # "Initialize" /\ tasks' = Append(tasks, t)
    BY <1>6, NewTasks DEF Handle, ResetState, QueueRefresh
  <2>3. PICK t \in TaskRecords : t.kind # "Initialize" /\ tasks' = Append(tasks, t)
    BY <2>2
  <2>4. /\ DOMAIN tasks' = DOMAIN tasks \cup {Len(tasks) + 1}
        /\ \A i \in DOMAIN tasks : i \in Nat /\ i < Len(tasks) + 1 /\ tasks'[i] = tasks[i]
        /\ tasks'[Len(tasks) + 1] = t
    BY <2>3, AddTask DEF DataOK
  <2>5. \A j \in DOMAIN tasks' : tasks'[j].kind = "Initialize" =>
          j \in DOMAIN tasks /\ \A i \in DOMAIN tasks' : i < j => i \in DOMAIN tasks
    BY <2>3, <2>4
  <2> QED BY <2>1, <2>4, <2>5 DEF InitializeInv
<1>7. CASE QueueInitialization
  <2>1. granted.items = {} /\ UNCHANGED granted
        /\ \A i \in DOMAIN tasks : tasks[i].kind = "Initialize"
    BY <1>7 DEF QueueInitialization, InitializeInv
  <2>2. \A i \in DOMAIN tasks' : tasks'[i].kind = "Initialize"
    <3>1. CASE initQueued
      BY <1>7, <2>1, <3>1 DEF QueueInitialization
    <3>2. CASE ~initQueued
      BY <1>7, <2>1, <3>2, AddTask, NewTasks DEF QueueInitialization, DataOK
    <3> QED BY <3>1, <3>2
  <2> QED BY <2>1, <2>2 DEF InitializeInv
<1> QED BY <1>1, <1>2, <1>3, <1>4, <1>5, <1>6, <1>7 DEF Next, Plugin

\* What a world owns is what it was granted: ownership and history are cleared together,
\* or while nothing is granted.
LEMMA OwnedStepInv ==
  DataOK /\ InstallInv /\ InitializeInv /\ OwnedByThisWorld /\ Next => OwnedByThisWorld'
<1> SUFFICES ASSUME DataOK, InstallInv, InitializeInv, OwnedByThisWorld, Next
             PROVE  OwnedByThisWorld'
  OBVIOUS
<1>1. CASE Game
  BY <1>1, GameSteps DEF OwnedByThisWorld
<1>2. CASE RunInitialize
  <2>1. granted.items = {}
    BY <1>2, TakeTask DEF RunInitialize, InitializeInv, DataOK
  <2>2. granted'.items = {}
    BY <1>2, <2>1 DEF RunInitialize, DataOK
  <2>3. CASE ClearOwnership
    BY <2>2, <2>3 DEF OwnedByThisWorld, ClearOwnership
  <2>4. CASE UNCHANGED <<ownedVars, granted>>
    BY <2>4 DEF OwnedByThisWorld
  <2> QED BY <1>2, <2>3, <2>4 DEF RunInitialize, ClearAndApply
<1>3. CASE RunGrant
  <2> DEFINE item == Head(tasks).item
  <2>1. CASE IsCurrent(Head(tasks)) /\ installed = "Yes" /\ policySet
    <3>1. Head(tasks).epoch = live
      BY <2>1 DEF IsCurrent
    <3>2. granted' = [granted EXCEPT !.items = @ \cup {item}]
      BY <1>3, <2>1, <3>1 DEF RunGrant
    <3>3. granted'.items = granted.items \cup {item} /\ granted'.cleared = granted.cleared
      BY <3>2 DEF DataOK
    <3>4. ownedKinds' \cup ownedRaces' = ownedKinds \cup ownedRaces \cup {item}
      BY <1>3, <2>1 DEF RunGrant, Grant
    <3> QED BY <3>3, <3>4 DEF OwnedByThisWorld
  <2>2. CASE ~(IsCurrent(Head(tasks)) /\ installed = "Yes" /\ policySet)
    BY <1>3, <2>2 DEF RunGrant, OwnedByThisWorld
  <2> QED BY <2>1, <2>2
<1>4. CASE RunReset
  BY <1>4 DEF RunReset, OwnedByThisWorld, ClearAndApply, ClearOwnership, NothingGranted
<1>5. CASE RunRefresh
  BY <1>5 DEF RunRefresh, OwnedByThisWorld
<1>6. CASE Remove
  BY <1>6 DEF Remove, OwnedByThisWorld, ClearOwnership, NothingGranted
<1>7. CASE Plugin /\ ~Remove
  BY <1>7 DEF Plugin, InstallHooks, FinishInstall, ObserveLoads, Handle, ResetState,
     UpdateUninitialized, QueueInitialization, QueueRefresh, OwnedByThisWorld
<1> QED BY <1>1, <1>2, <1>3, <1>4, <1>5, <1>6, <1>7 DEF Next, RunTask

-----------------------------------------------------------------------------
\* What is shown.

\* The switches the policy is applied to.
LEMMA SamePolicy == UNCHANGED managedKinds => UNCHANGED UnderPolicy
BY DEF UnderPolicy, IsKindManaged

\* Applying the policy with nothing owned turns everything under it off.
LEMMA NothingShown ==
  ASSUME NEW requests
  PROVE  PolicyShown(UnderPolicy, requests, {}) = shown \ UnderPolicy
BY DEF PolicyShown

\* A switch under the policy is on only for what is owned.
LEMMA EarnedStepInv ==
  DataOK /\ InstallInv /\ OnlyEarnedShown /\ Next => OnlyEarnedShown'
<1> SUFFICES ASSUME DataOK, InstallInv, OnlyEarnedShown, Next, policySet'
             PROVE  /\ \A s \in (shown' \cap UnderPolicy') \ UnhookedSwitches :
                         KindOf(s) \in ownedKinds'
                    /\ IsKindManaged("Races")' => shownRaces' \subseteq ownedRaces'
  BY DEF OnlyEarnedShown
<1>1. CASE \E kind \in kinds : GameSets(kind)
  <2> SUFFICES ASSUME NEW kind \in kinds, GameSets(kind)
               PROVE  /\ \A s \in (shown' \cap UnderPolicy') \ UnhookedSwitches :
                           KindOf(s) \in ownedKinds'
                      /\ IsKindManaged("Races")' => shownRaces' \subseteq ownedRaces'
    BY <1>1
  <2>1. /\ UNCHANGED <<managedKinds, ownedKinds, ownedRaces, shownRaces, policySet, installed>>
        /\ UNCHANGED UnderPolicy
    BY SamePolicy DEF GameSets
  <2>2. installed = "Yes" /\ kind \in Kinds
    BY <2>1, PolicySwitches DEF InstallInv
  <2>3. ASSUME NEW s \in UnderPolicy, s \in shown', s \notin shown
        PROVE  KindOf(s) \in ownedKinds
    <3>1. s \in SwitchesOf(kind)
      BY <2>3 DEF GameSets
    <3>2. KindOf(s) = kind /\ kind \in managedKinds
      BY <2>2, <3>1, PolicySwitches
    <3>3. Hooked(kind)
      BY <2>2, <3>2 DEF Hooked, IsKindManaged
    <3>4. Permits(kind)
      BY <2>3, <3>1, <3>3 DEF GameSets, Gate
    <3> QED BY <3>2, <3>4 DEF Permits, IsKindManaged
  <2> QED BY <2>1, <2>3 DEF OnlyEarnedShown, IsKindManaged
<1>2. CASE GameTogglesRaces
  <2>1. UNCHANGED <<managedKinds, ownedKinds, ownedRaces, shown, policySet, installed>>
        /\ UNCHANGED UnderPolicy
    BY <1>2, SamePolicy DEF GameTogglesRaces
  <2>2. IsKindManaged("Races") => Hooked("Races")
    BY <2>1 DEF InstallInv, Hooked
  <2>3. IsKindManaged("Races") => shownRaces' \subseteq ownedRaces
    BY <1>2, <2>2 DEF GameTogglesRaces, VisibleRaces, IsRaceClassEnabled
  <2> QED BY <2>1, <2>3 DEF OnlyEarnedShown, IsKindManaged
<1>3. CASE CollectiblesAppear \/ EndActivity
  <2>1. UNCHANGED <<managedKinds, ownedKinds, ownedRaces, shownRaces, policySet>>
        /\ UNCHANGED UnderPolicy
    BY <1>3, SamePolicy DEF CollectiblesAppear, EndActivity
  <2>2. shown' \subseteq shown \cup UnhookedSwitches
    BY <1>3 DEF CollectiblesAppear, EndActivity, UnhookedSwitches, CollectibleSwitches
  <2> QED BY <2>1, <2>2 DEF OnlyEarnedShown, IsKindManaged
<1>4. CASE LoadSave \/ FinishLoading \/ ChangeControl \/ BeginOrEndMission \/ StoryOpens
           \/ StartActivity
  <2>1. UNCHANGED <<managedKinds, ownedKinds, ownedRaces, shown, shownRaces, policySet>>
        /\ UNCHANGED UnderPolicy
    BY <1>4, SamePolicy DEF LoadSave, FinishLoading, ChangeControl, BeginOrEndMission,
       StoryOpens, StartActivity
  <2> QED BY <2>1 DEF OnlyEarnedShown, IsKindManaged
<1>5. CASE RunInitialize \/ RunReset
  <2>1. UNCHANGED managedKinds /\ UNCHANGED UnderPolicy
    BY <1>5, SamePolicy DEF RunInitialize, RunReset
  <2>2. CASE \E requests : ClearAndApply(requests)
    BY <2>1, <2>2, NothingShown DEF ClearAndApply, ClearOwnership, IsKindManaged
  <2>3. CASE UNCHANGED <<ownedVars, policySet, shown, shownRaces>>
    BY <2>1, <2>3 DEF OnlyEarnedShown, IsKindManaged
  <2> QED BY <1>5, <2>2, <2>3 DEF RunInitialize, RunReset
<1>6. CASE RunGrant
  <2> DEFINE item == Head(tasks).item
  <2>1. UNCHANGED <<managedKinds, policySet>> /\ UNCHANGED UnderPolicy
    BY <1>6, SamePolicy DEF RunGrant
  <2>2. CASE UNCHANGED <<ownedVars, shown, shownRaces>>
    BY <2>1, <2>2 DEF OnlyEarnedShown, IsKindManaged
  <2>3. CASE Grant(item) /\ item \in RaceClasses
    <3>1. /\ ownedRaces \subseteq ownedRaces' /\ UNCHANGED <<ownedKinds, shown>>
          /\ shownRaces' \subseteq shownRaces \cup ownedRaces'
      BY <2>3 DEF Grant, VisibleRaces
    <3> QED BY <2>1, <3>1 DEF OnlyEarnedShown, IsKindManaged
  <2>4. CASE Grant(item) /\ item \notin RaceClasses
    <3>1. /\ item \in ownedKinds' /\ ownedKinds \subseteq ownedKinds'
          /\ UNCHANGED <<ownedRaces, shownRaces>>
          /\ shown' \subseteq shown \cup SwitchesOf(item)
      BY <2>4 DEF Grant
    <3>2. item \in Kinds
      BY <1>6, <2>4, TakeTask, PolicySwitches DEF RunGrant, DataOK, InstallInv
    <3>3. \A s \in UnderPolicy \cap SwitchesOf(item) : KindOf(s) = item
      BY <3>2, PolicySwitches
    <3> QED BY <2>1, <3>1, <3>3 DEF OnlyEarnedShown, IsKindManaged
  <2> QED BY <1>6, <2>2, <2>3, <2>4 DEF RunGrant
<1>7. CASE RunRefresh
  <2>1. UNCHANGED <<managedKinds, policySet, ownedVars, shownRaces>> /\ UNCHANGED UnderPolicy
    BY <1>7, SamePolicy DEF RunRefresh
  <2>2. shown' \subseteq shown \cup CollectibleSwitches
    BY <1>7 DEF RunRefresh, PolicyShown
  <2> QED BY <2>1, <2>2 DEF OnlyEarnedShown, IsKindManaged, UnhookedSwitches
<1>8. CASE InstallHooks \/ FinishInstall \/ Remove
  BY <1>8 DEF InstallHooks, FinishInstall, Remove, InstallInv
<1>9. CASE ObserveLoads \/ Handle \/ ResetState \/ UpdateUninitialized \/ QueueInitialization
           \/ QueueRefresh
  <2>1. UNCHANGED <<managedKinds, policySet, ownedVars, shown, shownRaces>>
        /\ UNCHANGED UnderPolicy
    BY <1>9, SamePolicy DEF ObserveLoads, Handle, ResetState, UpdateUninitialized,
       QueueInitialization, QueueRefresh
  <2> QED BY <2>1 DEF OnlyEarnedShown, IsKindManaged
<1> QED BY <1>1, <1>2, <1>3, <1>4, <1>5, <1>6, <1>7, <1>8, <1>9 DEF Next, Game, RunTask, Plugin

-----------------------------------------------------------------------------
\* What is remembered and shown.

\* What the game wants of a kind changes only with a call it then owes.
LEMMA WantsOwed ==
  ASSUME Game, ~LoadSave, NEW kind \in kinds, kind \notin owed'
  PROVE  Wants(kind)' <=> Wants(kind)
<1>1. CASE BeginOrEndMission
  <2>1. kind \notin MissionKinds /\ kind \notin StoryKinds
    BY <1>1 DEF BeginOrEndMission, MissionKinds
  <2> QED BY <2>1 DEF Wants
<1>2. CASE StoryOpens
  <2>1. kind \notin StoryKinds /\ UNCHANGED mission
    BY <1>2 DEF StoryOpens
  <2> QED BY <2>1 DEF Wants, Freeroam
<1>3. CASE UNCHANGED <<mission, story>>
  BY <1>3 DEF Wants, Freeroam
<1>4. BeginOrEndMission \/ StoryOpens \/ UNCHANGED <<mission, story>>
  BY DEF Game, FinishLoading, ChangeControl, CollectiblesAppear, StartActivity, EndActivity,
     GameTogglesRaces, GameSets
<1> QED BY <1>1, <1>2, <1>3, <1>4

\* The requests an initialisation assumes are those the game has made.
LEMMA InitialNativeIsWanted ==
  ASSUME DataOK, NEW s \in Remembered \cap Present
  PROVE  s \in InitialNative <=> Wants(KindOf(s))
<1>1. KindOf(s) \in Kinds /\ s \in SwitchesOf(KindOf(s))
  BY KindOfSwitch DEF Remembered
<1>2. KindOf(s) = "Hoing" <=> s = "HoingTriggers"
  BY <1>1, CollectibleKinds
<1> QED BY <1>2 DEF InitialNative, Wants, StoryActivitiesOpen, MissionKinds, StoryKinds

\* The races, whose one switch is a toggle.
LEMMA RacesToggle ==
  /\ Remembered \cap SwitchesOf("Races") = {"RaceToggle"}
  /\ "RaceToggle" \notin UnderPolicy
  /\ "Races" \in kinds => "RaceToggle" \in Remembered \cap Present
<1>1. SwitchesOf("Races") = {"RaceToggle"} /\ "Races" \in Kinds
  BY CollectibleKinds DEF Kinds, AlwaysManagedKinds
<1>2. "RaceToggle" \in Remembered
  BY <1>1 DEF Remembered, Switches
<1> QED BY <1>1, <1>2 DEF UnderPolicy, Present

\* A load has every switch under the policy set again.
LEMMA LoadSetsAll ==
  ASSUME DataOK, LoadSave
  PROVE  /\ \A s \in UnderPolicy : KindOf(s) \in owed'
         /\ "Races" \in managedKinds => "Races" \in owed'
<1>1. \A kind \in Kinds : SwitchesOf(kind) # {} => kind \in SwitchedKinds
  BY DEF Kinds, AlwaysManagedKinds, JobKinds, SwitchesOf, SwitchedKinds, MissionKinds, StoryKinds
<1>2. \A s \in UnderPolicy : KindOf(s) \in kinds \cap SwitchedKinds
  BY <1>1, PolicySwitches DEF DataOK
<1>3. "Races" \in SwitchedKinds
  BY DEF SwitchedKinds, MissionKinds, StoryKinds
<1> QED BY <1>2, <1>3 DEF LoadSave, DataOK

\* Settled switches stay settled when nothing they depend on changes.
LEMMA StaysSettled ==
  ASSUME NEW s, SettledSwitch(s), Wants(KindOf(s))' <=> Wants(KindOf(s)),
         s \in native' <=> s \in native,
         KindOf(s) \in ownedKinds' => KindOf(s) \in ownedKinds,
         s \in shown => s \in shown'
  PROVE  SettledSwitch(s)'
BY DEF SettledSwitch

LEMMA RacesStaySettled ==
  ASSUME SettledRaces, Wants("Races")' <=> Wants("Races"),
         "RaceToggle" \in native' <=> "RaceToggle" \in native,
         ownedRaces' = ownedRaces, shownRaces \subseteq shownRaces', raceTable' = raceTable
  PROVE  SettledRaces'
BY DEF SettledRaces

\* A call of the game leaves its kind's switches as the game wants them.
LEMMA GameSetsSettles ==
  ASSUME DataOK, InstallInv, policySet, NEW kind \in kinds, GameSets(kind),
         NEW s \in UnderPolicy, KindOf(s) = kind
  PROVE  SettledSwitch(s)'
<1>1. s \in SwitchesOf(kind) /\ s \in Remembered /\ kind \in managedKinds
  BY PolicySwitches
<1>2. Hooked(kind) /\ IsKindManaged(kind)
  BY <1>1 DEF InstallInv, Hooked, IsKindManaged
<1>3. Wants(kind)' <=> Wants(kind)
  BY DEF GameSets, Wants, Freeroam
<1>4. s \in native' <=> Wants(kind)
  BY <1>1, <1>2 DEF GameSets, NativeAfter
<1>5. kind \in ownedKinds' /\ Wants(kind) => s \in shown'
  BY <1>1, <1>2 DEF GameSets, Gate, Permits
<1> QED BY <1>3, <1>4, <1>5 DEF SettledSwitch

LEMMA TogglesSettle ==
  ASSUME DataOK, InstallInv, policySet, GameTogglesRaces, "Races" \in managedKinds
  PROVE  SettledRaces'
<1>1. Hooked("Races")
  BY DEF InstallInv, Hooked, IsKindManaged
<1>2. Wants("Races")' <=> Wants("Races")
  BY DEF GameTogglesRaces, Wants, Freeroam
<1>3. "RaceToggle" \in native' <=> Wants("Races")
  BY <1>1, RacesToggle DEF GameTogglesRaces, NativeAfter
<1>4. raceTable /\ Wants("Races") => shownRaces' = {c \in RaceClasses : c \in ownedRaces}
  BY <1>1 DEF GameTogglesRaces, VisibleRaces, IsRaceClassEnabled
<1>5. UNCHANGED <<raceTable, ownedRaces>>
  BY DEF GameTogglesRaces
<1> QED BY <1>2, <1>3, <1>4, <1>5 DEF SettledRaces, DataOK

\* A grant shows what the game wants, since it knows of every request.
LEMMA GrantShows ==
  ASSUME DataOK, InstallInv, NativeInv, policySet, NEW item \in managedKinds,
         item \notin RaceClasses, Grant(item),
         NEW s \in UnderPolicy, KindOf(s) = item, item \notin owed, Wants(item)
  PROVE  s \in shown'
<1>1. s \in SwitchesOf(item) /\ s \in Remembered /\ item \in Kinds
  BY PolicySwitches
<1>2. ASSUME NEW t \in Remembered \cap SwitchesOf(item)
      PROVE  t \in native
  <2>1. KindOf(t) = item
    BY <1>1, KindOfSwitch
  <2>2. t # "RaceToggle"
    <3>1. item # "Races"
      BY <1>1, CollectibleKinds DEF UnderPolicy
    <3> QED BY <2>1, <3>1, CollectibleKinds
  <2>3. t \in UnderPolicy
    BY <2>1, <2>2 DEF UnderPolicy, IsKindManaged
  <2> QED BY <2>1, <2>3 DEF NativeInv, SettledSwitch
<1>3. ShownAtOnce(item)
  BY <1>2 DEF ShownAtOnce, Wants, StoryActivitiesOpen, MissionKinds
<1> QED BY <1>1, <1>3 DEF Grant

LEMMA GrantShowsRaces ==
  ASSUME DataOK, NativeInv, policySet, NEW item \in RaceClasses, Grant(item),
         "Races" \in managedKinds \ owed, raceTable, Wants("Races")
  PROVE  ownedRaces' \subseteq shownRaces'
<1>1. "RaceToggle" \in native
  BY DEF NativeInv, SettledRaces
<1>2. ShownAtOnce("Races")
  BY <1>1, RacesToggle DEF ShownAtOnce, Wants, StoryActivitiesOpen, StoryKinds, MissionKinds
<1> QED BY <1>2 DEF Grant, VisibleRaces

\* The game and the plugin keep what is remembered and shown in step.
LEMMA NativeStepInv ==
  DataOK /\ InstallInv /\ NativeInv /\ Next => NativeInv'
<1> SUFFICES ASSUME DataOK, InstallInv, NativeInv, Next, policySet'
             PROVE  /\ \A s \in UnderPolicy' : KindOf(s) \notin owed' => SettledSwitch(s)'
                    /\ "Races" \in managedKinds' \ owed' => SettledRaces'
  BY DEF NativeInv
<1>1. CASE LoadSave
  <2>1. UNCHANGED managedKinds /\ UNCHANGED UnderPolicy
    BY <1>1, SamePolicy DEF LoadSave
  <2> QED BY <1>1, <2>1, LoadSetsAll
<1>2. CASE \/ FinishLoading \/ ChangeControl \/ BeginOrEndMission \/ StoryOpens
           \/ CollectiblesAppear \/ StartActivity \/ EndActivity
  <2>1. /\ UNCHANGED <<raceTable, managedKinds, native, ownedKinds, ownedRaces, policySet, shownRaces>>
        /\ UNCHANGED UnderPolicy /\ owed \subseteq owed' /\ shown \subseteq shown'
    BY <1>2, SamePolicy DEF FinishLoading, ChangeControl, BeginOrEndMission, StoryOpens,
       CollectiblesAppear, StartActivity, EndActivity
  <2>2. Game /\ ~LoadSave
    <3>1. Game
      BY <1>2 DEF Game
    <3>2. ~LoadSave
      BY <1>2 DEF LoadSave, FinishLoading, ChangeControl, BeginOrEndMission, StoryOpens,
         CollectiblesAppear, StartActivity, EndActivity, DataOK
    <3> QED BY <3>1, <3>2
  <2>3. ASSUME NEW s \in UnderPolicy, KindOf(s) \notin owed'
        PROVE  SettledSwitch(s)'
    <3>1. KindOf(s) \in kinds
      BY PolicySwitches DEF DataOK
    <3>2. Wants(KindOf(s))' <=> Wants(KindOf(s))
      BY <2>2, <2>3, <3>1, WantsOwed
    <3>3. SettledSwitch(s)
      BY <2>1, <2>3 DEF NativeInv
    <3> QED BY <2>1, <3>2, <3>3, StaysSettled
  <2>4. ASSUME "Races" \in managedKinds \ owed'
        PROVE  SettledRaces'
    <3>1. Wants("Races")' <=> Wants("Races")
      BY <2>2, <2>4, WantsOwed DEF DataOK
    <3>2. SettledRaces
      BY <2>1, <2>4 DEF NativeInv
    <3> QED BY <2>1, <3>1, <3>2, RacesStaySettled
  <2> QED BY <2>1, <2>3, <2>4
<1>3. CASE \E kind \in kinds : GameSets(kind)
  <2> SUFFICES ASSUME NEW kind \in kinds, GameSets(kind)
               PROVE  /\ \A s \in UnderPolicy' : KindOf(s) \notin owed' => SettledSwitch(s)'
                      /\ "Races" \in managedKinds' \ owed' => SettledRaces'
    BY <1>3
  <2>1. /\ UNCHANGED <<raceTable, managedKinds, ownedKinds, ownedRaces, policySet, shownRaces>>
        /\ UNCHANGED UnderPolicy /\ UNCHANGED <<mission, story>>
        /\ owed' = owed \ {kind} /\ kind # "Races"
    BY SamePolicy DEF GameSets
  <2>2. \A k : Wants(k)' <=> Wants(k)
    BY <2>1 DEF Wants, Freeroam
  <2>3. kind \in Kinds
    BY PolicySwitches
  <2>4. ASSUME NEW t, t \notin SwitchesOf(kind)
        PROVE  (t \in native' <=> t \in native) /\ (t \in shown' <=> t \in shown)
    BY <2>4 DEF GameSets, NativeAfter
  <2>5. ASSUME NEW s \in UnderPolicy, KindOf(s) \notin owed', KindOf(s) # kind
        PROVE  SettledSwitch(s)'
    <3>1. s \notin SwitchesOf(kind)
      BY <2>3, <2>5, PolicySwitches
    <3>2. SettledSwitch(s)
      BY <2>1, <2>5 DEF NativeInv
    <3> QED BY <2>1, <2>2, <2>4, <3>1, <3>2, StaysSettled
  <2>6. "Races" \in managedKinds \ owed' => SettledRaces'
    <3> SUFFICES ASSUME "Races" \in managedKinds \ owed' PROVE SettledRaces'
      OBVIOUS
    <3>1. "RaceToggle" \notin SwitchesOf(kind)
      BY <2>1, <2>3, KindOfSwitch, CollectibleKinds
    <3>2. SettledRaces
      BY <2>1 DEF NativeInv
    <3> QED BY <2>1, <2>2, <2>4, <3>1, <3>2, RacesStaySettled
  <2> QED BY <2>1, <2>5, <2>6, GameSetsSettles
<1>4. CASE GameTogglesRaces
  <2>1. /\ UNCHANGED <<managedKinds, ownedKinds, shown, policySet, mission, story>>
        /\ UNCHANGED UnderPolicy /\ owed' = owed \ {"Races"}
    BY <1>4, SamePolicy DEF GameTogglesRaces
  <2>2. \A k : Wants(k)' <=> Wants(k)
    BY <2>1 DEF Wants, Freeroam
  <2>3. ASSUME NEW s \in UnderPolicy, KindOf(s) \notin owed'
        PROVE  SettledSwitch(s)'
    <3>1. s # "RaceToggle" /\ KindOf(s) # "Races"
      BY PolicySwitches, RacesToggle, CollectibleKinds
    <3>2. s \in native' <=> s \in native
      BY <1>4, <3>1, CollectibleKinds DEF GameTogglesRaces, NativeAfter
    <3>3. SettledSwitch(s)
      BY <2>1, <2>3, <3>1 DEF NativeInv
    <3> QED BY <2>1, <2>2, <3>2, <3>3, StaysSettled
  <2> QED BY <1>4, <2>1, <2>3, TogglesSettle
<1>5. CASE UNCHANGED <<raceTable, mission, story, owed, managedKinds, native, ownedKinds,
                       ownedRaces, policySet, shown, shownRaces>>
  <2>1. UNCHANGED UnderPolicy /\ (\A k : Wants(k)' <=> Wants(k))
    BY <1>5, SamePolicy DEF Wants, Freeroam
  <2> QED BY <1>5, <2>1, StaysSettled, RacesStaySettled DEF NativeInv
<1>6. CASE RunInitialize \/ RunReset
  <2>1. UNCHANGED <<raceTable, mission, story, owed, managedKinds>> /\ UNCHANGED UnderPolicy
    BY <1>6, SamePolicy DEF RunInitialize, RunReset
  <2>2. \A k : Wants(k)' <=> Wants(k)
    BY <2>1 DEF Wants, Freeroam
  <2>3. CASE UNCHANGED <<policyVars, shown, shownRaces>>
    BY <1>5, <2>1, <2>3
  <2>4. CASE native' = InitialNative /\ ClearOwnership
    <3>1. \A s \in UnderPolicy : s \in native' <=> Wants(KindOf(s))'
      BY <2>2, <2>4, InitialNativeIsWanted, PolicySwitches
    <3>2. "Races" \in managedKinds => ("RaceToggle" \in native' <=> Wants("Races")')
      BY <2>2, <2>4, InitialNativeIsWanted, RacesToggle, CollectibleKinds DEF DataOK
    <3> QED BY <2>1, <2>4, <3>1, <3>2 DEF ClearOwnership, SettledSwitch, SettledRaces
  <2>5. CASE UNCHANGED <<native, policySet>> /\ ClearOwnership
    BY <2>1, <2>2, <2>5 DEF NativeInv, ClearOwnership, SettledSwitch, SettledRaces
  <2> QED BY <1>6, <2>3, <2>4, <2>5 DEF RunInitialize, RunReset, ClearAndApply
<1>7. CASE RunGrant
  <2> DEFINE item == Head(tasks).item
  <2>1. /\ UNCHANGED <<raceTable, mission, story, owed, managedKinds, native, policySet>>
        /\ UNCHANGED UnderPolicy
    BY <1>7, SamePolicy DEF RunGrant
  <2>2. \A k : Wants(k)' <=> Wants(k)
    BY <2>1 DEF Wants, Freeroam
  <2>3. CASE UNCHANGED <<ownedVars, shown, shownRaces>>
    BY <1>5, <2>1, <2>3
  <2>4. CASE Grant(item) /\ item \in RaceClasses
    <3>1. UNCHANGED <<ownedKinds, shown>>
      BY <2>4 DEF Grant
    <3>2. \A s \in UnderPolicy : KindOf(s) \notin owed => SettledSwitch(s)'
      BY <2>1, <2>2, <3>1, StaysSettled DEF NativeInv
    <3>3. "Races" \in managedKinds \ owed => SettledRaces'
      BY <2>1, <2>2, <2>4, GrantShowsRaces DEF NativeInv, SettledRaces
    <3> QED BY <2>1, <3>2, <3>3
  <2>5. CASE Grant(item) /\ item \notin RaceClasses
    <3>1. /\ ownedKinds' = ownedKinds \cup {item} /\ shown \subseteq shown'
          /\ UNCHANGED <<ownedRaces, shownRaces>>
      BY <2>5 DEF Grant
    <3>2. item \in managedKinds
      BY <1>7, <2>5, TakeTask DEF RunGrant, DataOK, InstallInv
    <3>3. ASSUME NEW s \in UnderPolicy, KindOf(s) \notin owed
          PROVE  SettledSwitch(s)'
      <4>1. SettledSwitch(s)
        BY <2>1, <3>3 DEF NativeInv
      <4>2. CASE KindOf(s) = item
        BY <2>1, <2>2, <2>5, <3>2, <3>3, <4>1, <4>2, GrantShows DEF SettledSwitch
      <4>3. CASE KindOf(s) # item
        BY <2>1, <2>2, <3>1, <4>1, <4>3, StaysSettled
      <4> QED BY <4>2, <4>3
    <3>4. "Races" \in managedKinds \ owed => SettledRaces'
      BY <2>1, <2>2, <3>1, RacesStaySettled DEF NativeInv
    <3> QED BY <2>1, <3>3, <3>4
  <2> QED BY <1>7, <2>3, <2>4, <2>5 DEF RunGrant
<1>8. CASE RunRefresh
  <2>1. /\ UNCHANGED <<raceTable, mission, story, owed, managedKinds, native, ownedKinds,
                       ownedRaces, policySet, shownRaces>>
        /\ UNCHANGED UnderPolicy
    BY <1>8, SamePolicy DEF RunRefresh
  <2>2. \A k : Wants(k)' <=> Wants(k)
    BY <2>1 DEF Wants, Freeroam
  <2>3. ASSUME NEW s \in UnderPolicy, KindOf(s) \notin owed
        PROVE  SettledSwitch(s)'
    <3>1. SettledSwitch(s)
      BY <2>1, <2>3 DEF NativeInv
    <3>2. KindOf(s) \in ownedKinds /\ Wants(KindOf(s)) => s \in shown'
      BY <1>8, <3>1 DEF RunRefresh, PolicyShown, SettledSwitch
    <3> QED BY <2>1, <2>2, <3>1, <3>2 DEF SettledSwitch
  <2>4. "Races" \in managedKinds \ owed => SettledRaces'
    BY <2>1, <2>2, RacesStaySettled DEF NativeInv
  <2> QED BY <2>1, <2>3, <2>4
<1>9. CASE InstallHooks \/ FinishInstall \/ Remove
  BY <1>9 DEF InstallHooks, FinishInstall, Remove, InstallInv
<1>10. CASE ObserveLoads \/ Handle \/ ResetState \/ UpdateUninitialized \/ QueueInitialization
            \/ QueueRefresh
  BY <1>5, <1>10 DEF ObserveLoads, Handle, ResetState, UpdateUninitialized, QueueInitialization,
     QueueRefresh
<1> QED BY <1>1, <1>2, <1>3, <1>4, <1>6, <1>7, <1>8, <1>9, <1>10 DEF Next, Game, RunTask, Plugin

-----------------------------------------------------------------------------
\* The theorems.

LEMMA StepLemma == IInv /\ [Next]_vars => IInv'
<1> SUFFICES ASSUME IInv, [Next]_vars PROVE IInv'
  OBVIOUS
<1>1. CASE Next
  <2>1. DataOK' /\ FlagOK' /\ InstallInv' /\ InitializeInv'
    BY <1>1, DataStep, FlagStep, InstallStepInv, InitializeStepInv DEF IInv
  <2>2. OwnedByThisWorld' /\ OnlyEarnedShown' /\ NativeInv'
    BY <1>1, OwnedStepInv, EarnedStepInv, NativeStepInv DEF IInv
  <2> QED BY <2>1, <2>2 DEF IInv
<1>2. CASE UNCHANGED vars
  <2> USE <1>2 DEF vars
  <2>1. DataOK' /\ UNCHANGED UnderPolicy /\ (\A kind : Wants(kind)' <=> Wants(kind))
    BY DEF IInv, DataOK, Present, UnderPolicy, IsKindManaged, Wants, Freeroam
  <2>2. FlagOK' /\ InstallInv' /\ InitializeInv' /\ OwnedByThisWorld'
    BY DEF IInv, FlagOK, InstallInv, InitializeInv, OwnedByThisWorld
  <2>3. OnlyEarnedShown'
    BY <2>1 DEF IInv, OnlyEarnedShown, IsKindManaged
  <2>4. NativeInv'
    BY <2>1, StaysSettled, RacesStaySettled DEF IInv, NativeInv
  <2> QED BY <2>1, <2>2, <2>3, <2>4 DEF IInv
<1> QED BY <1>1, <1>2

\* The inductive invariant holds in every state of every behaviour.
THEOREM Invariance == Spec => []IInv
<1> QED BY InitLemma, StepLemma, PTL DEF Spec

\* The variables keep their types.
THEOREM TypeCorrect == Spec => []TypeOK
<1>1. IInv => TypeOK
  BY TypeHalves DEF IInv
<1> QED BY <1>1, Invariance, PTL

\* Once the policy is set, nothing is on that the slot has not received
\* (the hooks and ApplyCurrentPolicy).
THEOREM ShownIsEarned == Spec => []OnlyEarnedShown
<1>1. IInv => OnlyEarnedShown
  BY DEF IInv
<1> QED BY <1>1, Invariance, PTL

\* Nothing received is lost: when the game owes no call, it is on wherever the game
\* would have it on (the remembered requests and what a grant makes of them).
THEOREM EarnedIsShown == Spec => []WantedIsShown
<1>1. IInv => WantedIsShown
  <2> SUFFICES ASSUME IInv, policySet, owed = {}
               PROVE  /\ \A s \in UnderPolicy :
                           KindOf(s) \in ownedKinds /\ Wants(KindOf(s)) => s \in shown
                      /\ IsKindManaged("Races") /\ raceTable /\ Wants("Races")
                           => ownedRaces \subseteq shownRaces
    BY DEF WantedIsShown
  <2> QED BY DEF IInv, NativeInv, SettledSwitch, SettledRaces, IsKindManaged
<1> QED BY <1>1, Invariance, PTL

\* Ownership is what the loaded world was granted since its last reset.
THEOREM OwnershipFollowsWorld == Spec => []OwnedByThisWorld
<1>1. IInv => OwnedByThisWorld
  BY DEF IInv
<1> QED BY <1>1, Invariance, PTL

\* What starts was granted in the loaded world: for a switch that starts it, because
\* only what is owned is shown; for a job, a jump or ho-ing, because the hook asks for
\* ownership; and what is owned was granted here, whatever loads and resets came.
LEMMA StartIsGranted ==
  ASSUME DataOK, OnlyEarnedShown, OwnedByThisWorld, InstallInv,
         policySet, granted.cleared, StartActivity,
         playing' \in managedKinds \ {"Cd", "Tags"}
  PROVE  GrantedHere(playing')
<1> DEFINE kind == playing'
<1>1. Starts(kind) /\ kind \in kinds
  BY DEF StartActivity
<1>2. kind \in Kinds /\ installed = "Yes"
  BY <1>1, WorldUnlocksAssumption DEF DataOK, InstallInv
<1>3. ownedKinds \cup ownedRaces = granted.items
  BY DEF OwnedByThisWorld
<1> HIDE DEF kind
<1>4. CASE kind \in JobKinds \cup {"Hoing", "StuntJumps"}
  <2>1. Hooked(kind) => Permits(kind)
    BY <1>1, <1>4 DEF Starts, JobStarts, HoingStarts, StuntJumpArms, JobKinds
  <2>2. kind \in ownedKinds
    BY <1>2, <2>1 DEF Hooked, Permits, IsKindManaged, kind
  <2>3. kind # "Races"
    BY <1>4 DEF JobKinds
  <2> QED BY <1>3, <2>2, <2>3 DEF GrantedHere, kind
<1>5. CASE kind \in {"Hitman", "ChopShop"}
  <2>1. PICK s \in {"HitmanAll", "ChopShopAll"} : s \in shown /\ s \in SwitchesOf(kind)
    BY <1>1, <1>5 DEF Starts, SwitchesOf, JobKinds
  <2>2. KindOf(s) = kind /\ s \in Switches
    BY <1>2, <2>1, KindOfSwitch
  <2>3. s \in UnderPolicy \ UnhookedSwitches
    BY <2>1, <2>2 DEF UnderPolicy, Remembered, IsKindManaged, UnhookedSwitches,
                      CollectibleSwitches, kind
  <2>4. kind \in ownedKinds
    BY <2>1, <2>2, <2>3 DEF OnlyEarnedShown
  <2> QED BY <1>3, <1>5, <2>4 DEF GrantedHere, kind
<1>6. CASE kind = "Races"
  <2>1. shownRaces # {} /\ shownRaces \subseteq ownedRaces
    BY <1>1, <1>6 DEF Starts, JobKinds, OnlyEarnedShown, IsKindManaged, kind
  <2> QED BY <1>3, <1>6, <2>1 DEF GrantedHere, DataOK, kind
<1>7. kind \in JobKinds \cup {"Hoing", "StuntJumps", "Hitman", "ChopShop", "Races"}
  BY <1>2 DEF Kinds, AlwaysManagedKinds, kind
<1> QED BY <1>4, <1>5, <1>6, <1>7

\* Only a start makes the player be in an activity.
LEMMA OnlyStartsBegin ==
  ASSUME Next
  PROVE  StartActivity \/ playing' \in {playing, "None"}
<1>1. CASE Game
  BY <1>1 DEF Game, LoadSave, FinishLoading, ChangeControl, BeginOrEndMission, StoryOpens,
     CollectiblesAppear, EndActivity, GameTogglesRaces, GameSets
<1>2. CASE RunTask
  BY <1>2 DEF RunTask, RunInitialize, RunGrant, RunReset, RunRefresh
<1>3. CASE Plugin
  BY <1>3 DEF Plugin, InstallHooks, FinishInstall, Remove, ObserveLoads, Handle, ResetState,
     UpdateUninitialized, QueueInitialization, QueueRefresh
<1> QED BY <1>1, <1>2, <1>3 DEF Next

\* No activity of any kind but the collectibles starts that the loaded world was not
\* granted (the hooks on starts and switches with the ownership they ask).
THEOREM StartsAreGranted == Spec => OnlyGrantedStarts
<1> DEFINE Granted ==
             playing = "None" /\ playing' \in managedKinds \ {"Cd", "Tags"}
               /\ policySet /\ granted.cleared
             => GrantedHere(playing')
<1>1. ASSUME IInv, Next PROVE Granted
  <2>1. managedKinds \subseteq Kinds
    BY <1>1, WorldUnlocksAssumption DEF IInv, DataOK
  <2>2. "None" \notin managedKinds
    BY <2>1 DEF Kinds, AlwaysManagedKinds, JobKinds
  <2>3. CASE StartActivity
    BY <1>1, <2>3, StartIsGranted DEF IInv
  <2>4. CASE playing' \in {playing, "None"}
    BY <2>2, <2>4
  <2> QED BY <1>1, <2>3, <2>4, OnlyStartsBegin
<1>2. IInv /\ [Next]_vars => [Granted]_vars
  BY <1>1
<1>3. [][Granted]_vars => OnlyGrantedStarts
  BY PTL DEF OnlyGrantedStarts
<1> QED BY <1>2, <1>3, Invariance, PTL DEF Spec
=============================================================================
