# A specification of the Saints Row 2 Archipelago integration

TLA+ modules, model-checking instances and machine-checked proofs for the
program in `src/`: a plugin that runs inside Saints Row 2 (C++ with a Rust
core), an Archipelago (AP) client that talks to it over TCP (Python), and the
bookkeeping on both sides that gives every save of the game its own position in
the stream of received items.

## 1. The system

A slot of an AP multiworld receives *items* in a fixed order, numbered from 0.
The game has no idea of them: a save made at one moment contains the effect of
the items received until then, and loading an older save takes effects back. So
each city save, known by its checksum, has a *cursor*: how many items its world
contains. The plugin asks for the cursor of a save that is loaded, delivery goes
on from there one acknowledged item at a time, and a save that is written is
recorded with the cursor of the world it was written from. What the game does
not keep in a save (the *persistent items*, such as unlocked activities) is
reset and applied again after each load.

| Component | State it keeps | Operations |
|---|---|---|
| Session runtime (`rust/src/session/`) | latched session, delivery context (waiting, provisional, awaiting its cursor, active), cursor, restore state, the pending request and its id, notifications, received deaths | what the game did, `next_request`, the lines of the client, results and completions |
| Revision journal (`revision_journal.rs`, `revision_sync.rs`) | per session and checksum: snapshot (cursor, persistent items) and revision not acknowledged; one JSON file | record, store, acknowledge, write atomically, read at start |
| TCP link (`tcp_client.rs`) | outgoing queue, queue of events, connection | connect, hello, read, write, reconnect after 2 s |
| Event queue and epochs (`util/GameEvents.cpp`) | events, live epoch, observed epoch | push from hooks and tasks, drain, invalidate, may an item apply |
| Plugin loop and glue (`Plugin.cpp`, `runtime/SessionRuntime.cpp`) | readiness seen in this turn | read, drain, process, readiness, poll, start requests; every 50 ms |
| Dispatcher and item handlers (`game/`, `game/item_handlers/`) | frame tasks and the running batch, what each handler did to the game | install, handle, update, reset, remove; run a batch on the game thread |
| Hooked activities (`HookActivityUnlockController`) | what the slot owns, what the game last asked of each switch, the policy | hooks on switches, triggers and starts; initialise, grant, reset, refresh |
| Save monitor (`SaveRevisionMonitor.cpp`) | none that is shared | the load and the save hook |
| Death link (`DeathMonitor`, `DeathSuppression`, `DeathLinkController`) | armed suppression, running attempt | report a death, carry out a received one |
| Controllers (`game/controllers/`) | backlog and allowances, permits, weather stages | hooks on the game's own unlocks, respect and loads |
| Progression (`progression/`, `JobLevelMonitor`) | one baseline per reader | read the game's tables, report changes, forget the baselines when a session starts |
| Progression in the client (`progression.py`, `context.py`) | observed and submitted locations, counts, goal | map events to locations, submit, submit again after a lost connection |
| AP client bridge (`bridge.py`) | hello, session_sent, live cursor, awaited acknowledgement, generation | handlers of lines, `send_session_ready`, `deliver_items` |
| Context and sync loop (`context.py`) | AP connection, received items, sync event | server packages, `sync_loop` |
| Save synchronisation (`save_sync.py`), ledger (`revisions.py`) | ledger file, server mirror | resolve a context, accept a revision, persist, mirror |
| Randomizer world, patcher, HUD, config, logger | | not part of the delivery protocol |

Who talks to whom: the **game thread** runs the hooks and the frame tasks and
pushes events. The **plugin thread** drains them, calls the session runtime, and
turns its requests into frame tasks. The **TCP worker** moves lines between the
session runtime and the client. The client is one **asyncio** program whose
tasks (the reader of the plugin's lines, the server's packages, `sync_loop`)
interleave at `await`s that suspend. The **AP server** keeps the items and a
mirror of the ledger.

What is hard: an item is applied by another thread, frames after it was
requested, and the world it was meant for may be gone by then; three files
(save, journal, ledger) and a server mirror are written at different moments and
any process may die in between; lines are lost, acknowledgements are late, items
are sent again; the sync loop must never miss a wake-up. `PROJECT.json` lists
these hazards at their lines, with the property for each.

What makes each component correct:

* session runtime: a pending request always fits the delivery and restore state
  its result meets; the cursor moves only by applied items; policies stay latched;
* journal: what delivery decides with is on disk; a known save is never forgotten;
  a revision and its snapshot agree;
* event queue, loop, handlers: each item is applied once to each world, in order;
  the cursor counts them; the persistent items are exactly those of the world;
* client and link: the client never sends past the cursor of a plugin that takes
  items; its ledger agrees with the journal; every item ends up applied;
* handlers and controllers: an item takes effect once, in the world it was meant
  for, and its answer is true; what the game does by itself (its own unlocks,
  checkpoints, missions, streaming) neither gives nor takes what the slot owns;
* progression: a check is submitted only for a deed, and every deed is checked.

## 2. Modules

| Module | Models | Uses |
|---|---|---|
| `SlotData` | constants both sides know: checksums, items, policy, largest index | |
| `SessionRuntime` | the Rust session core with the journal | `SlotData` |
| `ItemDelivery` | plugin thread, game thread, event queue, save files around the runtime | `SessionRuntime` |
| `PluginBridge` | the AP client's side | `SlotData` |
| `ClientLink` | runtime and bridge over the TCP link | `SessionRuntime`, `PluginBridge` |
| `DeathLink` | deaths in both directions, on the plugin and the game thread | |
| `WorldUnlocks` | hooked activities, collectibles and diversions, and their handler | |
| `ItemHandlers` | dispatcher, manager, the other handlers and their controllers | |
| `Progression` | from the game's tables to the checks of the slot | |
| `OrderedDelivery` | the abstract specification of what `ItemDelivery` promises | |
| `SessionRuntime_proofs` | theorems on `SessionRuntime` | `SessionRuntime`, `TLAPS` |
| `OrderedDelivery_proofs` | a theorem on `OrderedDelivery` | `OrderedDelivery`, `TLAPS` |
| `ItemDelivery_proofs` | theorems on `ItemDelivery`, the refinement among them | `ItemDelivery`, `SessionRuntime_proofs`, `OrderedDelivery_proofs` |
| `ClientLink_proofs` | theorems on `ClientLink` | `ClientLink`, `SessionRuntime_proofs` |
| `DeathLink_proofs` | theorems on `DeathLink` | `DeathLink`, `TLAPS` |
| `WorldUnlocks_proofs` | theorems on `WorldUnlocks` | `WorldUnlocks`, `TLAPS` |
| `ItemHandlers_proofs` | theorems on `ItemHandlers` | `ItemHandlers`, `TLAPS` |
| `Progression_proofs` | theorems on `Progression` | `Progression`, `TLAPS` |
| `MC*` | instances for TLC | |

`SessionRuntime` is written once and driven by three environments: `Next` lets
the game, the C++ side and the client do anything at any time (what is proved
holds under it, so in the other two as well); `ItemDelivery` replaces the game
and C++ side by the real threads; `ClientLink` replaces the client by the real
client.

**SessionRuntime.** Variables are the fields of the Rust struct and of its
`Delivery` and `RevisionSync`; `disk` is the journal file. One plugin thread
calls every method, so a method is one action, except `next_request`: it handles
restore work first and then drains lines until one yields a request. That is
`NextRequest` (its first part), then one action per event while `draining`, and
`DrainEnds`; every other method requires `~draining`. `sent` is the set of lines
the last action queued. `staleDeath` is history: a death went on waiting when a
load, the menu or a reading without gameplay had ended its world. `save_written` is `SaveWritten`/`IgnoreSaveWritten`,
`report_result` is `ReportResult` with one disjunct per kind of request,
`complete_request` is `CompleteRequest`. `Restart` is the end of the process at
any moment: `disk` is left, and read again unless it has grown past its limit.
`PersistOutcomes` says whether writing can fail.

**ItemDelivery.** The threads meet in the event queue, the task queue, the two
epochs and the readiness that the loop reads once per turn (`seen`), so a step is
what one thread does between two such meetings: `ReadContext`, `DrainQueue`
(drain and observe the epoch, one mutex), one `ProcessEvent` each, `UpdateWorld`,
then the requests. `world` is the loaded world as the multiset of the items
applied to it, `saves` the worlds in the save files, `held` the persistent items
in effect. `LoadSave` is the load hook: event and new epoch before the game
replaces the world. `RunItem` is a frame task: `CanApply` compares epochs and
readiness (`IsCurrent`, epochs only, for the hook-activity handler). The client
is any client: it sends any item at any time and answers contexts from what the
plugin told it.

**OrderedDelivery.** A world, its saves, and items that a world takes one by one:
no threads, no cursor, no journal. `ItemDelivery` implements it under the mapping
in `Ordered`: `delivered` counts how often the loaded world has each item
(`world`), as long as the world is *tracked*, that is, made in this session or
loaded from a save the journal has; `saved` is the same for the recorded saves.
A refinement says more than two invariants on the items of a world would: a
world never loses an item but by a load, a save is never rewritten with another
content, and a load brings back exactly what the save had. `TakeUp` is the one
step that looks odd: when the plugin thread drains the event of a save, or of the
load of a save that the game thread is already in, worlds and saves become
tracked, and nothing else may change.

**PluginBridge.** A step runs from one `await` that may suspend to the next.
`deliver_items` is `SendItem` (up to the send), `ItemSentToPlugin` (the send is
through, wait for the acknowledgement), `AckArrives`/`AckTimesOut`,
`RetryDelayEnds`. An acknowledgement that has arrived resumes the task later, so
contexts, disconnects and session ends fit in between. `context_generation` is
only compared for equality with the value taken at the send; `stale` says that
it has changed.

**ClientLink.** `toPlugin` is the plugin's queue of lines and events (`taken`
of them belong to the running poll), `toClient` the lines on their way. A lost
link loses what is in the sockets and keeps a prefix of what the worker has read.
What the plugin queues while the worker waits to reconnect is discarded up to the
moment that wait ends, so of the lines of one step a first part may be lost
(`QueueForClient`), never a later one alone.

**DeathLink.** Stands on its own: the delivery of items and the death link share
the loop, the epochs and the dispatcher, but no state. The plugin thread polls
the monitor (`PollWindow`, `PollExpires`, `PollVitals`, `PollArms`: between them
the game thread may act), drains, processes (`ResetDeathLink` on a load and at
the end of a world), takes deaths in (`Receive`) and updates the controller. The
game thread runs the hook in two steps (`EnterHook` disarms, `Consume` looks at
the window and reports) and the kill step by step, each strike through the hook.
`watched` says that the controller still holds the result of a task. What the
code reads to see whether a derby, a race or a car is ready is one refusal
(`KillRefused`). `KillsAreNotSentBack` has one exception, marked
`KillAfterRearm`: the loop arms the monitor between `KillCharacter` and
`SetHitPoints`, the player was reset at once, and the second strike counts as his
own death.

**WorldUnlocks.** Every hooked call is one action, `GameSets` for the remembered
switches and one action each for races, starts and triggers. The game's own wish
is kept as `owed`: the kinds whose switches it has still to set after a mission,
a load or a story step changed what it wants; it sets them in any order, with
grants, resets and refreshes of the game-thread tasks in between. `native` are
the remembered requests, `shown` is what is on. Kinds share hooks with no other
kind, so an instance has small groups of kinds.

**ItemHandlers.** The plugin thread asks (`Handle`), updates and removes; the
game thread takes a batch (`StartFrame`) and runs its tasks one action each, with
the game's actions between frames. A completion is a row of `requests`; `Report`
is `Complete` or the destruction of its last copy, whichever comes first, as in
`ItemCompletion::State`. Each handler is followed to where its item takes effect:
the unlock queue with backlog, outstanding entries and allowances; respect with
the permit of one load (`expected` is history: the bars the loaded save has, and
those of the items since; `lateInstall` marks the world of a load in whose middle
the handler was installed); Lua items with their reapplication after a checkpoint;
weather with the release after the game has shown it. `CancelPending` and
`FinishRemove` are the two halves of removal, between which a batch may run.

**Progression.** A table is a function from entries to levels; a load passes
through a state where it holds another world's levels (`Filled`). One turn of the
plugin loop is `StartTurn`, `ProcessGameEvents`, the session edge with or without
a poll, one `PollReader` per reader with a `SendEvent` per event, and then
`TakeNetEvent` until nothing is left and `EndTurn`. A reader's reading is one action; it may fail, or meet lists of
other keys while a save loads. `outgoing` is the queue of 128 lines. On the
client's side, `OnProgression` maps an event to locations and counts,
`ConnectServer` and `LoseServer` are the two ends of an AP connection. `deeds` is
history: every level reached in any world; so are `lost`, the entries of which a
full queue lost a line since the loop saw the session begin, and `seenEdge`, that
it saw it. One turn of the loop can see the end of a session and the beginning of
the next at once (`Plugin.cpp:210` compares two turns), and then does not.

Abstractions: items are names, lists are sets (the code's lists have no
duplicates), sessions are identities, notifications and deaths are counted,
texts are left out. Progression lines change nothing in the session runtime, so
`Progression` has its own small picture of the session, `active`.

Assumptions on time. A new game starts no earlier than one turn of the plugin
loop after the main menu appeared (50 ms). The client notices a lost connection
before the plugin reconnects (2 s). The server's item list comes directly behind
`Connected`, before the answer to the `Get` that was sent at `Connected`. Loading
takes longer than a turn of the loop. A death and a kill take less than a second,
an explosion hurts the player within its five seconds or not at all, and one that
does not wreck the car hurts nobody; in `DeathLink`, seconds therefore pass only
between deaths and kills. Loading takes longer than a turn of the loop and the
frame after it, and restarting a level longer than a frame, so few
reapplications wait at once. The network thread sends what is queued while the
loop sleeps (50 ms); a lost connection of plugin and client is noticed by the loop
before they are connected again (2 s); a job level takes longer than a turn. The tables can be read while the game is played, but
for the bounded faults. How soon the AP server is back after it was lost is not
assumed (`QuickReconnect`): a new session may begin before the loop has turned. The
legacy journal (version 1) and ledgers that were edited or lost are not modelled.

## 3. Runs

| Run | Instance | Shows |
|---|---|---|
| `runtime` | 2 sessions, 1 checksum, 2 items of which 1 persistent, cursors up to 1, 2 requests, failing writes, a file that is refused above 1 snapshot, death link on | `TypeOK`, `PendingItemIsNext`, `RequestMatchesRestore`, `RestoreFollowsCursor`, `DeathsBelongToLoadedWorld`, `RevisionMatchesSnapshot`, `AvailableMeansDurable`, `CursorAdvancesByItems`, `PolicyLatched`, `JournalNeverForgets` |
| `delivery` | both threads, 1 save, 2 indices, 4 requests, 2 epochs | `CursorCountsApplied`, `HeldMatchesWorld`, and `DeliversInOrder`: `OrderedDelivery` is implemented |
| `link` | all kinds of disturbance, at most 2 of them, ledger writes may fail | `NeverPastCursor`, `StoresAgree` |
| `live` | loads and link losses, at most 2, with fairness | `EveryItemApplied` |
| `death_link` | 2 worlds, 1 waiting event, with fairness | `TypeOK`, `KillsAreNotSentBack`, `OneReportPerLife`, `DeathsStrikeTheirWorld`, `KillIsNotRetried`, `ReceivedDeathSettles` |
| `world_unlocks` | 6 groups of kinds, 2 race classes, 2 worlds, 2 tasks ahead, with fairness | `TypeOK`, `OnlyEarnedShown`, `WantedIsShown`, `OwnedByThisWorld`, `OnlyGrantedStarts`, `CollectiblesHiddenAgain` |
| `item_handlers` | 5 sets of handlers, 2 worlds, 2 requests, 1 native reward per world, a native queue of 1, with fairness | `TypeOK`, `TruthfulCompletions`, `AllowancesArePaidFor`, `LuaUnlocksSurvive`, `RespectIsEarned`, `NoTaskOutlivesItsHandler`, `EveryRequestCompletes`, `WeatherIsReleased` |
| `progression` | 4 games of 1 or 2 entries, levels up to 2, a queue of 1 line, sessions that may begin within a turn, no status file, 2 disturbances, with fairness | `TypeOK`, `NoCheckWithoutDeed`, `HiddenOnlyWhenLost`, `EverythingIsReported` |
| `new_game`, `sync_loop`, `rejection`, `reconcile_overflow` | | four places where the code breaks what it says of itself (section 5) |

Bounds. One request has to be in flight while another is cancelled, so `delivery`
has two item indices, which tell apart "this item" and "the next", and four
requests: a stale completion needs two. In `runtime` two sessions make a conflict,
and with one item index the completion of a cancelled request can still meet its
successor. All its properties are proved for every size (section 4); this run
shows that the invariants are not vacuous, and gives each its mutant. `MaxEpoch =
2` allows a load and the end of a world in either order. In `ClientLink` and
`Progression` two disturbances allow each pair (a load while the link is down, an
answer that is late because of a reconnect). Queues are limited to one entry where
only "full" matters. Handlers read no state of each other, nor do readers or kinds
of activities, so instances have one initial state for each small group that
shares the game's state. Two worlds are one a task or an allowance was meant for
and one it must not reach. In `progression` two entries fill the queue of one
line, as 180 collectibles fill that of 128; the games have one category of each
way of reading and mapping (counts, flags, keys that may be missing, jobs), medals
and the style level, which map as in `LocationsFor`, are left to the proofs. The
status file is off, as in the default configuration; with it the poll goes on
without a session. Larger instances were explored for `link` (cursors up
to 2, three disturbances), `live` (six kinds of disturbance) and `death_link`
(three worlds, three events); they hold but take longer than the committed ones.

A `VIEW` leaves out variables that no guard and no property of that run reads
(`sent`, the HUD queue, the link flag), so two states it identifies have the same
futures.

Deadlock is checked in every run: even at the bounds on requests, epochs and
disturbances the loops on both sides go on turning.

Fairness (`Fairness` in `ClientLink`). Weak fairness for what both programs do
by themselves: the plugin loop polls every 50 ms, the worker reconnects, asyncio
runs every ready task, timeouts elapse, the AP client logs in again, the game
finishes a request. Strong fairness for `EnterWorld`, because the loop reports
readiness between two polls, so the step is enabled again and again rather than
all the time. Nothing is assumed of loads, saves, the link or the server. The
liveness run has no refusing game: a refused replay sets the restore to `Failed`
on purpose, until the next load; and no send that suspends, which needs 64 KiB of
unsent lines.

In `DeathLink` the loop turns, frames run the kill tasks (strong fairness, since
deaths come in between), delays end, the game does not refuse or survive every
kill, and the handlers are not torn down again and again, which discards the
tasks.

In `WorldUnlocks` and `ItemHandlers` frames run the tasks and the loop turns;
strong fairness is asked of one step of the game, that it works through its queue
of unlocks between frames, since it does so only in gameplay. Nothing is assumed
of loads, missions or the player. `EveryRequestCompletes` speaks of a world that
is played on: in a menu items wait by design. In `Progression` the loop turns and
a poll is due again and again (strong fairness for `PollIsDue`: the interval is a
condition on the clock, which the model does not have); the network thread sends,
the client's tasks run, and what was submitted arrives unless its connection is
lost. Connections, loads and saves are free, and
`EverythingIsReported` supposes a world and a session that last. It leaves out what
the code does not give: the entries of which a full queue lost a line, and the
progressive counts of a session whose beginning the loop missed.

`ReceivedDeathSettles` supposes that the player stays in control from some
moment on: while a menu or a cutscene lasts, a death waits by design.

## 4. Proofs

`SessionRuntime_proofs` proves all ten properties of `runtime` for
every set of sessions, checksums, items and lists, every limit, and every
behaviour of the game and the client.

The invariants are not inductive one by one. A journal write can only lose a save
if the runtime knows less than the file; that is excluded because a session is
latched only after the file was read; which needs that a pending installation
implies an available journal. The cursor stays in range only because a pending
item is the next one and never the last index; that needs that no item is handed
out while draining, and that nothing leaves a pending item behind when context,
cursor or restore change. `IInv` joins the type invariant (in two halves, data
and flags, because different provers are good at them) with `RequestInv`,
`CursorInv`, `SessionInv` and `JournalInv`. There is one lemma per action that
disturbs it, `QuietLemma` for the others, `StepLemma` to join them, and lemmas on
the journal operations (`RecordLemma`, `StoreSnapshotLemma`,
`AcknowledgedLemma`). The action properties `JournalNeverForgets`,
`CursorAdvancesByItems` and `PolicyLatched` follow from `IInv` and one step.

`OrderedDelivery_proofs` says what the refinement is good for:
`TrackedWorldsHavePrefixes`, for any number of saves and items, in every reachable
state the loaded world, if it is tracked, and every recorded save have each of
the first n items exactly once and none of the others. The invariant `Prefixes`
is inductive as it stands; `ExtendLemma` is about adding saves to the recorded
ones.

`ItemDelivery_proofs` proves all that `delivery` checks, for any number of saves
and items, any epochs and requests, failing journal writes and crashes:

* `RuntimeOfDelivery`: the threads use the runtime within `SessionRuntime!Spec`, so
  the ten properties above hold for the plugin as it runs;
* `CursorCounts` and `Held` (`CursorCountsApplied`, `HeldMatchesWorld`);
* `Implements`: every initial state of `ItemDelivery` maps to one of
  `OrderedDelivery`, and every step to a step or a stutter (`DeliversInOrder`);
* `FirstItemsOnly`: with `OrderedDelivery_proofs`, in every state, events and
  answers under way or not, the loaded world, if known, and every known save have
  each of the first n items once. This is what the player gets.

The properties speak of quiet moments, when the plugin thread has heard of
everything; the invariant `DInv` must hold in between, when the game thread is
several loads and saves ahead. It reads the events on their way (`Q`, the batch and
then the queue) as the future of the plugin thread: at each point of that queue
there is a world (`WorldAt`, the one a save event is about, or the loaded one at
the end) and a cursor that the plugin thread will have when it gets there
(`CursorAt`: the completion of the pending request moves it).
`FitInv` says that at every such point world and cursor fit, unless a load is
before it, and that a world behind a load has what its save has. `RecordedInv`
is the same for journal and save files. The other parts say why a step cannot
break this: a world or event names a save that exists (`ExistInv`), a save that is
announced is a new one (`NewInv`); a new game is started only by a thread that has
seen the menu (`MenuInv`), and what the runtime ends then was never another
world's (`GoneInv`); a load nobody has heard of makes its epoch stale
(`EpochInv`), a task of the live epoch and of the pending request is for the world
the plugin is in (`TaskInv`), and no id is used twice between tasks and
completions (`IdInv`), so that one completion moves the cursor once. `ItemsInv`
says that every snapshot has the persistent items before its cursor; `HeldInv`,
what the game will hold when the queued tasks are done, which is the form in which
a reset that is interrupted and tried again keeps `HeldMatchesWorld`. `SlotInv` and
`LoopInv` are about the session and the turn of the loop. Two things the proof
changed in the model: `HeldMatchesWorld` lost a hypothesis it did not need, and
`RecordedInv` had to speak of the journal file, since that is what counts after a
crash.

`ClientLink_proofs` proves the safety properties of `link`, for any number of
saves, items, disturbances and lines on their way, with and without suspending
sends and failing writes:

* `RuntimeOfLink`: the lines the real client sends, through a link that fails, are
  those the environment of `SessionRuntime` may send, so the ten properties hold
  here too;
* `NeverPast` (`NeverPastCursor`). `LiveInv` makes it inductive: whenever delivery is
  open, the newest context among the lines to the client and all lines behind it
  are right for the cursor the plugin has now (`NewestFit`), whatever older lines
  say; and once no context is left, so is the live cursor, and an acknowledgement
  that would count is for an item before the plugin's cursor. `TellsContext` is the
  plugin's part: a step that opens delivery or sets the cursor back sends its
  context in the same step. `SyncInv` ties the item that waits for its
  acknowledgement to the live cursor unless a context came in between, which is
  what `context_generation` is for. The proof found two things: a plugin with
  revisions pending is silent, so the property needs `~revisionsPending` (without
  it, it is false: section 5), and what the worker discards while it waits must be
  the oldest lines, as it is in the code: if a newer context could be lost and an
  older one kept, the client would go on from the older;
* `Agreement` (`StoresAgree`), with the hypothesis `OneSlot`: the ledger in the model
  is that of one slot (the code keys the file by seed, team and slot), so in the
  model a client that offers another session too would mix the saves of both.
  `AgreeInv` follows the cursors on their way: a `save_context` carries the cursor
  of the ledger, a `save_revision` and a context for a loaded save that of the
  journal; a context that said the journal does not know the save stays right
  because the journal can only have learnt it from the ledger since, or the save is
  new. So each store learns a cursor only for a save that the other does not know,
  or knows with the same cursor.

Finite sequences are the hard part there: a queue is a sequence over its own lines
(`IsQueue`, `Lines`), and the lemmas on appending, taking, joining and cutting
queues say which lines and places remain. `InOrder` is only used through
`OrderOfLines`: whatever the order, the lines are those of the step.

The proofs of the four modules below have the same shape. `IInv` is a conjunction
of named parts; one lemma per part says that every step keeps it, from the parts
before it; `InitLemma` and `StepLemma` join them into `Invariance`, and each
property follows from `IInv`, or from `IInv` and one step. TLC checked every
`IInv` on its instance first.

`DeathLink_proofs` proves the five safety properties of `death_link`, for any
number of worlds and waiting deaths. None of them is inductive, because each
relates what the plugin thread decided to what the game thread has done since:

* `EpochInv` and `TaskInv`: an epoch the plugin has not observed is that of a load
  whose event waits, so a task of the live epoch is for the loaded world, or for
  one whose end is about to be noticed (`DeathsStrikeTheirWorld`);
* `AttemptInv` and `WatchInv`: nothing resets the death link while a kill runs, and
  the controller holds the result of at most one task; `StruckInv`: an attempt
  that has struck will end as applied (`KillIsNotRetried`);
* `WindowInv` and `ArmInv`: the monitor is armed only in a life that has reported
  no death, and during a kill not where the suppression window is closed, but for
  a poll of the plugin thread after the kill began. Only with these are
  `KillsAreNotSentBack`, with its exception `KillAfterRearm`, and
  `OneReportPerLife` inductive; `LoopInv` and `PlayerInv` say what the loop may
  still believe and when there is a player.

`WorldUnlocks_proofs` proves the five safety properties of `world_unlocks` for
every set of kinds, any number of races and any length of the task queue, the
action property `OnlyGrantedStarts` among them. `InstallInv`: policy and tasks
exist only between installation and removal. `InitializeInv`: an initialisation
comes before every other task and before the first grant, even one that was
queued while the game thread finished another; without it a second
initialisation could wipe what was granted (`OwnedByThisWorld`). `NativeInv`: a
switch the game owes no call was last requested exactly if the game wants it, and
an owned one is on accordingly, which gives `WantedIsShown`. With
`OwnedByThisWorld`, `OnlyEarnedShown` is inductive as it stands. `StartsAreGranted`
(`OnlyGrantedStarts`) joins both: what starts is shown or permitted by ownership,
and what is owned was granted in the loaded world.

`ItemHandlers_proofs` proves the six safety properties of `item_handlers`. The
part that carries the rest is `Custody`: the task queue, the batch, the backlog
and the outstanding unlocks hold only items that are not answered, and none twice
or in two places. So a place may answer what it gives up, and `TruthfulCompletions`
is kept through every hand-over, removal and end of a world. `LifetimeInv` ties
tasks to their handlers (`NoTaskOutlivesItsHandler`); `WorldInv` says that the
unlocks under way are of one world, and that the game's queue is empty until
those of the world before are dropped. `ResetInv`: while a reset is on its way,
nothing of this world has been applied; with it `LuaInv` gives
`LuaUnlocksSurvive`. `RespectInv`: the permission to write the respect is there
for the load it was given for, unless the handler was installed in the middle of
that load (`RespectIsEarned`). `AllowancesArePaidFor` is
inductive given `Custody`.

`Progression_proofs` has two arguments. `NoCheckWithoutDeed` and `TypeOK` follow
from `IInv`: a level stands in a table, in the save, in a baseline, in a queued
line or in the client only if it and all below it were reached (`GameInv`,
`LinesInv`, `LoopInv`, `ClientInv`); deeds only grow, so what was earned stays
earned whichever line is lost or sent twice.

`NothingElseIsHidden` proves `HiddenOnlyWhenLost`, for a queue of any size, a client
and a server that are back at any speed, and without a hypothesis: what a reader's
baseline calls known, and no later poll will report, is missing in the client only
for an entry of which the full queue lost a line in this session. The levels of an
entry are known on every connection the loop has noticed, even when it missed that
one session ended and another began, because `observed_locations` outlives a
session; the counted keys, which `CollectibleCounts` starts afresh with each
session, are known in every session whose beginning the loop has seen. `SessionInv`
and `TurnInv` say what the loop may still believe of the session it is in, from
the events it has not taken; `CoverInv` is the strengthening: what the baselines
call done was observed and counted, or is in a line that will have it observed and
counted, while a line that is lost puts its entry into `lost` in the same step. The
two exceptions are real: that of `lost` is finding 4 of section 5, that of the
counts the missed edge of section 2.

Assumed: the named ASSUMEs of the modules, evaluated by TLC in every run: limits
are natural numbers, `None` is none of the values it stands beside, respect has a
bar (`MaxBars` is not 0), a game has finitely many entries and none is named like
a count. The provers see no induction over sequences, so the modules that are
proved about say with sets and quantifiers what the code does with filtered
lists: `OfThisWorld` in `ItemHandlers`, `toPoll` and `IsNext` in `Progression`.
The least element of a set of positions is found with `WFMin` over the naturals.

Every safety and action property of the passing runs is proved, and so is the
refinement. Only model-checked is liveness (`EveryItemApplied`,
`ReceivedDeathSettles`, `CollectiblesHiddenAgain`, `EveryRequestCompletes`,
`WeatherIsReleased`, `EverythingIsReported`), which is out of the prover's reach.
What the proofs rest on beside the ASSUMEs are the hypothesis `OneSlot` in
`ClientLink_proofs` and the assumptions on time of section 2.

## 5. Where the code departs from what it says

1. `sync_loop`: `deliver_items` adds 1 to `live_cursor` (`bridge.py:239`) after
   the acknowledgement without checking it; a session end or disconnect just
   before makes it `None`, the exception ends the `sync_loop` task, and
   `request_sync` wakes nobody from then on.
2. `rejection`: the plugin sends `session_rejected` (`protocol.rs:440`), the
   client handles `session_reject` (`bridge.py:77`).
3. `new_game`: a save still waiting for its cursor at the main menu keeps
   `save_load_pending`, so `update_readiness` (`mod.rs:300`) does not end its
   delivery, and the next new game gets its cursor.
4. `reconcile_overflow`: the first poll of a session sends a line for everything
   done through a queue of 128 lines; a full queue loses lines (`tcp_client.rs:82`)
   while the baseline is set, so nothing reports them again in that session,
   although `Plugin.cpp:207` and `bridge.py:111` say everything is re-reported.
   The client then lacks goal locations or counts if it is a new process.

`EveryItemApplied` and `Known`/`fresh` in the delivery properties are stated
around 1 and 3, so that the rest of the behaviour is still checked;
`HiddenOnlyWhenLost` and `EverythingIsReported` leave out the entries of lost lines.

Five more things to know. A respect handler that is installed between the load hook
and the write of the save's respect blocks that write, since nothing permitted it
(`RespectController.cpp:212`): the world has the bars of the one before until
the next load; `RespectIsEarned` excepts that world (`lateInstall`). A session that
ends and begins again within one turn of the loop is not noticed
(`Plugin.cpp:210`): the baselines stay, so no level is hidden, but the
client's counts begin at nothing and the progressive locations of that session can
be short until another session begins. A job level that is finished while no session is active
is reported to nobody (`SessionRuntime.cpp:179`) and no poll repeats it; the
vehicle jobs can be played again, a ho-ing level cannot. `EverythingIsReported`
leaves jobs out. `KillsAreNotSentBack` has the exception named above: an
arming poll between the two calls of one kill. And `NeverPastCursor` says nothing
while revisions are pending: a context that is still on its way when the AP session
ends is handled after `end_session` has cleared `live_cursor` and sets it again
(`bridge.py:262`); a plugin with revisions to synchronise starts the next session
with them and no context, so the client goes on from the old cursor, which may be
past that of a world started since. TLC finds this with four disturbances
(`link` has two), after 45 steps. A test says that the bridge never
sends past the plugin's cursor (`test_fuzz_client.py:113`). No item is lost: the
plugin refuses items while revisions are pending and sends a context after the
last one, and from then on `NeverPastCursor` holds.

## 6. Not modelled

Hook installation and removal (byte patches, rollback of a half-enabled
installation, the leases of `HandlerActivity`): removal is one step that waits for
the hooks in progress. The tables of the cheat controller, hints, the list
monitor's reading of list numbers, the diagnostic status file. Two hooks that no
lease protects, and a controller field read by the load hook while the plugin
thread may install it, are data races of a few instructions at start and end; the
models do not have them. HUD, overlay, map reveal, memory access, Lua binding,
configuration, logging, the randomizer world and the patcher: no protocol state,
or outside what a specification can check. A save written without a session or
with a broken journal, and a crash between a save and its record, lose the cursor
by construction; the delivery properties therefore speak of recorded worlds. A
line whose `send` suspends, so that `session_sent` is set after a session end, is
in `link` but not in `live`. A context the client cannot resolve because its
stores contradict each other is excluded by `StoresAgree`; edited or lost ledgers
are not modelled.

## 7. Plan

Done, in this order: `SessionRuntime` with its runs and proofs; `ItemDelivery`;
`PluginBridge`; `ClientLink`; `DeathLink`; `WorldUnlocks`; `ItemHandlers`;
`Progression`; `OrderedDelivery` with the refinement and its theorem.

Proofs done, in this order: `SessionRuntime`, `OrderedDelivery`, `DeathLink`,
`WorldUnlocks`, `ItemHandlers`, `Progression`, `ItemDelivery` with the refinement,
`ClientLink`: every safety property of every passing run.

Left:

1. Plugin and client with both threads of the plugin at once (`ItemDelivery` and
   `ClientLink` joined). The two theorems on the runtime say that its properties
   survive in both environments; a joint one would carry `FirstItemsOnly` to the
   real client.
2. A ledger that is lost or edited: what the client then rejects, and whether the
   revisions of the plugin are ever acknowledged.
3. Several slots, each with its ledger, which would make `OneSlot` unnecessary.
