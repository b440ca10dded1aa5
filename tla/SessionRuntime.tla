--------------------------- MODULE SessionRuntime ---------------------------
(***************************************************************************)
(* The plugin's session state machine: SessionRuntime in                   *)
(* game_plugin/rust/src/session/mod.rs with its Delivery (delivery.rs),    *)
(* RevisionSync (revision_sync.rs) and RevisionJournal                     *)
(* (revision_journal.rs).  One plugin thread calls every method, so a      *)
(* method (for next_request: one step of it) is one action.                *)
(*                                                                         *)
(* What the game did (SaveLoaded, SaveWritten, UpdateReadiness), what the  *)
(* C++ side reports (CompleteRequest, ReportResult) and the lines of the   *)
(* AP client are parameters; Next closes the module with an environment    *)
(* that may do any of it at any time.  ItemDelivery.tla replaces that      *)
(* environment by the game, the plugin thread and the client.              *)
(*                                                                         *)
(* Data is abstracted: an item is its name, a list of persistent items is  *)
(* the set of its names (every list of the code is duplicate free), a      *)
(* session is its identity, and the HUD notifications and received deaths  *)
(* are counted.                                                            *)
(***************************************************************************)
EXTENDS SlotData, FiniteSets

CONSTANTS
  Sessions,         \* AP session identities (seed, team, slot)
  Lists,            \* Hitman and Chop Shop lists
  MaxSnapshots,     \* snapshots that fit into a 1 MiB journal file
  MaxRequests,      \* bound on request_id (a u64 that never wraps in practice)
  MaxNotifications, \* MAXIMUM_PENDING_NOTIFICATIONS
  MaxDeathLinks,    \* MAXIMUM_PENDING_DEATH_LINKS
  GameSupported,    \* game_supported: fixed when the runtime is created
  SaveMonitoring,   \* save_monitoring: fixed before the plugin loop starts
  DeathLinkOn,      \* the death_link feature of the session's slot data
  PersistOutcomes   \* what writing the journal file can return

ASSUME BoundsAssumption ==
  /\ MaxSnapshots \in Nat
  /\ MaxRequests \in Nat
  /\ MaxNotifications \in Nat /\ MaxNotifications > 0
  /\ MaxDeathLinks \in Nat /\ MaxDeathLinks > 0

ASSUME PolicyAssumption ==
  /\ GameSupported \in BOOLEAN
  /\ SaveMonitoring \in BOOLEAN
  /\ DeathLinkOn \in BOOLEAN
  /\ PersistOutcomes \subseteq BOOLEAN

Cursors == 0..MaxIndex
Snapshots == [nextIndex : Cursors, items : SUBSET Items]
Journals == [pending   : [Sessions -> [Checksums -> Cursors \cup {None}]],
             snapshots : [Sessions -> [Checksums -> Snapshots \cup {None}]]]

\* Option<T>: None is not a value of any T.
ASSUME NoneAssumption ==
  None \notin Sessions /\ None \notin Snapshots

VARIABLES
  session,          \* the latched session, None until policies are installed
  active,           \* AP communications are up
  clientConnected,  \* the TCP link to the AP client is up
  gameplayLoaded,   \* a world was loaded at the last update_readiness
  context,          \* Delivery.context
  checksum,         \* Delivery.checksum
  nextIndex,        \* Delivery.next_index
  journal,          \* RevisionSync.journal
  disk,             \* the journal file
  available,        \* RevisionSync.available
  revisionsPending, \* RevisionSync.pending
  persistentItems,  \* persistent items the live world should have
  restore,          \* RestoreState and the items it carries
  saveLoadPending,  \* a loaded save has not reached gameplay yet
  deferRestoreOnce, \* skip one restore attempt after a refused reset
  pending,          \* the request the game side is working on
  draining,         \* next_request is past its restore check
  requestId,        \* id of the last request handed out
  notifications,    \* HUD notifications waiting
  deathLinks,       \* received deaths waiting
  openedLists,      \* lists reported in this AP session
  staleDeath,       \* history: a death went on waiting when its world was gone
  sent              \* the lines queued for the client by the last action

sessionVars  == <<session, active, clientConnected>>
deliveryVars == <<context, checksum, nextIndex>>
journalVars  == <<journal, disk, available, revisionsPending>>
restoreVars  == <<persistentItems, restore, saveLoadPending, deferRestoreOnce>>
requestVars  == <<pending, draining, requestId>>
feedVars     == <<notifications, deathLinks, openedLists, staleDeath>>
vars == <<sessionVars, deliveryVars, journalVars, restoreVars, requestVars,
          feedVars, gameplayLoaded, sent>>

-----------------------------------------------------------------------------
\* Values.

NoRequest == [kind |-> "None", index |-> 0, name |-> None]
NoRestore == [state |-> "None", items |-> {}]
EmptyJournal ==
  [pending   |-> [s \in Sessions |-> [c \in Checksums |-> None]],
   snapshots |-> [s \in Sessions |-> [c \in Checksums |-> None]]]

Contexts == {"Waiting", "Provisional", "AwaitingCursor", "ActiveRevision"}
RestoreStates == {"None", "AwaitingSnapshot", "NeedsReset", "Replaying", "Failed"}
RequestKinds == {"None", "Policies", "Reset", "Replay", "Item"}

\* Delivery::ready.
Ready(c) == c \in {"Provisional", "ActiveRevision"}

PendingRevisions(j, s) ==
  {c \in Checksums : j.pending[s][c] # None}

\* RevisionJournal::record: the revision waits for the client's
\* acknowledgement, the snapshot stays for later loads.
RecordWithoutSnapshot(j, s, c, n, items) ==
  [j EXCEPT !.pending[s][c] = n]
Record(j, s, c, n, items) ==
  [j EXCEPT !.pending[s][c] = n,
            !.snapshots[s][c] = [nextIndex |-> n, items |-> items]]

\* RevisionJournal::store_snapshot.
StoreSnapshot(j, s, c, n, items) ==
  [j EXCEPT !.snapshots[s][c] = [nextIndex |-> n, items |-> items]]

\* RevisionJournal::acknowledge, once the cursor matched.
Acknowledged(j, s, c) == [j EXCEPT !.pending[s][c] = None]

\* RevisionJournal::load refuses a file above MAXIMUM_FILE_SIZE; serialize
\* writes one of any size.
SnapshotCount(j) ==
  Cardinality({p \in Sessions \X Checksums : j.snapshots[p[1]][p[2]] # None})
FitsFile(j) == SnapshotCount(j) <= MaxSnapshots

\* cancel_gameplay_request: everything but a policy installation.
CancelNothing(request) == request
CancelItemsOnly(request) ==
  IF request.kind = "Item" THEN NoRequest ELSE request
CancelGameplayRequest(request) ==
  IF request.kind \in {"Item", "Reset", "Replay"} THEN NoRequest ELSE request

-----------------------------------------------------------------------------
\* Lines to the client.

AckLine(i, accepted) ==
  [type |-> "item_ack", index |-> i, accepted |-> accepted]
RevisionLine(c, n) ==
  [type |-> "save_revision", checksum |-> c, nextIndex |-> n]

\* send_revisions.
RevisionLines(j, s) ==
  {RevisionLine(c, j.pending[s][c]) : c \in PendingRevisions(j, s)}

\* game_context: nothing while communications are down, revisions are being
\* synchronised or there is no world; a save without a cursor asks for one and
\* shows what the journal remembers of it.
ContextLines(isActive, blocked, s, j, ctx, c, n) ==
  IF ~isActive \/ blocked \/ ctx = "Waiting" THEN {}
  ELSE LET known == /\ ctx = "AwaitingCursor"
                    /\ s # None /\ c # None
                    /\ j.snapshots[s][c] # None
           snapshot == IF known THEN j.snapshots[s][c]
                                ELSE [nextIndex |-> n, items |-> {}]
       IN {[type |-> "game_context", checksum |-> c,
            nextIndex |-> snapshot.nextIndex,
            provisional |-> (ctx = "Provisional"),
            needsCursor |-> (ctx = "AwaitingCursor"),
            snapshotKnown |-> known, items |-> snapshot.items]}

\* persist: the journal file takes the given contents, or delivery is disabled.
PersistIgnoringErrors(contents, ok) ==
  /\ disk' = IF ok THEN contents ELSE disk
  /\ UNCHANGED available
Persist(contents, ok) ==
  IF ok THEN disk' = contents /\ UNCHANGED available
        ELSE available' = FALSE /\ UNCHANGED disk

\* notify and the death queue drop the oldest entry when they are full.
PushedWithoutLimit(count, max) == count + 1
Pushed(count, max) == IF count = max THEN count ELSE count + 1

-----------------------------------------------------------------------------
\* SessionRuntime::new: the journal file was read when the process started.
InitVolatile ==
  /\ session = None /\ active = FALSE /\ clientConnected = FALSE
  /\ gameplayLoaded = FALSE
  /\ context = "Waiting" /\ checksum = None /\ nextIndex = 0
  /\ revisionsPending = FALSE
  /\ persistentItems = {} /\ restore = NoRestore
  /\ saveLoadPending = FALSE /\ deferRestoreOnce = FALSE
  /\ pending = NoRequest /\ draining = FALSE /\ requestId = 0
  /\ notifications = 0 /\ deathLinks = 0 /\ openedLists = {} /\ staleDeath = FALSE
  /\ sent = {}

Init ==
  /\ InitVolatile
  /\ journal = EmptyJournal /\ disk = EmptyJournal
  /\ available = TRUE

\* RevisionSync::new: delivery is available when the file could be read.
LoadJournalOrStartEmpty ==
  /\ journal' = IF FitsFile(disk) THEN disk ELSE EmptyJournal
  /\ available' = TRUE
LoadJournal ==
  \/ FitsFile(disk) /\ journal' = disk /\ available' = TRUE
  \/ ~FitsFile(disk) /\ journal' = EmptyJournal /\ available' = FALSE

\* shutdown: the plugin stops, so the TCP worker is gone and its events with it.
Shutdown ==
  /\ ~draining
  /\ pending' = NoRequest /\ notifications' = 0 /\ deathLinks' = 0
  /\ active' = FALSE /\ clientConnected' = FALSE
  /\ sent' = {}
  /\ UNCHANGED <<session, deliveryVars, journalVars, restoreVars, draining,
                 requestId, openedLists, staleDeath, gameplayLoaded>>

\* The process dies or is closed and starts again: only the journal file is
\* left (fs.rs replaces it atomically), and it is used when it can be read.
Restart ==
  /\ session' = None /\ active' = FALSE /\ clientConnected' = FALSE
  /\ gameplayLoaded' = FALSE
  /\ context' = "Waiting" /\ checksum' = None /\ nextIndex' = 0
  /\ revisionsPending' = FALSE
  /\ persistentItems' = {} /\ restore' = NoRestore
  /\ saveLoadPending' = FALSE /\ deferRestoreOnce' = FALSE
  /\ pending' = NoRequest /\ draining' = FALSE /\ requestId' = 0
  /\ notifications' = 0 /\ deathLinks' = 0 /\ openedLists' = {} /\ staleDeath' = FALSE
  /\ sent' = {}
  /\ LoadJournal
  /\ UNCHANGED disk

-----------------------------------------------------------------------------
\* What the game did.  The plugin thread reports it between two polls, when no
\* next_request is running.

\* save_loaded, which clears the deaths of the world before.
KeepDeathsOnLoad == deathLinks
DeathsAfterLoad == 0

SaveLoaded(c) ==
  /\ ~draining
  /\ pending' = CancelGameplayRequest(pending)
  /\ deathLinks' = DeathsAfterLoad
  /\ staleDeath' = (staleDeath \/ deathLinks' > 0)
  /\ checksum' = c /\ nextIndex' = 0 /\ context' = "AwaitingCursor"
  /\ restore' = [state |-> "AwaitingSnapshot", items |-> {}]
  /\ saveLoadPending' = TRUE
  /\ sent' = ContextLines(active, revisionsPending, session, journal,
                          "AwaitingCursor", c, 0)
  /\ UNCHANGED <<sessionVars, journalVars, persistentItems, deferRestoreOnce,
                 draining, requestId, notifications, openedLists, gameplayLoaded>>

\* save_written with no cursor yet: the save is not recorded.
IgnoreSaveWritten ==
  /\ ~draining
  /\ ~Ready(context)
  /\ sent' = {}
  /\ UNCHANGED <<sessionVars, deliveryVars, journalVars, restoreVars, requestVars,
                 feedVars, gameplayLoaded>>

\* save_written: the live world is now this save.  It is journalled when there
\* is a session whose journal works.
SaveWritten(c) ==
  /\ ~draining
  /\ Ready(context)
  /\ checksum' = c /\ context' = "ActiveRevision"
  /\ IF session = None \/ ~available
     THEN /\ sent' = {}
          /\ UNCHANGED journalVars
     ELSE \E ok \in PersistOutcomes :
            /\ journal' = Record(journal, session, c, nextIndex, persistentItems)
            /\ Persist(journal', ok)
            /\ sent' = IF ok /\ active THEN RevisionLines(journal', session) ELSE {}
            /\ UNCHANGED revisionsPending
  /\ UNCHANGED <<sessionVars, nextIndex, restoreVars, requestVars, feedVars,
                 gameplayLoaded>>

\* update_readiness, at the main menu with no save on its way: the world is gone.
EndsWorld(mainMenu, loading) == mainMenu /\ ~loading /\ context # "Waiting"

\* clear_death_links when no world is loaded.
KeepDeaths(loaded) == deathLinks
DeathsAfterReadiness(loaded) == IF loaded THEN deathLinks ELSE 0

UpdateReadiness(mainMenu, loaded) ==
  LET stillLoading == IF loaded /\ context # "AwaitingCursor"
                      THEN FALSE ELSE saveLoadPending
  IN
  /\ ~draining
  /\ gameplayLoaded' = loaded
  /\ deathLinks' = DeathsAfterReadiness(loaded)
  /\ staleDeath' = (staleDeath \/ (~loaded /\ deathLinks' > 0))
  /\ saveLoadPending' = stillLoading
  /\ \/ /\ EndsWorld(mainMenu, stillLoading)
        /\ context' = "Waiting" /\ checksum' = None /\ nextIndex' = 0
        /\ pending' = CancelGameplayRequest(pending)
        /\ persistentItems' = {}
        /\ restore' = IF session # None
                      THEN [state |-> "NeedsReset", items |-> {}] ELSE NoRestore
        /\ sent' = {}
     \/ /\ ~EndsWorld(mainMenu, stillLoading)
        /\ loaded /\ context = "Waiting"
        /\ context' = "Provisional"
        /\ sent' = ContextLines(active, revisionsPending, session, journal,
                                "Provisional", checksum, nextIndex)
        /\ UNCHANGED <<checksum, nextIndex, pending, persistentItems, restore>>
     \/ /\ ~EndsWorld(mainMenu, stillLoading)
        /\ ~(loaded /\ context = "Waiting")
        /\ sent' = {}
        /\ UNCHANGED <<deliveryVars, pending, persistentItems, restore>>
  /\ UNCHANGED <<sessionVars, journalVars, deferRestoreOnce, draining, requestId,
                 notifications, openedLists>>

\* list_opened: each list is reported once per AP session.
ListOpened(list) ==
  /\ ~draining
  /\ session # None /\ active /\ list \notin openedLists
  /\ openedLists' = openedLists \cup {list}
  /\ sent' = {[type |-> "list_opened", list |-> list]}
  /\ UNCHANGED <<sessionVars, deliveryVars, journalVars, restoreVars, requestVars,
                 notifications, deathLinks, staleDeath, gameplayLoaded>>

\* player_died.
PlayerDied ==
  /\ ~draining
  /\ DeathLinkOn /\ session # None /\ active
  /\ sent' = {[type |-> "death"]}
  /\ UNCHANGED <<sessionVars, deliveryVars, journalVars, restoreVars, requestVars,
                 feedVars, gameplayLoaded>>

\* next_notification and next_death_link: the plugin loop takes one entry.
TakeNotification ==
  /\ ~draining
  /\ notifications > 0
  /\ notifications' = notifications - 1
  /\ sent' = {}
  /\ UNCHANGED <<sessionVars, deliveryVars, journalVars, restoreVars, requestVars,
                 deathLinks, openedLists, staleDeath, gameplayLoaded>>

TakeDeathLink ==
  /\ ~draining
  /\ deathLinks > 0
  /\ deathLinks' = deathLinks - 1
  /\ sent' = {}
  /\ UNCHANGED <<sessionVars, deliveryVars, journalVars, restoreVars, requestVars,
                 notifications, openedLists, staleDeath, gameplayLoaded>>

-----------------------------------------------------------------------------
\* next_request.  It first looks for restore work (next_restore_request), then
\* handles the lines of the client until one of them yields a request.

HandOut(request) ==
  /\ requestId < MaxRequests
  /\ requestId' = requestId + 1
  /\ pending' = request

RestoreDue(interactive) == interactive /\ session # None

\* A refused reset skips one attempt; the lines are handled meanwhile.
SkipDeferredRestore(interactive) ==
  /\ RestoreDue(interactive) /\ deferRestoreOnce
  /\ deferRestoreOnce' = FALSE
  /\ draining' = TRUE
  /\ UNCHANGED <<restore, pending, requestId>>

RequestReset(interactive) ==
  /\ RestoreDue(interactive) /\ ~deferRestoreOnce
  /\ restore.state = "NeedsReset"
  /\ HandOut([kind |-> "Reset", index |-> 0, name |-> None])
  /\ UNCHANGED <<draining, deferRestoreOnce, restore>>

RequestReplay(interactive) ==
  /\ RestoreDue(interactive) /\ ~deferRestoreOnce
  /\ restore.state = "Replaying"
  /\ \E item \in restore.items :
       HandOut([kind |-> "Replay", index |-> 0, name |-> item])
  /\ UNCHANGED <<draining, deferRestoreOnce, restore>>

FinishEmptyReplay(interactive) ==
  /\ RestoreDue(interactive) /\ ~deferRestoreOnce
  /\ restore.state = "Replaying" /\ restore.items = {}
  /\ restore' = NoRestore
  /\ draining' = TRUE
  /\ UNCHANGED <<pending, requestId, deferRestoreOnce>>

NothingToRestore(interactive) ==
  /\ \/ ~RestoreDue(interactive)
     \/ ~deferRestoreOnce /\ restore.state \in {"None", "AwaitingSnapshot", "Failed"}
  /\ draining' = TRUE
  /\ UNCHANGED <<pending, requestId, deferRestoreOnce, restore>>

NextRequest(interactive) ==
  /\ ~draining
  /\ pending = NoRequest
  /\ \/ SkipDeferredRestore(interactive)
     \/ RequestReset(interactive)
     \/ RequestReplay(interactive)
     \/ FinishEmptyReplay(interactive)
     \/ NothingToRestore(interactive)
  /\ sent' = {}
  /\ UNCHANGED <<sessionVars, deliveryVars, journalVars, persistentItems,
                 saveLoadPending, feedVars, gameplayLoaded>>

\* No event is left: next_request returns None.
DrainEnds ==
  /\ draining
  /\ draining' = FALSE
  /\ sent' = {}
  /\ UNCHANGED <<sessionVars, deliveryVars, journalVars, restoreVars, pending,
                 requestId, feedVars, gameplayLoaded>>

-----------------------------------------------------------------------------
\* The events of the TCP worker, one per step of the drain loop.

Connected ==
  /\ draining
  /\ clientConnected' = TRUE
  /\ sent' = {}
  /\ UNCHANGED <<session, active, deliveryVars, journalVars, restoreVars,
                 requestVars, feedVars, gameplayLoaded>>

Disconnected ==
  /\ draining
  /\ clientConnected' = FALSE /\ active' = FALSE
  /\ sent' = {}
  /\ UNCHANGED <<session, deliveryVars, journalVars, restoreVars, requestVars,
                 feedVars, gameplayLoaded>>

\* begin_sync: recorded revisions go first and hold item delivery back.
BeginSync(s) ==
  LET owed == PendingRevisions(journal, s) # {} IN
  /\ openedLists' = {}
  /\ revisionsPending' = owed
  /\ sent' = RevisionLines(journal, s) \cup
             ContextLines(TRUE, owed, s, journal, context, checksum, nextIndex)

\* session_ready.  Its protocol number is compatible unless compatible is FALSE.
SessionRefused(compatible) == ~compatible \/ ~GameSupported \/ ~available

\* Only the first session installs policies.
NeedsPoliciesWhenInactive(s) == ~active
NeedsPolicies(s) == session = None

OnSessionReady(s, compatible) ==
  /\ draining
  /\ \/ /\ SessionRefused(compatible)
        /\ sent' = {}
        /\ UNCHANGED <<active, revisionsPending, requestVars, openedLists>>
     \/ /\ ~SessionRefused(compatible)
        /\ session # None /\ session # s
        /\ sent' = {[type |-> "session_rejected"]}
        /\ UNCHANGED <<active, revisionsPending, requestVars, openedLists>>
     \/ /\ ~SessionRefused(compatible)
        /\ session = s
        /\ active' = TRUE
        /\ BeginSync(s)
        /\ UNCHANGED requestVars
     \/ /\ ~SessionRefused(compatible)
        /\ NeedsPolicies(s)
        /\ HandOut([kind |-> "Policies", index |-> 0, name |-> s])
        /\ draining' = FALSE
        /\ sent' = {}
        /\ UNCHANGED <<active, revisionsPending, openedLists>>
  /\ UNCHANGED <<session, clientConnected, deliveryVars, journal, disk, available,
                 restoreVars, notifications, deathLinks, staleDeath, gameplayLoaded>>

OnSessionEnd ==
  /\ draining
  /\ active' = FALSE
  /\ sent' = {}
  /\ UNCHANGED <<session, clientConnected, deliveryVars, journalVars, restoreVars,
                 requestVars, feedVars, gameplayLoaded>>

\* save_context: the client's cursor for the loaded save.  It must be for the
\* save that is loaded, name policy items only, and agree with the journal.
ContextWelcome(c, items) ==
  /\ active /\ SaveMonitoring
  /\ context = "AwaitingCursor" /\ checksum = c
  /\ items \subseteq PersistentItems

MatchesJournal(c, n, known, items) ==
  known /\ journal.snapshots[session][c] = [nextIndex |-> n, items |-> items]

ActivateSaveWithoutRestore(c, n, items) ==
  /\ nextIndex' = n /\ context' = "ActiveRevision"
  /\ persistentItems' = items
  /\ sent' = ContextLines(active, revisionsPending, session, journal,
                          "ActiveRevision", c, n)
  /\ UNCHANGED <<restore, deferRestoreOnce>>
ActivateSave(c, n, items) ==
  /\ nextIndex' = n /\ context' = "ActiveRevision"
  /\ persistentItems' = items
  /\ restore' = [state |-> "NeedsReset", items |-> items]
  /\ deferRestoreOnce' = FALSE
  /\ sent' = ContextLines(active, revisionsPending, session, journal,
                          "ActiveRevision", c, n)

RejectSaveContext ==
  /\ sent' = {}
  /\ UNCHANGED <<context, nextIndex, persistentItems, restore, deferRestoreOnce>>

OnSaveContext(c, n, known, items) ==
  /\ draining
  /\ \/ /\ ~ContextWelcome(c, items)
        /\ RejectSaveContext
        /\ UNCHANGED <<journal, disk, available>>
     \/ /\ ContextWelcome(c, items)
        /\ journal.snapshots[session][c] # None
        /\ IF MatchesJournal(c, n, known, items)
           THEN ActivateSave(c, n, items) ELSE RejectSaveContext
        /\ UNCHANGED <<journal, disk, available>>
     \/ /\ ContextWelcome(c, items)
        /\ journal.snapshots[session][c] = None
        /\ ~known /\ (n # 0 \/ items # {})
        /\ RejectSaveContext
        /\ UNCHANGED <<journal, disk, available>>
     \* recover_snapshot: the journal changes only once the file has.
     \/ /\ ContextWelcome(c, items)
        /\ journal.snapshots[session][c] = None
        /\ known \/ (n = 0 /\ items = {})
        /\ \E ok \in PersistOutcomes :
             LET recovered == StoreSnapshot(journal, session, c, n, items) IN
             /\ Persist(recovered, ok)
             /\ IF ok THEN journal' = recovered /\ ActivateSave(c, n, items)
                      ELSE UNCHANGED journal /\ RejectSaveContext
  /\ UNCHANGED <<sessionVars, checksum, revisionsPending, saveLoadPending,
                 requestVars, feedVars, gameplayLoaded>>

\* save_revision_ack.
AckMatches(c, n, accepted) ==
  session # None /\ accepted /\ journal.pending[session][c] = n

OnSaveRevisionAck(c, n, accepted) ==
  /\ draining
  /\ \/ /\ ~AckMatches(c, n, accepted)
        /\ sent' = {}
        /\ UNCHANGED journalVars
     \/ /\ AckMatches(c, n, accepted)
        /\ journal' = Acknowledged(journal, session, c)
        /\ \E ok \in PersistOutcomes :
             LET synced == /\ ok /\ revisionsPending
                           /\ PendingRevisions(journal', session) = {}
             IN /\ Persist(journal', ok)
                /\ revisionsPending' = IF synced THEN FALSE ELSE revisionsPending
                /\ sent' = IF synced
                           THEN ContextLines(active, FALSE, session, journal',
                                             context, checksum, nextIndex)
                           ELSE {}
  /\ UNCHANGED <<sessionVars, deliveryVars, restoreVars, requestVars, feedVars,
                 gameplayLoaded>>

\* item.
DeliveryOpenDuringRestore(interactive) ==
  /\ active /\ Ready(context) /\ interactive
  /\ available /\ ~revisionsPending
DeliveryOpen(interactive) ==
  /\ active /\ Ready(context) /\ interactive
  /\ available /\ ~revisionsPending
  /\ restore.state = "None"

NextInLine(i) == i = nextIndex /\ i # MaxIndex

OnItem(i, name, interactive) ==
  /\ draining
  /\ \/ /\ ~DeliveryOpen(interactive)
        /\ sent' = {AckLine(i, FALSE)}
        /\ UNCHANGED requestVars
     \/ /\ DeliveryOpen(interactive)
        /\ ~NextInLine(i)
        /\ sent' = {AckLine(i, i < nextIndex)}
        /\ UNCHANGED requestVars
     \/ /\ DeliveryOpen(interactive)
        /\ NextInLine(i)
        /\ HandOut([kind |-> "Item", index |-> i, name |-> name])
        /\ draining' = FALSE
        /\ sent' = {}
  /\ UNCHANGED <<sessionVars, deliveryVars, journalVars, restoreVars, feedVars,
                 gameplayLoaded>>

OnItemSent ==
  /\ draining
  /\ active
  /\ notifications' = Pushed(notifications, MaxNotifications)
  /\ sent' = {}
  /\ UNCHANGED <<sessionVars, deliveryVars, journalVars, restoreVars, requestVars,
                 deathLinks, openedLists, staleDeath, gameplayLoaded>>

OnDeathLink ==
  /\ draining
  /\ DeathLinkOn /\ session # None /\ active /\ gameplayLoaded
  /\ deathLinks' = Pushed(deathLinks, MaxDeathLinks)
  /\ sent' = {}
  /\ UNCHANGED <<sessionVars, deliveryVars, journalVars, restoreVars, requestVars,
                 notifications, openedLists, staleDeath, gameplayLoaded>>

-----------------------------------------------------------------------------
\* report_result, for the request that is pending.

InstallResult(accepted) ==
  /\ pending.kind = "Policies"
  /\ IF accepted
     THEN /\ session' = pending.name /\ active' = TRUE
          /\ BeginSync(pending.name)
     ELSE /\ sent' = {}
          /\ UNCHANGED <<session, active, revisionsPending, openedLists>>
  /\ UNCHANGED <<restoreVars, nextIndex, notifications>>

ResetResult(accepted) ==
  /\ pending.kind = "Reset"
  /\ restore' = [restore EXCEPT !.state = IF accepted THEN "Replaying" ELSE @]
  /\ deferRestoreOnce' = IF accepted THEN deferRestoreOnce ELSE TRUE
  /\ sent' = {}
  /\ UNCHANGED <<session, active, revisionsPending, openedLists, nextIndex,
                 persistentItems, saveLoadPending, notifications>>

ReplayResult(accepted) ==
  /\ pending.kind = "Replay"
  /\ LET rest == restore.items \ {pending.name} IN
     restore' = IF ~accepted THEN [state |-> "Failed", items |-> {}]
                ELSE IF rest = {} THEN NoRestore
                ELSE [restore EXCEPT !.items = rest]
  /\ sent' = {}
  /\ UNCHANGED <<session, active, revisionsPending, openedLists, nextIndex,
                 persistentItems, saveLoadPending, deferRestoreOnce, notifications>>

ItemResult(accepted) ==
  /\ pending.kind = "Item"
  /\ IF accepted
     THEN /\ nextIndex' = pending.index + 1
          /\ persistentItems' = IF pending.name \in PersistentItems
                                THEN persistentItems \cup {pending.name}
                                ELSE persistentItems
          /\ notifications' = Pushed(notifications, MaxNotifications)
     ELSE UNCHANGED <<nextIndex, persistentItems, notifications>>
  /\ sent' = {AckLine(pending.index, accepted)}
  /\ UNCHANGED <<session, active, revisionsPending, openedLists, restore,
                 saveLoadPending, deferRestoreOnce>>

ReportResult(accepted) ==
  /\ ~draining
  /\ pending' = NoRequest
  /\ InstallResult(accepted) \/ ResetResult(accepted)
     \/ ReplayResult(accepted) \/ ItemResult(accepted)
  /\ UNCHANGED <<clientConnected, context, checksum, journal, disk, available,
                 draining, requestId, deathLinks, staleDeath, gameplayLoaded>>

\* complete_request: a result that comes back from the game thread counts only
\* while the request it is for is the one being waited for.
AnswersAnyPending(id) == pending.kind \in {"Item", "Replay"}
AnswersPending(id) == pending.kind \in {"Item", "Replay"} /\ id = requestId

IgnoreCompletion(id) ==
  /\ ~draining
  /\ ~AnswersPending(id)
  /\ sent' = {}
  /\ UNCHANGED <<sessionVars, deliveryVars, journalVars, restoreVars, requestVars,
                 feedVars, gameplayLoaded>>

CompleteRequest(id, accepted) ==
  \/ IgnoreCompletion(id)
  \/ AnswersPending(id) /\ ReportResult(accepted)

-----------------------------------------------------------------------------
\* The runtime in any environment.

GameReports ==
  \/ \E c \in Checksums : SaveLoaded(c) \/ SaveWritten(c)
  \/ IgnoreSaveWritten
  \/ UpdateReadiness(TRUE, FALSE) \/ UpdateReadiness(FALSE, FALSE)
     \/ UpdateReadiness(FALSE, TRUE)
  \/ \E list \in Lists : ListOpened(list)
  \/ PlayerDied \/ TakeNotification \/ TakeDeathLink

ClientEvents ==
  \/ Connected \/ Disconnected \/ OnSessionEnd \/ OnItemSent \/ OnDeathLink
  \/ \E s \in Sessions, compatible \in BOOLEAN : OnSessionReady(s, compatible)
  \/ \E c \in Checksums, n \in Cursors, accepted \in BOOLEAN :
       OnSaveRevisionAck(c, n, accepted)
  \/ \E c \in Checksums, n \in Cursors, known \in BOOLEAN, items \in SUBSET Items :
       OnSaveContext(c, n, known, items)
  \/ \E i \in Cursors, name \in Items, interactive \in BOOLEAN :
       OnItem(i, name, interactive)

\* Policies and resets are reported at once, items and replays by id.
Results ==
  \/ \E accepted \in BOOLEAN :
       pending.kind \in {"Policies", "Reset"} /\ ReportResult(accepted)
  \/ \E id \in 0..MaxRequests, accepted \in BOOLEAN :
       id <= requestId /\ CompleteRequest(id, accepted)

Next ==
  \/ GameReports
  \/ \E interactive \in BOOLEAN : NextRequest(interactive)
  \/ DrainEnds
  \/ ClientEvents
  \/ Results
  \/ Shutdown
  \/ Restart

Spec == Init /\ [][Next]_vars

-----------------------------------------------------------------------------
\* Properties.

Requests == [kind : RequestKinds, index : Cursors,
             name : Items \cup Sessions \cup {None}]

\* Every variable keeps the type its Rust field has.
TypeOK ==
  /\ session \in Sessions \cup {None}
  /\ active \in BOOLEAN /\ clientConnected \in BOOLEAN
  /\ gameplayLoaded \in BOOLEAN
  /\ context \in Contexts
  /\ checksum \in Checksums \cup {None}
  /\ nextIndex \in Cursors
  /\ journal \in Journals /\ disk \in Journals
  /\ available \in BOOLEAN /\ revisionsPending \in BOOLEAN
  /\ persistentItems \in SUBSET Items
  /\ restore \in [state : RestoreStates, items : SUBSET Items]
  /\ saveLoadPending \in BOOLEAN /\ deferRestoreOnce \in BOOLEAN
  /\ pending \in Requests
  /\ draining \in BOOLEAN
  /\ requestId \in 0..MaxRequests
  /\ notifications \in 0..MaxNotifications
  /\ deathLinks \in 0..MaxDeathLinks
  /\ openedLists \in SUBSET Lists /\ staleDeath \in BOOLEAN

\* While the game applies an item, that item is still the next one of a world
\* whose save is settled and whose restore is over: whatever load, menu,
\* disconnect or journal event came in between either cancelled the request or
\* left all of this as it was (mod.rs OnItem and cancel_gameplay_request).
PendingItemIsNext ==
  pending.kind = "Item" =>
    /\ pending.index = nextIndex
    /\ Ready(context)
    /\ restore.state = "None"
    /\ ~revisionsPending
    /\ session # None

\* report_result never takes one of its "invalid state" exits: a reset or a
\* replay in progress always finds the restore state it was started from.
RequestMatchesRestore ==
  /\ pending.kind = "Reset" => restore.state = "NeedsReset"
  /\ pending.kind = "Replay" =>
       restore.state = "Replaying" /\ pending.name \in restore.items
  /\ pending.kind = "Policies" => session = None

\* The restore waits for a snapshot exactly while the delivery waits for the
\* cursor of the loaded save, so neither can be resolved without the other.
RestoreFollowsCursor ==
  restore.state = "AwaitingSnapshot" <=> context = "AwaitingCursor"

\* A revision that the client must still acknowledge carries the cursor the
\* journal would restore for that save: the client and the plugin cannot be
\* told different cursors for one save.
RevisionMatchesSnapshot ==
  \A s \in Sessions, c \in Checksums :
    journal.pending[s][c] # None =>
      /\ journal.snapshots[s][c] # None
      /\ journal.snapshots[s][c].nextIndex = journal.pending[s][c]

\* While delivery is enabled, a crash costs nothing of the journal: the file
\* holds exactly what the runtime decides with.
AvailableMeansDurable == available => journal = disk

\* A save the journal file knows is never forgotten: not by a failed write, not
\* by a restart that could not read the file, not by a client that disagrees.
JournalNeverForgets ==
  [][\A s \in Sessions, c \in Checksums :
       disk.snapshots[s][c] # None => disk'.snapshots[s][c] # None]_vars

\* Within one world the cursor only moves to the next item, and only when the
\* game reports that item applied: no retransmission, reconnect or stale
\* completion moves it.
CursorAdvancesByItems ==
  [][(context' = context /\ nextIndex' # nextIndex) =>
       /\ pending.kind = "Item" /\ pending' = NoRequest
       /\ nextIndex' = nextIndex + 1]_vars

\* A death that waits to be carried out was received in the world that is loaded
\* now: none has outlived a load of another save, the menu or a reading of no
\* gameplay, to strike the next world, and none waits while no world is loaded
\* (clear_death_links in save_loaded and update_readiness, mod.rs OnDeathLink).
DeathsBelongToLoadedWorld ==
  /\ deathLinks > 0 => gameplayLoaded
  /\ ~staleDeath

\* "Gameplay policy remains latched": whatever sessions come, end, resume or
\* conflict, and however late an installation is reported, the policies of one
\* session are never exchanged for another's while the process lives.
PolicyLatched ==
  [][session # None => session' \in {session, None}]_vars

=============================================================================
