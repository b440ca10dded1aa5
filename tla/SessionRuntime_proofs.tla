------------------------ MODULE SessionRuntime_proofs ------------------------
(***************************************************************************)
(* Machine-checked proofs about SessionRuntime, for every set of sessions, *)
(* checksums and items, every bound and every behaviour of the game and    *)
(* the AP client.                                                          *)
(*                                                                         *)
(* The checked invariants are not inductive one by one: whether a write of *)
(* the journal can lose a save depends on whether a session was latched,   *)
(* that on the pending installation, and the cursor stays in range only    *)
(* because a pending item is the next one.  IInv joins them with what they *)
(* rest on.                                                                *)
(***************************************************************************)
EXTENDS SessionRuntime, TLAPS

\* Every revision of a journal carries the cursor of its snapshot.
Coherent(j) ==
  \A s \in Sessions, c \in Checksums :
    j.pending[s][c] # None =>
      /\ j.snapshots[s][c] # None
      /\ j.snapshots[s][c].nextIndex = j.pending[s][c]

\* Journal k knows every save that journal j knows.
Remembers(k, j) ==
  \A s \in Sessions, c \in Checksums :
    j.snapshots[s][c] # None => k.snapshots[s][c] # None

\* What is known of the request that is being worked on.
RequestInv ==
  /\ PendingItemIsNext
  /\ RequestMatchesRestore
  /\ pending.kind = "Item" => pending.index # MaxIndex /\ pending.name \in Items
  /\ pending.kind \in {"Reset", "Replay"} => session # None
  /\ pending.kind = "Policies" => pending.name \in Sessions /\ available
  /\ draining => pending = NoRequest

CursorInv ==
  /\ RestoreFollowsCursor
  /\ context \in {"Waiting", "AwaitingCursor"} => nextIndex = 0

SessionInv == active => session # None

\* Also the file is coherent, for it may be what the next process starts from;
\* and once a session may write, the runtime knows all that the file does.
JournalInv ==
  /\ Coherent(journal) /\ Coherent(disk)
  /\ AvailableMeansDurable
  /\ session # None => Remembers(journal, disk)

\* TypeOK in two halves, which different provers are good at: SMT does the data,
\* Zenon the Boolean flags.
DataTypeOK ==
  /\ session \in Sessions \cup {None}
  /\ context \in Contexts
  /\ checksum \in Checksums \cup {None}
  /\ nextIndex \in Cursors
  /\ journal \in Journals /\ disk \in Journals
  /\ persistentItems \in SUBSET Items
  /\ restore \in [state : RestoreStates, items : SUBSET Items]
  /\ pending \in Requests
  /\ requestId \in 0..MaxRequests
  /\ notifications \in 0..MaxNotifications
  /\ deathLinks \in 0..MaxDeathLinks
  /\ openedLists \in SUBSET Lists

FlagTypeOK ==
  /\ active \in BOOLEAN /\ clientConnected \in BOOLEAN
  /\ gameplayLoaded \in BOOLEAN
  /\ available \in BOOLEAN /\ revisionsPending \in BOOLEAN
  /\ saveLoadPending \in BOOLEAN /\ deferRestoreOnce \in BOOLEAN
  /\ draining \in BOOLEAN /\ staleDeath \in BOOLEAN

LEMMA TypeHalves == TypeOK <=> DataTypeOK /\ FlagTypeOK
BY DEF TypeOK, DataTypeOK, FlagTypeOK

IInv == DataTypeOK /\ FlagTypeOK /\ RequestInv /\ CursorInv /\ SessionInv /\ JournalInv

-----------------------------------------------------------------------------
\* The journal operations.

\* Recording a save yields a journal that is coherent when the old one was, and
\* forgets nothing (RevisionJournal::record).
LEMMA RecordLemma ==
  ASSUME NEW j \in Journals, NEW s \in Sessions, NEW c \in Checksums,
         NEW n \in Cursors, NEW items \in SUBSET Items
  PROVE  /\ Record(j, s, c, n, items) \in Journals
         /\ Coherent(j) => Coherent(Record(j, s, c, n, items))
         /\ Remembers(Record(j, s, c, n, items), j)
<1> DEFINE k == Record(j, s, c, n, items)
           snap == [nextIndex |-> n, items |-> items]
<1>1. snap \in Snapshots /\ snap # None
  BY NoneAssumption, SlotAssumption DEF Snapshots
<1>2. k \in Journals
  BY <1>1 DEF Record, Journals
<1>3. ASSUME NEW t \in Sessions, NEW d \in Checksums
      PROVE  /\ k.snapshots[t][d] = IF t = s /\ d = c THEN snap
                                    ELSE j.snapshots[t][d]
             /\ k.pending[t][d] = IF t = s /\ d = c THEN n ELSE j.pending[t][d]
  BY DEF Record, Journals
<1>4. Remembers(k, j)
  BY <1>1, <1>3 DEF Remembers
<1>5. ASSUME Coherent(j) PROVE Coherent(k)
  BY <1>1, <1>3, <1>5 DEF Coherent
<1> QED BY <1>2, <1>4, <1>5

\* Storing the snapshot of a save the journal did not know
\* (RevisionSync::recover_snapshot).
LEMMA StoreSnapshotLemma ==
  ASSUME NEW j \in Journals, NEW s \in Sessions, NEW c \in Checksums,
         NEW n \in Cursors, NEW items \in SUBSET Items
  PROVE  /\ StoreSnapshot(j, s, c, n, items) \in Journals
         /\ Coherent(j) /\ j.snapshots[s][c] = None =>
              Coherent(StoreSnapshot(j, s, c, n, items))
         /\ Remembers(StoreSnapshot(j, s, c, n, items), j)
<1> DEFINE k == StoreSnapshot(j, s, c, n, items)
           snap == [nextIndex |-> n, items |-> items]
<1>1. snap \in Snapshots /\ snap # None
  BY NoneAssumption, SlotAssumption DEF Snapshots
<1>2. k \in Journals
  BY <1>1 DEF StoreSnapshot, Journals
<1>3. ASSUME NEW t \in Sessions, NEW d \in Checksums
      PROVE  /\ k.snapshots[t][d] = IF t = s /\ d = c THEN snap
                                    ELSE j.snapshots[t][d]
             /\ k.pending[t][d] = j.pending[t][d]
  BY DEF StoreSnapshot, Journals
<1>4. Remembers(k, j)
  BY <1>1, <1>3 DEF Remembers
<1>5. ASSUME Coherent(j), j.snapshots[s][c] = None PROVE Coherent(k)
  BY <1>1, <1>3, <1>5 DEF Coherent
<1> QED BY <1>2, <1>4, <1>5

\* Dropping an acknowledged revision (RevisionJournal::acknowledge).
LEMMA AcknowledgedLemma ==
  ASSUME NEW j \in Journals, NEW s \in Sessions, NEW c \in Checksums
  PROVE  /\ Acknowledged(j, s, c) \in Journals
         /\ Coherent(j) => Coherent(Acknowledged(j, s, c))
         /\ Remembers(Acknowledged(j, s, c), j)
<1> DEFINE k == Acknowledged(j, s, c)
<1>1. k \in Journals
  BY DEF Acknowledged, Journals
<1>2. ASSUME NEW t \in Sessions, NEW d \in Checksums
      PROVE  /\ k.snapshots[t][d] = j.snapshots[t][d]
             /\ k.pending[t][d] = IF t = s /\ d = c THEN None
                                  ELSE j.pending[t][d]
  BY DEF Acknowledged, Journals
<1>3. Remembers(k, j)
  BY <1>2 DEF Remembers
<1>4. ASSUME Coherent(j) PROVE Coherent(k)
  BY <1>2, <1>4 DEF Coherent
<1> QED BY <1>1, <1>3, <1>4

\* An empty journal knows nothing, which is coherent.
LEMMA EmptyJournalLemma == EmptyJournal \in Journals /\ Coherent(EmptyJournal)
BY DEF EmptyJournal, Journals, Coherent

-----------------------------------------------------------------------------
\* Every operation of the runtime preserves IInv.

\* The runtime starts in IInv.
LEMMA InitLemma == Init => IInv
<1> SUFFICES ASSUME Init PROVE IInv
  OBVIOUS
<1> USE DEF Init, InitVolatile, NoRequest, NoRestore
<1>1. FlagTypeOK
  BY DEF FlagTypeOK
<1>2. DataTypeOK
  BY EmptyJournalLemma, BoundsAssumption, SlotAssumption
     DEF DataTypeOK, Contexts, Cursors, RestoreStates, Requests, RequestKinds
<1>3. RequestInv /\ CursorInv /\ SessionInv
  BY DEF RequestInv, PendingItemIsNext, RequestMatchesRestore, CursorInv,
         RestoreFollowsCursor, SessionInv
<1>4. JournalInv
  BY EmptyJournalLemma DEF JournalInv, AvailableMeansDurable, Remembers
<1> QED BY <1>1, <1>2, <1>3, <1>4 DEF IInv

\* A request that is handed out has the type of a request.
LEMMA HandOutLemma ==
  ASSUME NEW k \in RequestKinds, NEW i \in Cursors,
         NEW n \in Items \cup Sessions \cup {None},
         requestId \in 0..MaxRequests,
         HandOut([kind |-> k, index |-> i, name |-> n])
  PROVE  pending' \in Requests /\ requestId' \in 0..MaxRequests
BY BoundsAssumption, SlotAssumption DEF HandOut, Requests

\* Events that only touch the connection, the HUD or the death queue, and
\* results nobody waits for.
LEMMA QuietLemma ==
  ASSUME IInv,
         \/ IgnoreSaveWritten \/ PlayerDied \/ TakeNotification \/ TakeDeathLink
         \/ \E list \in Lists : ListOpened(list)
         \/ DrainEnds \/ Connected \/ Disconnected \/ OnSessionEnd
         \/ OnItemSent \/ OnDeathLink
         \/ \E id \in 0..MaxRequests : IgnoreCompletion(id)
         \/ UNCHANGED vars
  PROVE  IInv'
<1> USE DEF IInv, IgnoreSaveWritten, PlayerDied, TakeNotification, TakeDeathLink,
            ListOpened, DrainEnds, Connected, Disconnected, OnSessionEnd,
            OnItemSent, OnDeathLink, IgnoreCompletion, vars, sessionVars,
            deliveryVars, journalVars, restoreVars, requestVars, feedVars
<1>1. /\ UNCHANGED <<session, deliveryVars, journalVars, restoreVars, pending,
                     requestId>>
      /\ active' => active
      /\ draining' => draining
  OBVIOUS
<1>2. FlagTypeOK'
  <2>1. UNCHANGED staleDeath
    OBVIOUS
  <2>2. /\ active' \in BOOLEAN /\ clientConnected' \in BOOLEAN
        /\ gameplayLoaded' \in BOOLEAN /\ draining' \in BOOLEAN
    BY Zenon DEF FlagTypeOK
  <2>3. /\ available' \in BOOLEAN /\ revisionsPending' \in BOOLEAN
        /\ saveLoadPending' \in BOOLEAN /\ deferRestoreOnce' \in BOOLEAN
    BY Zenon DEF FlagTypeOK
  <2> QED BY <2>1, <2>2, <2>3, Zenon DEF FlagTypeOK
<1>3. /\ notifications' \in 0..MaxNotifications
      /\ deathLinks' \in 0..MaxDeathLinks
      /\ openedLists' \in SUBSET Lists
  BY BoundsAssumption, SlotAssumption DEF DataTypeOK, Pushed
<1>4. DataTypeOK'
  BY <1>1, <1>3 DEF DataTypeOK
<1> HIDE DEF IgnoreSaveWritten, PlayerDied, TakeNotification, TakeDeathLink,
            ListOpened, DrainEnds, Connected, Disconnected, OnSessionEnd,
            OnItemSent, OnDeathLink, IgnoreCompletion
<1>5. RequestInv' /\ CursorInv' /\ SessionInv'
  BY <1>1 DEF RequestInv, PendingItemIsNext, RequestMatchesRestore, CursorInv,
              RestoreFollowsCursor, SessionInv, Ready, NoRequest
<1>6. JournalInv'
  BY <1>1 DEF JournalInv, AvailableMeansDurable
<1> QED BY <1>2, <1>4, <1>5, <1>6

\* A load cancels the request and makes cursor and restore wait together.
LEMMA SaveLoadedLemma ==
  ASSUME NEW c \in Checksums, IInv, SaveLoaded(c)
  PROVE  IInv'
<1> USE DEF IInv, SaveLoaded, DeathsAfterLoad, CancelGameplayRequest, NoRequest, NoRestore,
            Ready, sessionVars, deliveryVars, journalVars, restoreVars,
            requestVars, feedVars
<1>1. FlagTypeOK'
  BY Zenon DEF FlagTypeOK
<1>2. DataTypeOK'
  BY BoundsAssumption, SlotAssumption, PolicyAssumption
     DEF DataTypeOK, Requests, Cursors, Contexts, RestoreStates, RequestKinds
<1>3. RequestInv'
  BY NoneAssumption, SlotAssumption
     DEF RequestInv, PendingItemIsNext, RequestMatchesRestore
<1>4. CursorInv'
  BY DEF CursorInv, RestoreFollowsCursor, RequestInv, RequestMatchesRestore
<1>5. SessionInv' /\ JournalInv'
  BY DEF SessionInv, JournalInv, AvailableMeansDurable
<1> QED BY <1>1, <1>2, <1>3, <1>4, <1>5

\* Writing the journal file keeps the file coherent and, where delivery stays
\* enabled, equal to the journal.
LEMMA SaveWrittenLemma ==
  ASSUME NEW c \in Checksums, IInv, SaveWritten(c)
  PROVE  IInv'
<1> USE DEF IInv, SaveWritten, sessionVars, deliveryVars, journalVars,
            restoreVars, requestVars, feedVars
<1>1. CASE session = None \/ ~available
  <2>1. UNCHANGED journalVars
    BY <1>1
  <2>2. FlagTypeOK'
    BY <2>1 DEF FlagTypeOK
  <2>3. DataTypeOK'
    BY <2>1 DEF DataTypeOK, Contexts
  <2>4. RequestInv' /\ CursorInv' /\ SessionInv'
    BY <2>1 DEF RequestInv, PendingItemIsNext, RequestMatchesRestore, CursorInv,
                RestoreFollowsCursor, SessionInv, Ready, NoRequest
  <2>5. JournalInv'
    BY <2>1 DEF JournalInv, AvailableMeansDurable
  <2> QED BY <2>2, <2>3, <2>4, <2>5
<1>2. CASE session # None /\ available
  <2>1. PICK ok \in PersistOutcomes :
          /\ journal' = Record(journal, session, c, nextIndex, persistentItems)
          /\ Persist(journal', ok)
          /\ UNCHANGED revisionsPending
    BY <1>2
  <2>2. /\ journal' \in Journals
        /\ Coherent(journal) => Coherent(journal')
        /\ Remembers(journal', journal)
    BY <1>2, <2>1, RecordLemma DEF DataTypeOK
  <2>3. /\ disk' \in Journals /\ (disk' = journal' \/ disk' = disk)
        /\ available' => disk' = journal'
        /\ available' \in BOOLEAN
    BY <1>2, <2>1, <2>2 DEF Persist, DataTypeOK
  <2>4. FlagTypeOK'
    BY <2>1, <2>3 DEF FlagTypeOK
  <2>5. DataTypeOK'
    BY <2>2, <2>3 DEF DataTypeOK, Contexts
  <2>6. RequestInv' /\ CursorInv' /\ SessionInv'
    BY <1>2, <2>1 DEF RequestInv, PendingItemIsNext, RequestMatchesRestore,
                      CursorInv, RestoreFollowsCursor, SessionInv, Ready, NoRequest
  <2>7. JournalInv'
    BY <1>2, <2>2, <2>3 DEF JournalInv, AvailableMeansDurable, Remembers
  <2> QED BY <2>4, <2>5, <2>6, <2>7
<1> QED BY <1>1, <1>2 DEF FlagTypeOK

\* Leaving for the menu drops the cursor, the request and the restore together.
LEMMA UpdateReadinessLemma ==
  ASSUME NEW m \in BOOLEAN, NEW l \in BOOLEAN, IInv, UpdateReadiness(m, l)
  PROVE  IInv'
<1> USE DEF IInv, UpdateReadiness, EndsWorld, DeathsAfterReadiness,
            CancelGameplayRequest, NoRequest, NoRestore, Ready, sessionVars,
            deliveryVars, journalVars, restoreVars, requestVars, feedVars
<1>1. FlagTypeOK'
  BY Zenon DEF FlagTypeOK
<1>2. DataTypeOK'
  BY BoundsAssumption, SlotAssumption, PolicyAssumption
     DEF DataTypeOK, Requests, Cursors, Contexts, RestoreStates, RequestKinds
<1>3. RequestInv'
  BY NoneAssumption, SlotAssumption
     DEF RequestInv, PendingItemIsNext, RequestMatchesRestore
<1>4. CursorInv'
  BY DEF CursorInv, RestoreFollowsCursor, RequestInv, RequestMatchesRestore
<1>5. SessionInv' /\ JournalInv'
  BY DEF SessionInv, JournalInv, AvailableMeansDurable
<1> QED BY <1>1, <1>2, <1>3, <1>4, <1>5

\* A request for restore work is handed out from the restore state it needs.
LEMMA NextRequestLemma ==
  ASSUME NEW b \in BOOLEAN, IInv, NextRequest(b)
  PROVE  IInv'
<1> USE DEF IInv, NextRequest, SkipDeferredRestore, RequestReset,
            RequestReplay, FinishEmptyReplay, NothingToRestore, RestoreDue,
            HandOut, NoRequest, NoRestore, Ready, sessionVars, deliveryVars,
            journalVars, restoreVars, requestVars, feedVars
<1>1. FlagTypeOK'
  BY Zenon DEF FlagTypeOK
<1>2. DataTypeOK'
  BY BoundsAssumption, SlotAssumption, PolicyAssumption
     DEF DataTypeOK, Requests, Cursors, Contexts, RestoreStates, RequestKinds
<1>3. RequestInv'
  BY NoneAssumption, SlotAssumption
     DEF RequestInv, PendingItemIsNext, RequestMatchesRestore
<1>4. CursorInv'
  BY DEF CursorInv, RestoreFollowsCursor, RequestInv, RequestMatchesRestore
<1>5. SessionInv' /\ JournalInv'
  BY DEF SessionInv, JournalInv, AvailableMeansDurable
<1> QED BY <1>1, <1>2, <1>3, <1>4, <1>5

\* The first session's policies are handed out while the journal is durable; a
\* conflicting one changes nothing.
LEMMA OnSessionReadyLemma ==
  ASSUME NEW s \in Sessions, NEW b \in BOOLEAN, IInv, OnSessionReady(s, b)
  PROVE  IInv'
<1> USE DEF IInv, sessionVars, deliveryVars, journalVars, restoreVars,
            requestVars, feedVars
<1>1. /\ draining /\ pending = NoRequest
      /\ UNCHANGED <<session, clientConnected, deliveryVars, journal, disk,
                     available, restoreVars, notifications, deathLinks,
                     staleDeath, gameplayLoaded>>
  BY DEF OnSessionReady, RequestInv
<1>2. /\ openedLists' \in SUBSET Lists /\ revisionsPending' \in BOOLEAN
      /\ active' \in BOOLEAN /\ (active' => session # None)
  <2>1. UNCHANGED <<active, revisionsPending, openedLists>> \/ BeginSync(s)
    BY DEF OnSessionReady
  <2>2. active' = active \/ (active' = TRUE /\ session = s)
    BY DEF OnSessionReady
  <2>3. openedLists' \in SUBSET Lists /\ revisionsPending' \in BOOLEAN
    BY <2>1 DEF BeginSync, DataTypeOK, FlagTypeOK
  <2>4. active' \in BOOLEAN
    BY <2>2 DEF FlagTypeOK
  <2>5. active' => session # None
    BY <2>2, NoneAssumption, SlotAssumption DEF SessionInv
  <2> QED BY <2>3, <2>4, <2>5
<1>3. \/ UNCHANGED requestVars
      \/ /\ HandOut([kind |-> "Policies", index |-> 0, name |-> s])
         /\ session = None /\ available /\ ~draining'
  BY DEF OnSessionReady, NeedsPolicies, SessionRefused
<1>4. pending' \in Requests /\ requestId' \in 0..MaxRequests
  <2>1. 0 \in Cursors /\ "Policies" \in RequestKinds
    BY BoundsAssumption, SlotAssumption DEF Cursors, RequestKinds
  <2> QED BY <1>3, <2>1, HandOutLemma DEF DataTypeOK
<1>5. FlagTypeOK'
  <2>1. draining' = draining \/ draining' = FALSE
    BY <1>3 DEF OnSessionReady
  <2> QED BY <1>1, <1>2, <2>1 DEF FlagTypeOK
<1>6. DataTypeOK'
  BY <1>1, <1>2, <1>4 DEF DataTypeOK
<1>7. RequestInv'
  <2>1. CASE UNCHANGED requestVars
    BY <1>1, <2>1 DEF RequestInv, PendingItemIsNext, RequestMatchesRestore, NoRequest
  <2>2. CASE /\ HandOut([kind |-> "Policies", index |-> 0, name |-> s])
             /\ session = None /\ available /\ ~draining'
    BY <1>1, <2>2 DEF HandOut, RequestInv, PendingItemIsNext, RequestMatchesRestore
  <2> QED BY <1>3, <2>1, <2>2
<1>8. CursorInv' /\ SessionInv' /\ JournalInv'
  BY <1>1, <1>2 DEF CursorInv, RestoreFollowsCursor, SessionInv, JournalInv,
                    AvailableMeansDurable
<1> QED BY <1>5, <1>6, <1>7, <1>8

\* An acknowledged revision leaves a coherent journal, durable or not.
LEMMA OnSaveRevisionAckLemma ==
  ASSUME NEW c \in Checksums, NEW n \in Cursors, NEW b \in BOOLEAN, IInv,
         OnSaveRevisionAck(c, n, b)
  PROVE  IInv'
<1> USE DEF IInv, sessionVars, deliveryVars, journalVars, restoreVars,
            requestVars, feedVars
<1>1. /\ draining /\ pending = NoRequest
      /\ UNCHANGED <<sessionVars, deliveryVars, restoreVars, requestVars, feedVars,
                     gameplayLoaded>>
  BY DEF OnSaveRevisionAck, RequestInv
<1>2. /\ journal' \in Journals /\ disk' \in Journals
      /\ available' \in BOOLEAN /\ revisionsPending' \in BOOLEAN
      /\ JournalInv'
  <2>1. CASE UNCHANGED journalVars
    BY <1>1, <2>1 DEF JournalInv, AvailableMeansDurable, DataTypeOK, FlagTypeOK
  <2>2. CASE AckMatches(c, n, b) /\ ~UNCHANGED journalVars
    <3>1. journal' = Acknowledged(journal, session, c) /\ session \in Sessions
      BY <2>2 DEF OnSaveRevisionAck, AckMatches, DataTypeOK
    <3>2. PICK ok \in PersistOutcomes : Persist(journal', ok)
      BY <2>2 DEF OnSaveRevisionAck
    <3>3. revisionsPending' \in BOOLEAN
      BY <2>2 DEF OnSaveRevisionAck, FlagTypeOK
    <3>4. /\ journal' \in Journals
          /\ Coherent(journal) => Coherent(journal')
          /\ Remembers(journal', journal)
      BY <3>1, AcknowledgedLemma DEF DataTypeOK
    <3>5. /\ disk' \in Journals /\ (disk' = journal' \/ disk' = disk)
          /\ available' \in BOOLEAN
          /\ available' => disk' = journal'
      BY <3>2, <3>4 DEF Persist, DataTypeOK, FlagTypeOK
    <3>6. JournalInv'
      BY <1>1, <3>1, <3>4, <3>5, NoneAssumption, SlotAssumption
         DEF JournalInv, AvailableMeansDurable, Remembers
    <3> QED BY <3>3, <3>4, <3>5, <3>6
  <2> QED BY <2>1, <2>2 DEF OnSaveRevisionAck
<1>3. FlagTypeOK'
  BY <1>1, <1>2 DEF FlagTypeOK
<1>4. DataTypeOK'
  BY <1>1, <1>2 DEF DataTypeOK
<1>5. RequestInv' /\ CursorInv' /\ SessionInv'
  BY <1>1 DEF RequestInv, PendingItemIsNext, RequestMatchesRestore, CursorInv,
              RestoreFollowsCursor, SessionInv, NoRequest
<1> QED BY <1>2, <1>3, <1>4, <1>5

\* A save context resolves cursor and restore in one step; recovering a snapshot
\* the journal lacked keeps the journal coherent.
LEMMA OnSaveContextLemma ==
  ASSUME NEW c \in Checksums, NEW n \in Cursors, NEW b \in BOOLEAN,
         NEW items \in SUBSET Items, IInv, OnSaveContext(c, n, b, items)
  PROVE  IInv'
<1> USE DEF IInv, sessionVars, deliveryVars, journalVars, restoreVars,
            requestVars, feedVars
<1>1. /\ draining /\ pending = NoRequest
      /\ UNCHANGED <<sessionVars, checksum, revisionsPending, saveLoadPending,
                     requestVars, feedVars, gameplayLoaded>>
  BY DEF OnSaveContext, RequestInv
<1>2. \/ UNCHANGED <<context, nextIndex, persistentItems, restore, deferRestoreOnce>>
      \/ /\ nextIndex' = n /\ context' = "ActiveRevision"
         /\ persistentItems' = items
         /\ restore' = [state |-> "NeedsReset", items |-> items]
         /\ deferRestoreOnce' = FALSE
  BY DEF OnSaveContext, RejectSaveContext, ActivateSave
<1>3. /\ journal' \in Journals /\ disk' \in Journals
      /\ available' \in BOOLEAN /\ JournalInv'
  <2>1. CASE UNCHANGED <<journal, disk, available>>
    BY <1>1, <2>1 DEF JournalInv, AvailableMeansDurable, DataTypeOK, FlagTypeOK
  <2>2. CASE ~UNCHANGED <<journal, disk, available>>
    <3> DEFINE k == StoreSnapshot(journal, session, c, n, items)
    <3>1. PICK ok \in PersistOutcomes :
            /\ Persist(k, ok)
            /\ IF ok THEN journal' = k ELSE UNCHANGED journal
      BY <2>2 DEF OnSaveContext
    <3>2. active /\ journal.snapshots[session][c] = None
      BY <2>2 DEF OnSaveContext, ContextWelcome
    <3>3. session \in Sessions
      BY <3>2 DEF SessionInv, DataTypeOK
    <3>4. /\ k \in Journals /\ Coherent(k) /\ Remembers(k, journal)
      BY <3>2, <3>3, StoreSnapshotLemma DEF DataTypeOK, JournalInv
    <3> HIDE DEF k
    <3>5. CASE ok
      <4>1. journal' = k /\ disk' = k /\ available' = available
        BY <3>1, <3>5 DEF Persist
      <4> QED BY <1>1, <3>4, <4>1
              DEF JournalInv, AvailableMeansDurable, Remembers, FlagTypeOK
    <3>6. CASE ~ok
      <4>1. journal' = journal /\ disk' = disk /\ available' = FALSE
        BY <3>1, <3>6 DEF Persist
      <4> QED BY <1>1, <4>1 DEF JournalInv, AvailableMeansDurable, DataTypeOK
    <3> QED BY <3>5, <3>6
  <2> QED BY <2>1, <2>2
<1>4. FlagTypeOK'
  BY <1>1, <1>2, <1>3 DEF FlagTypeOK
<1>5. DataTypeOK'
  BY <1>1, <1>2, <1>3 DEF DataTypeOK, Contexts, RestoreStates
<1>6. RequestInv' /\ CursorInv' /\ SessionInv'
  BY <1>1, <1>2 DEF RequestInv, PendingItemIsNext, RequestMatchesRestore,
                    CursorInv, RestoreFollowsCursor, SessionInv, NoRequest
<1> QED BY <1>3, <1>4, <1>5, <1>6

\* An item is handed out only as the next one of a settled, restored world.
LEMMA OnItemLemma ==
  ASSUME NEW i \in Cursors, NEW name \in Items, NEW b \in BOOLEAN, IInv,
         OnItem(i, name, b)
  PROVE  IInv'
<1> USE DEF IInv, sessionVars, deliveryVars, journalVars, restoreVars,
            requestVars, feedVars
<1>1. /\ draining /\ pending = NoRequest
      /\ UNCHANGED <<sessionVars, deliveryVars, journalVars, restoreVars, feedVars,
                     gameplayLoaded>>
  BY DEF OnItem, RequestInv
<1>2. \/ UNCHANGED requestVars
      \/ /\ HandOut([kind |-> "Item", index |-> i, name |-> name])
         /\ DeliveryOpen(b) /\ NextInLine(i) /\ draining' = FALSE
  BY DEF OnItem
<1>3. pending' \in Requests /\ requestId' \in 0..MaxRequests
  BY <1>2, HandOutLemma DEF DataTypeOK, RequestKinds
<1>4. FlagTypeOK'
  BY <1>1, <1>2 DEF FlagTypeOK
<1>5. DataTypeOK'
  BY <1>1, <1>3 DEF DataTypeOK
<1>6. RequestInv'
  <2>1. CASE UNCHANGED requestVars
    BY <1>1, <2>1 DEF RequestInv, PendingItemIsNext, RequestMatchesRestore, NoRequest
  <2>2. CASE ~UNCHANGED requestVars
    <3>1. /\ pending' = [kind |-> "Item", index |-> i, name |-> name]
          /\ DeliveryOpen(b) /\ NextInLine(i) /\ draining' = FALSE
      BY <1>2, <2>2 DEF HandOut
    <3>2. Ready(context)' <=> Ready(context)
      BY <1>1 DEF Ready
    <3> QED BY <1>1, <3>1, <3>2
            DEF RequestInv, PendingItemIsNext, RequestMatchesRestore, DeliveryOpen,
                NextInLine, SessionInv
  <2> QED BY <2>1, <2>2
<1>7. CursorInv' /\ SessionInv' /\ JournalInv'
  BY <1>1 DEF CursorInv, RestoreFollowsCursor, SessionInv, JournalInv,
              AvailableMeansDurable
<1> QED BY <1>4, <1>5, <1>6, <1>7

\* A result finds the state its request was made in: an item the cursor, a reset
\* and a replay their restore, an installation a durable journal.
LEMMA ReportResultLemma ==
  ASSUME NEW b \in BOOLEAN, IInv, ReportResult(b)
  PROVE  IInv'
<1> USE DEF IInv, sessionVars, deliveryVars, journalVars, restoreVars,
            requestVars, feedVars
<1>1. /\ ~draining /\ pending' = NoRequest
      /\ UNCHANGED <<clientConnected, context, checksum, journal, disk, available,
                     draining, requestId, deathLinks, staleDeath, gameplayLoaded>>
  BY DEF ReportResult
<1>2. pending' \in Requests
  BY <1>1, BoundsAssumption, SlotAssumption
     DEF Requests, NoRequest, RequestKinds, Cursors
<1>3. RequestInv'
  BY <1>1 DEF RequestInv, PendingItemIsNext, RequestMatchesRestore, NoRequest
<1>4. CASE InstallResult(b)
  <2>1. /\ session' \in Sessions \cup {None} /\ openedLists' \in SUBSET Lists
        /\ active' \in BOOLEAN /\ revisionsPending' \in BOOLEAN
        /\ SessionInv'
        /\ UNCHANGED <<restoreVars, nextIndex, notifications>>
    BY <1>4, NoneAssumption, SlotAssumption
       DEF InstallResult, BeginSync, RequestInv, DataTypeOK, FlagTypeOK, SessionInv
  <2>2. JournalInv'
    <3>1. available /\ journal = disk
      BY <1>4 DEF InstallResult, RequestInv, JournalInv, AvailableMeansDurable
    <3> QED BY <1>1, <3>1 DEF JournalInv, AvailableMeansDurable, Remembers
  <2>3. FlagTypeOK'
    BY <1>1, <2>1 DEF FlagTypeOK
  <2>4. DataTypeOK' /\ CursorInv'
    BY <1>1, <1>2, <2>1 DEF DataTypeOK, CursorInv, RestoreFollowsCursor
  <2> QED BY <1>3, <2>1, <2>2, <2>3, <2>4
<1>5. CASE ResetResult(b) \/ ReplayResult(b) \/ ItemResult(b)
  <2>1. UNCHANGED <<session, active, revisionsPending, openedLists, saveLoadPending>>
    BY <1>5 DEF ResetResult, ReplayResult, ItemResult
  <2>2. /\ nextIndex' \in Cursors /\ persistentItems' \in SUBSET Items
        /\ notifications' \in 0..MaxNotifications
    <3>1. CASE ResetResult(b) \/ ReplayResult(b)
      BY <3>1 DEF ResetResult, ReplayResult, DataTypeOK
    <3>2. CASE ItemResult(b)
      <4>1. pending.index + 1 \in Cursors /\ pending.name \in Items
        BY <3>2, BoundsAssumption, SlotAssumption
           DEF ItemResult, RequestInv, PendingItemIsNext, DataTypeOK, Cursors
      <4>2. Pushed(notifications, MaxNotifications) \in 0..MaxNotifications
        BY BoundsAssumption, SlotAssumption DEF Pushed, DataTypeOK
      <4> QED BY <3>2, <4>1, <4>2 DEF ItemResult, DataTypeOK
    <3> QED BY <1>5, <3>1, <3>2
  <2>3. /\ restore' \in [state : RestoreStates, items : SUBSET Items]
        /\ restore'.state = "AwaitingSnapshot" <=> restore.state = "AwaitingSnapshot"
    <3>1. CASE ResetResult(b)
      BY <3>1 DEF ResetResult, RequestInv, RequestMatchesRestore, DataTypeOK,
                  RestoreStates
    <3>2. CASE ReplayResult(b)
      BY <3>2 DEF ReplayResult, RequestInv, RequestMatchesRestore, DataTypeOK,
                  RestoreStates, NoRestore
    <3>3. CASE ItemResult(b)
      BY <3>3 DEF ItemResult, DataTypeOK
    <3> QED BY <1>5, <3>1, <3>2, <3>3
  <2>4. context \in {"Waiting", "AwaitingCursor"} => nextIndex' = nextIndex
    BY <1>5 DEF ResetResult, ReplayResult, ItemResult, RequestInv,
                PendingItemIsNext, Ready
  <2>5. deferRestoreOnce' \in BOOLEAN
    BY <1>5 DEF ResetResult, ReplayResult, ItemResult, FlagTypeOK
  <2>6. FlagTypeOK'
    BY <1>1, <2>1, <2>5 DEF FlagTypeOK
  <2>7. DataTypeOK'
    BY <1>1, <1>2, <2>1, <2>2, <2>3 DEF DataTypeOK
  <2>8. CursorInv' /\ SessionInv' /\ JournalInv'
    BY <1>1, <2>1, <2>3, <2>4 DEF CursorInv, RestoreFollowsCursor, SessionInv,
                                  JournalInv, AvailableMeansDurable
  <2> QED BY <1>3, <2>6, <2>7, <2>8
<1> QED BY <1>4, <1>5 DEF ReportResult

\* Stopping drops the request and the connection and leaves the rest.
LEMMA ShutdownLemma ==
  ASSUME IInv, Shutdown
  PROVE  IInv'
<1> USE DEF IInv, Shutdown, NoRequest, NoRestore, Ready, sessionVars,
            deliveryVars, journalVars, restoreVars, requestVars, feedVars
<1>1. FlagTypeOK'
  BY Zenon DEF FlagTypeOK
<1>2. DataTypeOK'
  BY BoundsAssumption, SlotAssumption, PolicyAssumption
     DEF DataTypeOK, Requests, Cursors, Contexts, RestoreStates, RequestKinds
<1>3. RequestInv'
  BY NoneAssumption, SlotAssumption
     DEF RequestInv, PendingItemIsNext, RequestMatchesRestore
<1>4. CursorInv'
  BY DEF CursorInv, RestoreFollowsCursor, RequestInv, RequestMatchesRestore
<1>5. SessionInv' /\ JournalInv'
  BY DEF SessionInv, JournalInv, AvailableMeansDurable
<1> QED BY <1>1, <1>2, <1>3, <1>4, <1>5

\* A new process has no session and takes the file as it finds it.
LEMMA RestartLemma ==
  ASSUME IInv, Restart
  PROVE  IInv'
<1> USE DEF IInv, Restart
<1>1. /\ available' \in BOOLEAN /\ (available' => journal' = disk)
      /\ journal' = disk \/ journal' = EmptyJournal
  BY DEF LoadJournal
<1>2. FlagTypeOK'
  BY <1>1 DEF FlagTypeOK
<1>3. journal' \in Journals /\ Coherent(journal)'
  BY <1>1, EmptyJournalLemma DEF DataTypeOK, JournalInv
<1>4. DataTypeOK'
  BY <1>3, BoundsAssumption, SlotAssumption
     DEF DataTypeOK, Contexts, RestoreStates, NoRequest, NoRestore, Requests,
         RequestKinds, Cursors
<1>5. RequestInv' /\ CursorInv' /\ SessionInv'
  BY DEF RequestInv, PendingItemIsNext, RequestMatchesRestore, CursorInv,
         RestoreFollowsCursor, SessionInv, NoRequest, NoRestore
<1>6. JournalInv'
  BY <1>1, <1>3 DEF JournalInv, AvailableMeansDurable
<1> QED BY <1>2, <1>4, <1>5, <1>6

-----------------------------------------------------------------------------
\* IInv is inductive, and with it hold the properties the runs check.

LEMMA StepLemma ==
  ASSUME IInv, [Next]_vars
  PROVE  IInv'
<1>1. CASE GameReports
  BY <1>1, SaveLoadedLemma, SaveWrittenLemma, UpdateReadinessLemma, QuietLemma
     DEF GameReports
<1>2. CASE \E interactive \in BOOLEAN : NextRequest(interactive)
  BY <1>2, NextRequestLemma
<1>3. CASE ClientEvents
  BY <1>3, OnSessionReadyLemma, OnSaveRevisionAckLemma, OnSaveContextLemma,
     OnItemLemma, QuietLemma DEF ClientEvents
<1>4. CASE Results
  BY <1>4, ReportResultLemma, QuietLemma DEF Results, CompleteRequest
<1>5. CASE DrainEnds \/ Shutdown \/ Restart \/ UNCHANGED vars
  BY <1>5, ShutdownLemma, RestartLemma, QuietLemma
<1> QED BY <1>1, <1>2, <1>3, <1>4, <1>5 DEF Next

\* The inductive invariant holds in every reachable state.
THEOREM Inductive == Spec => []IInv
BY InitLemma, StepLemma, PTL DEF Spec

\* Type correctness: above all, the cursor stays a u64 although it is
\* incremented, because no item with index u64::MAX is handed out.
THEOREM TypeCorrect == Spec => []TypeOK
<1>1. IInv => TypeOK
  BY TypeHalves DEF IInv
<1> QED BY <1>1, Inductive, PTL

\* The item being applied is always the next item of the settled world
\* (OnItem against every load, menu, disconnect and revision in between).
THEOREM PendingItem == Spec => []PendingItemIsNext
<1>1. IInv => PendingItemIsNext
  BY DEF IInv, RequestInv
<1> QED BY <1>1, Inductive, PTL

\* report_result never meets an "invalid state".
THEOREM ResultsFindTheirState == Spec => []RequestMatchesRestore
<1>1. IInv => RequestMatchesRestore
  BY DEF IInv, RequestInv
<1> QED BY <1>1, Inductive, PTL

\* Restore and delivery wait for the cursor of a loaded save together.
THEOREM RestoreAndCursor == Spec => []RestoreFollowsCursor
<1>1. IInv => RestoreFollowsCursor
  BY DEF IInv, CursorInv
<1> QED BY <1>1, Inductive, PTL

\* A revision told to the client carries the cursor a later load restores.
THEOREM Coherence == Spec => []RevisionMatchesSnapshot
<1>1. IInv => RevisionMatchesSnapshot
  BY DEF IInv, JournalInv, Coherent, RevisionMatchesSnapshot
<1> QED BY <1>1, Inductive, PTL

\* While items are delivered, the journal file is the journal.
THEOREM Durability == Spec => []AvailableMeansDurable
<1>1. IInv => AvailableMeansDurable
  BY DEF IInv, JournalInv
<1> QED BY <1>1, Inductive, PTL

-----------------------------------------------------------------------------
\* What a step may never do.

\* The file is only replaced by a journal that knows every save it knew.
LEMMA DiskStep ==
  ASSUME IInv, [Next]_vars
  PROVE  Remembers(disk', disk)
<1> USE DEF journalVars
<1>1. ASSUME NEW k \in Journals, session # None, Remembers(k, journal),
             disk' = k \/ disk' = disk
      PROVE  Remembers(disk', disk)
  BY <1>1 DEF IInv, JournalInv, Remembers
<1>2. ASSUME disk' = disk PROVE Remembers(disk', disk)
  BY <1>2 DEF Remembers
<1>3. ASSUME NEW c \in Checksums, SaveWritten(c) PROVE Remembers(disk', disk)
  <2>1. CASE disk' # disk
    <3>1. session \in Sessions
          /\ disk' = Record(journal, session, c, nextIndex, persistentItems)
      BY <1>3, <2>1 DEF SaveWritten, Persist, IInv, DataTypeOK
    <3> QED BY <1>1, <3>1, RecordLemma, NoneAssumption, SlotAssumption
            DEF IInv, DataTypeOK
  <2> QED BY <1>2, <2>1
<1>4. ASSUME NEW c \in Checksums, NEW n \in Cursors, NEW b \in BOOLEAN,
             OnSaveRevisionAck(c, n, b)
      PROVE  Remembers(disk', disk)
  <2>1. CASE disk' # disk
    <3>1. session \in Sessions /\ disk' = Acknowledged(journal, session, c)
      BY <1>4, <2>1 DEF OnSaveRevisionAck, AckMatches, Persist, IInv, DataTypeOK
    <3> QED BY <1>1, <3>1, AcknowledgedLemma, NoneAssumption, SlotAssumption
            DEF IInv, DataTypeOK
  <2> QED BY <1>2, <2>1
<1>5. ASSUME NEW c \in Checksums, NEW n \in Cursors, NEW b \in BOOLEAN,
             NEW items \in SUBSET Items, OnSaveContext(c, n, b, items)
      PROVE  Remembers(disk', disk)
  <2>1. CASE disk' # disk
    <3>1. active /\ disk' = StoreSnapshot(journal, session, c, n, items)
      BY <1>5, <2>1 DEF OnSaveContext, ContextWelcome, Persist
    <3>2. session \in Sessions
      BY <3>1 DEF IInv, SessionInv, DataTypeOK
    <3> QED BY <1>1, <3>1, <3>2, StoreSnapshotLemma, NoneAssumption, SlotAssumption
            DEF IInv, DataTypeOK
  <2> QED BY <1>2, <2>1
<1>6. ASSUME \/ \E c \in Checksums : SaveLoaded(c)
             \/ IgnoreSaveWritten \/ PlayerDied \/ TakeNotification
             \/ TakeDeathLink \/ \E list \in Lists : ListOpened(list)
             \/ \E m \in BOOLEAN, l \in BOOLEAN : UpdateReadiness(m, l)
      PROVE  disk' = disk
  BY <1>6 DEF SaveLoaded, IgnoreSaveWritten, PlayerDied, TakeNotification,
              TakeDeathLink, ListOpened, UpdateReadiness
<1>7. ASSUME \/ Connected \/ Disconnected \/ OnSessionEnd \/ OnItemSent
             \/ OnDeathLink
             \/ \E s \in Sessions, b \in BOOLEAN : OnSessionReady(s, b)
             \/ \E i \in Cursors, name \in Items, b \in BOOLEAN :
                  OnItem(i, name, b)
      PROVE  disk' = disk
  BY <1>7 DEF Connected, Disconnected, OnSessionEnd, OnItemSent, OnDeathLink,
              OnSessionReady, OnItem
<1>8. ASSUME \/ \E b \in BOOLEAN : NextRequest(b)
             \/ \E b \in BOOLEAN : ReportResult(b)
             \/ \E id \in 0..MaxRequests : IgnoreCompletion(id)
             \/ DrainEnds \/ Shutdown \/ Restart \/ UNCHANGED vars
      PROVE  disk' = disk
  BY <1>8 DEF NextRequest, ReportResult, IgnoreCompletion, DrainEnds, Shutdown,
              Restart, vars
<1>9. CASE GameReports
  BY <1>9, <1>2, <1>3, <1>6 DEF GameReports
<1>10. CASE ClientEvents
  BY <1>10, <1>2, <1>4, <1>5, <1>7 DEF ClientEvents
<1>11. CASE Results
  BY <1>11, <1>2, <1>8 DEF Results, CompleteRequest
<1>12. CASE \/ \E interactive \in BOOLEAN : NextRequest(interactive)
            \/ DrainEnds \/ Shutdown \/ Restart \/ UNCHANGED vars
  BY <1>12, <1>2, <1>8
<1> QED BY <1>9, <1>10, <1>11, <1>12 DEF Next

\* A save in the journal file is never forgotten, whatever write fails and
\* whatever the file held when the process started.
THEOREM NeverForgets == Spec => JournalNeverForgets
<1>1. IInv /\ [Next]_vars =>
        [\A s \in Sessions, c \in Checksums :
           disk.snapshots[s][c] # None => disk'.snapshots[s][c] # None]_vars
  BY DiskStep DEF Remembers
<1> QED BY <1>1, Inductive, PTL DEF Spec, JournalNeverForgets

\* One step moves the cursor of a world only past the item just applied.
LEMMA CursorStep ==
  ASSUME IInv, [Next]_vars, context' = context, nextIndex' # nextIndex
  PROVE  /\ pending.kind = "Item" /\ pending' = NoRequest
         /\ nextIndex' = nextIndex + 1
<1> USE DEF deliveryVars, restoreVars
<1>1. ASSUME NEW b \in BOOLEAN, ReportResult(b)
      PROVE  /\ pending.kind = "Item" /\ pending' = NoRequest
             /\ nextIndex' = nextIndex + 1
  BY <1>1 DEF ReportResult, InstallResult, ResetResult, ReplayResult, ItemResult,
              IInv, RequestInv, PendingItemIsNext
<1>2. ASSUME NEW c \in Checksums, SaveLoaded(c) PROVE FALSE
  BY <1>2 DEF SaveLoaded, IInv, CursorInv
<1>3. ASSUME NEW m \in BOOLEAN, NEW l \in BOOLEAN, UpdateReadiness(m, l)
      PROVE  FALSE
  BY <1>3 DEF UpdateReadiness, EndsWorld
<1>4. ASSUME NEW c \in Checksums, NEW n \in Cursors, NEW b \in BOOLEAN,
             NEW items \in SUBSET Items, OnSaveContext(c, n, b, items)
      PROVE  FALSE
  BY <1>4 DEF OnSaveContext, ContextWelcome, ActivateSave, RejectSaveContext
<1>5. ~Restart
  BY DEF Restart, IInv, CursorInv
<1>6. ~GameReports
  BY <1>2, <1>3 DEF GameReports, SaveWritten, IgnoreSaveWritten, ListOpened,
                    PlayerDied, TakeNotification, TakeDeathLink
<1>7. ~ClientEvents
  BY <1>4 DEF ClientEvents, Connected, Disconnected, OnSessionEnd, OnItemSent,
              OnDeathLink, OnSessionReady, OnSaveRevisionAck, OnItem
<1>8. /\ ~DrainEnds /\ ~Shutdown /\ ~UNCHANGED vars
      /\ ~\E b \in BOOLEAN : NextRequest(b)
      /\ ~\E id \in 0..MaxRequests : IgnoreCompletion(id)
  BY DEF DrainEnds, Shutdown, NextRequest, IgnoreCompletion, vars
<1>9. CASE Results
  BY <1>1, <1>8, <1>9 DEF Results, CompleteRequest
<1> QED BY <1>5, <1>6, <1>7, <1>8, <1>9 DEF Next

\* Within one world no retransmission, reconnect or stale completion moves the
\* cursor: only the next item does, by one, when it has been applied.
THEOREM CursorAdvances == Spec => CursorAdvancesByItems
<1>1. IInv /\ [Next]_vars =>
        [(context' = context /\ nextIndex' # nextIndex) =>
           /\ pending.kind = "Item" /\ pending' = NoRequest
           /\ nextIndex' = nextIndex + 1]_vars
  BY CursorStep
<1> QED BY <1>1, Inductive, PTL DEF Spec, CursorAdvancesByItems

\* A session is only latched by an installation, which starts without one.
LEMMA LatchStep ==
  ASSUME IInv, [Next]_vars, ~Restart, session # None
  PROVE  session' = session
<1> USE DEF sessionVars
<1>1. ASSUME NEW b \in BOOLEAN, ReportResult(b) PROVE session' = session
  BY <1>1 DEF ReportResult, InstallResult, ResetResult, ReplayResult, ItemResult,
              IInv, RequestInv, RequestMatchesRestore
<1>2. GameReports => session' = session
  BY DEF GameReports, SaveLoaded, SaveWritten, IgnoreSaveWritten, UpdateReadiness,
         ListOpened, PlayerDied, TakeNotification, TakeDeathLink
<1>3. ClientEvents => session' = session
  BY DEF ClientEvents, Connected, Disconnected, OnSessionEnd, OnItemSent, OnDeathLink,
         OnSessionReady, OnSaveRevisionAck, OnSaveContext, OnItem
<1>4. ASSUME \/ DrainEnds \/ Shutdown \/ UNCHANGED vars
             \/ \E b \in BOOLEAN : NextRequest(b)
             \/ \E id \in 0..MaxRequests : IgnoreCompletion(id)
      PROVE  session' = session
  BY <1>4 DEF DrainEnds, Shutdown, NextRequest, IgnoreCompletion, vars
<1>5. Results => session' = session
  BY <1>1, <1>4 DEF Results, CompleteRequest
<1> QED BY <1>2, <1>3, <1>4, <1>5 DEF Next

\* The policies of one session are never exchanged for another's while the
\* process lives.
THEOREM Latched == Spec => PolicyLatched
<1>1. IInv /\ [Next]_vars =>
        [session # None => session' \in {session, None}]_vars
  BY LatchStep DEF Restart
<1> QED BY <1>1, Inductive, PTL DEF Spec, PolicyLatched

\* No step leaves a death waiting when its world is gone.
LEMMA DeathStep ==
  ASSUME IInv, [Next]_vars, DeathsBelongToLoadedWorld
  PROVE  DeathsBelongToLoadedWorld'
<1> USE DEF DeathsBelongToLoadedWorld, feedVars
<1>1. deathLinks \in Nat
  BY BoundsAssumption DEF IInv, DataTypeOK
<1>2. ASSUME NEW m \in BOOLEAN, UpdateReadiness(m, FALSE)
      PROVE  DeathsBelongToLoadedWorld'
  <2>1. deathLinks' = 0
    BY <1>2 DEF UpdateReadiness, DeathsAfterReadiness
  <2>2. ~(deathLinks' > 0)
    BY <2>1
  <2>3. ~staleDeath'
    BY <1>2, <2>2, Zenon DEF UpdateReadiness
  <2> QED BY <2>2, <2>3, Zenon
<1>3. ASSUME NEW m \in BOOLEAN, UpdateReadiness(m, TRUE)
      PROVE  DeathsBelongToLoadedWorld'
  <2>1. gameplayLoaded' /\ ~staleDeath'
    BY <1>3 DEF UpdateReadiness
  <2> QED BY <2>1
<1>4. ASSUME NEW c \in Checksums, SaveLoaded(c)
      PROVE  DeathsBelongToLoadedWorld'
  <2>1. deathLinks' = 0
    BY <1>4 DEF SaveLoaded, DeathsAfterLoad
  <2>2. ~(deathLinks' > 0)
    BY <2>1
  <2>3. ~staleDeath'
    BY <1>4, <2>2, Zenon DEF SaveLoaded
  <2> QED BY <2>2, <2>3, Zenon
<1>5. ASSUME \/ \E c \in Checksums : SaveWritten(c)
             \/ IgnoreSaveWritten \/ PlayerDied \/ TakeNotification
             \/ TakeDeathLink \/ \E list \in Lists : ListOpened(list)
      PROVE  DeathsBelongToLoadedWorld'
  BY <1>1, <1>5 DEF SaveWritten, IgnoreSaveWritten, ListOpened, PlayerDied,
                    TakeNotification, TakeDeathLink
<1>6. GameReports => DeathsBelongToLoadedWorld'
  BY <1>2, <1>3, <1>4, <1>5, Zenon DEF GameReports
<1>7. ClientEvents => DeathsBelongToLoadedWorld'
  <2>1. OnDeathLink => gameplayLoaded' /\ ~staleDeath'
    BY DEF OnDeathLink
  <2>2. OnDeathLink => DeathsBelongToLoadedWorld'
    BY <2>1, Zenon
  <2>3. ClientEvents /\ ~OnDeathLink => UNCHANGED <<deathLinks, staleDeath, gameplayLoaded>>
    BY DEF ClientEvents, Connected, Disconnected, OnSessionEnd, OnItemSent,
           OnSessionReady, OnSaveRevisionAck, OnSaveContext, OnItem
  <2> QED BY <2>2, <2>3
<1>8. ASSUME \/ DrainEnds \/ Shutdown \/ Restart \/ UNCHANGED vars
             \/ \E b \in BOOLEAN : NextRequest(b)
             \/ \E id \in 0..MaxRequests : IgnoreCompletion(id)
             \/ \E b \in BOOLEAN : ReportResult(b)
      PROVE  DeathsBelongToLoadedWorld'
  BY <1>8 DEF DrainEnds, Shutdown, Restart, NextRequest, IgnoreCompletion,
              ReportResult, vars
<1>9. Results => DeathsBelongToLoadedWorld'
  BY <1>8 DEF Results, CompleteRequest
<1> QED BY <1>6, <1>7, <1>8, <1>9 DEF Next

\* A received death waits only in the world it was received in: a load, the menu and
\* a reading of no gameplay each leave none (save_loaded and update_readiness).
THEOREM DeathsStayInTheirWorld == Spec => []DeathsBelongToLoadedWorld
<1>1. Init => DeathsBelongToLoadedWorld
  BY DEF Init, InitVolatile, DeathsBelongToLoadedWorld
<1> QED BY <1>1, DeathStep, Inductive, PTL DEF Spec
=============================================================================
