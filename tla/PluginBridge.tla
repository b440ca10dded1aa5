---------------------------- MODULE PluginBridge ----------------------------
(***************************************************************************)
(* The AP client's side of the plugin link: PluginBridge (bridge.py), the  *)
(* sync loop of SR2Context (context.py), the cursor decisions of           *)
(* save_sync.py and the RevisionStore (revisions.py).                      *)
(*                                                                         *)
(* It is one asyncio program of three tasks: the reader of the plugin's    *)
(* lines, the handler of AP server events, and sync_loop.  A step below    *)
(* runs from one await that may suspend to the next.                       *)
(*                                                                         *)
(* The AP server keeps the slot's items and the mirror of the ledger.      *)
(***************************************************************************)
EXTENDS SlotData, Sequences

CONSTANTS
  Inventory,       \* the names of the slot's items, by index
  LedgerOutcomes   \* what writing the ledger file can return

ASSUME BridgeAssumption ==
  /\ Inventory \in [0..(MaxIndex - 1) -> Items]
  /\ LedgerOutcomes \subseteq BOOLEAN

VARIABLES
  connected,     \* writer is not None
  hello,         \* a plugin of this protocol is connected
  awaited,       \* pending_ack is the future that deliver_items waits on
  ack,           \* the result of that future
  sessionSent,   \* session_sent
  liveCursor,    \* live_cursor
  stale,         \* context_generation moved since deliver_items took its item
  online,        \* an AP slot is connected: slot_data, an inventory, revisions.active
  closing,       \* connection_closed is waiting in end_session
  owned,         \* items the server has for the slot
  received,      \* len(items_received)
  ledger,        \* the ledger file: a cursor by checksum
  remote,        \* RevisionStore._remote
  mirror,        \* the copy of the ledger at the server
  syncEvent,     \* sync_event
  syncPc,        \* where sync_loop is
  syncIndex,     \* the index deliver_items is at
  sendFailed,    \* the connection was lost under a send of sync_loop
  toPlugin       \* what the plugin has not read yet

linkVars   == <<connected, hello>>
ackVars    == <<awaited, ack, stale>>
serverVars == <<online, closing, owned, received>>
ledgerVars == <<ledger, remote, mirror>>
syncVars   == <<syncPc, syncIndex, sendFailed>>
bridgeVars == <<linkVars, ackVars, serverVars, ledgerVars, syncVars,
                sessionSent, liveCursor, syncEvent, toPlugin>>

NoCursors == [c \in Checksums |-> None]

BInit ==
  /\ connected = FALSE /\ hello = FALSE
  /\ awaited = FALSE /\ ack = None /\ stale = FALSE
  /\ sessionSent = FALSE /\ liveCursor = None
  /\ online = FALSE /\ closing = FALSE
  /\ owned = 0 /\ received = 0
  /\ ledger = NoCursors /\ remote = None /\ mirror = NoCursors
  /\ syncEvent = FALSE
  /\ syncPc = "Wait" /\ syncIndex = 0 /\ sendFailed = FALSE
  /\ toPlugin = <<>>

Send(line) == toPlugin' = IF connected THEN Append(toPlugin, line) ELSE toPlugin

-----------------------------------------------------------------------------
\* sync_loop.

\* The guards of send_session_ready.
CanStartSession == ~sessionSent /\ hello /\ online /\ remote # None

WakeSyncLoop ==
  /\ syncPc = "Wait" /\ syncEvent
  /\ syncEvent' = FALSE /\ sendFailed' = FALSE
  /\ IF CanStartSession
     THEN syncPc' = "SendReady" /\ Send([type |-> "session_ready"])
     ELSE syncPc' = "Deliver" /\ UNCHANGED toPlugin
  /\ UNCHANGED <<linkVars, ackVars, serverVars, ledgerVars, sessionSent, liveCursor,
                 syncIndex>>

SessionReadySent ==
  /\ syncPc = "SendReady"
  /\ sessionSent' = (sessionSent \/ ~sendFailed)
  /\ syncPc' = "Deliver"
  /\ UNCHANGED <<linkVars, ackVars, serverVars, ledgerVars, liveCursor, syncEvent,
                 syncIndex, sendFailed, toPlugin>>

\* deliver_items, the head of its loop: one item goes out, with a future of its
\* own for the acknowledgement.
HasItemToSend == sessionSent /\ liveCursor # None /\ liveCursor < received

SendItem ==
  /\ syncPc = "Deliver" /\ HasItemToSend
  /\ syncIndex' = liveCursor
  /\ stale' = FALSE /\ awaited' = TRUE /\ ack' = None
  /\ sendFailed' = ~connected
  /\ Send([type |-> "item", index |-> liveCursor, name |-> Inventory[liveCursor]])
  /\ syncPc' = "SendItem"
  /\ UNCHANGED <<linkVars, serverVars, ledgerVars, sessionSent, liveCursor, syncEvent>>

ItemSentToPlugin ==
  /\ syncPc = "SendItem"
  /\ syncPc' = IF sendFailed THEN "Wait" ELSE "AwaitAck"
  /\ UNCHANGED <<linkVars, ackVars, serverVars, ledgerVars, sessionSent, liveCursor,
                 syncEvent, syncIndex, sendFailed, toPlugin>>

NothingToDeliver ==
  /\ syncPc = "Deliver" /\ ~HasItemToSend
  /\ syncPc' = "Wait"
  /\ UNCHANGED <<linkVars, ackVars, serverVars, ledgerVars, sessionSent, liveCursor,
                 syncEvent, syncIndex, sendFailed, toPlugin>>

\* The acknowledgement counts for the item and the game context it was sent
\* for.  The increment raises a TypeError when the cursor is None by then, which
\* ends the task.
AckIsForThisItem == ack.index = syncIndex /\ ack.accepted
ContextIgnored == FALSE
ContextIsStale == stale

AckArrives ==
  /\ syncPc = "AwaitAck" /\ ack # None
  /\ \/ ContextIsStale
        /\ syncPc' = "Wait" /\ UNCHANGED liveCursor
     \/ ~ContextIsStale /\ ~AckIsForThisItem
        /\ syncPc' = "Sleep" /\ UNCHANGED liveCursor
     \/ ~ContextIsStale /\ AckIsForThisItem /\ liveCursor # None
        /\ syncPc' = "Deliver" /\ liveCursor' = liveCursor + 1
     \/ ~ContextIsStale /\ AckIsForThisItem /\ liveCursor = None
        /\ syncPc' = "Dead" /\ UNCHANGED liveCursor
  /\ UNCHANGED <<linkVars, ackVars, serverVars, ledgerVars, sessionSent, syncEvent,
                 syncIndex, sendFailed, toPlugin>>

\* wait_for cancels the future, so a later acknowledgement finds it done.
AckTimesOut ==
  /\ syncPc = "AwaitAck" /\ ack = None
  /\ awaited' = FALSE
  /\ syncPc' = "Sleep"
  /\ UNCHANGED <<linkVars, ack, stale, serverVars, ledgerVars, sessionSent, liveCursor,
                 syncEvent, syncIndex, sendFailed, toPlugin>>

RetryDelayEnds ==
  /\ syncPc = "Sleep"
  /\ syncPc' = "Deliver"
  /\ UNCHANGED <<linkVars, ackVars, serverVars, ledgerVars, sessionSent, liveCursor,
                 syncEvent, syncIndex, sendFailed, toPlugin>>

-----------------------------------------------------------------------------
\* Cursors: RevisionStore and save_sync.py.

\* _push_remote: the server only gets the entries it misses.
PushRemote(cursors) ==
  IF remote = None \/ closing
  THEN UNCHANGED <<remote, mirror>>
  ELSE /\ mirror' = [c \in Checksums |->
                       IF remote[c] = None /\ cursors[c] # None
                       THEN cursors[c] ELSE mirror[c]]
       /\ remote' = [c \in Checksums |->
                       IF remote[c] = None THEN cursors[c] ELSE remote[c]]

\* RevisionStore.persist, when the ledger file could be written.
PersistInventoryLength(c, n) ==
  /\ ledger' = [ledger EXCEPT ![c] = received]
  /\ PushRemote([NoCursors EXCEPT ![c] = received])
PersistCursor(c, n) ==
  /\ ledger' = [ledger EXCEPT ![c] = n]
  /\ PushRemote([NoCursors EXCEPT ![c] = n])

InInventory(n) == n <= received
PersistentBefore(n) ==
  {Inventory[i] : i \in {k \in DOMAIN Inventory : k < n}} \cap PersistentItems

\* resolve_save_context: what the plugin's journal knows comes first, then the
\* ledger, then the server; a save nobody knows starts at 0.  Disagreement
\* resolves to None.
ServerCursor(c) ==
  IF remote = None THEN 0
  ELSE IF remote[c] # None /\ InInventory(remote[c]) THEN remote[c] ELSE 0

Resolve(c, known, n, items) ==
  IF known
  THEN IF /\ InInventory(n) /\ items = PersistentBefore(n)
          /\ ledger[c] \in {None, n}
       THEN n ELSE None
  ELSE IF items # {} THEN None
  ELSE IF ledger[c] = None THEN ServerCursor(c)
  ELSE IF InInventory(ledger[c]) THEN ledger[c] ELSE None

-----------------------------------------------------------------------------
\* The lines of the plugin.

OnHelloWithoutSync ==
  /\ hello' = TRUE
  /\ UNCHANGED <<connected, ackVars, serverVars, ledgerVars, syncVars, sessionSent,
                 liveCursor, syncEvent, toPlugin>>
OnHello ==
  /\ hello' = TRUE /\ syncEvent' = TRUE
  /\ UNCHANGED <<connected, ackVars, serverVars, ledgerVars, syncVars, sessionSent,
                 liveCursor, toPlugin>>

AnswerSaveContext(c, n) ==
  Send([type |-> "save_context", checksum |-> c, nextIndex |-> n,
        items |-> PersistentBefore(n)])

OnGameContext(line) ==
  LET c == line.checksum
      n == Resolve(c, line.snapshotKnown, line.nextIndex, line.items)
  IN
  /\ stale' = TRUE /\ awaited' = FALSE
  /\ \/ /\ ~line.needsCursor
        /\ liveCursor' = line.nextIndex /\ syncEvent' = TRUE
        /\ UNCHANGED <<ledgerVars, toPlugin>>
     \/ /\ line.needsCursor
        /\ \/ ~online
           \/ online /\ n = None
        /\ UNCHANGED <<liveCursor, syncEvent, ledgerVars, toPlugin>>
     \/ /\ line.needsCursor /\ online /\ n # None
        /\ \/ /\ ledger[c] # None
              /\ AnswerSaveContext(c, n) /\ UNCHANGED ledgerVars
           \/ /\ ledger[c] = None /\ TRUE \in LedgerOutcomes
              /\ PersistCursor(c, n) /\ AnswerSaveContext(c, n)
           \/ /\ ledger[c] = None /\ FALSE \in LedgerOutcomes
              /\ UNCHANGED <<ledgerVars, toPlugin>>
        /\ UNCHANGED <<liveCursor, syncEvent>>
  /\ UNCHANGED <<linkVars, ack, serverVars, syncVars, sessionSent>>

OnItemAck(line) ==
  /\ IF awaited /\ ack = None
     THEN ack' = [index |-> line.index, accepted |-> line.accepted]
     ELSE UNCHANGED ack
  /\ UNCHANGED <<linkVars, awaited, stale, serverVars, ledgerVars, syncVars,
                 sessionSent, liveCursor, syncEvent, toPlugin>>

\* accept_save_revision and _record_save_revision.
Acceptable(c, n) == online /\ InInventory(n) /\ ledger[c] \in {None, n}

OnSaveRevision(line) ==
  LET c == line.checksum
      n == line.nextIndex
      Answer(accepted) == Send([type |-> "save_revision_ack", checksum |-> c,
                                nextIndex |-> n, accepted |-> accepted])
  IN
  /\ \/ ~Acceptable(c, n) /\ Answer(FALSE) /\ UNCHANGED ledgerVars
     \/ Acceptable(c, n) /\ ledger[c] = n /\ Answer(TRUE) /\ UNCHANGED ledgerVars
     \/ Acceptable(c, n) /\ ledger[c] = None
        /\ \/ TRUE \in LedgerOutcomes /\ PersistCursor(c, n) /\ Answer(TRUE)
           \/ FALSE \in LedgerOutcomes /\ Answer(FALSE) /\ UNCHANGED ledgerVars
  /\ UNCHANGED <<linkVars, ackVars, serverVars, syncVars, sessionSent, liveCursor,
                 syncEvent>>

\* The keys of _handlers.  A line of any other type, and one whose handler does
\* nothing to this module's state, is dropped.
HandledTypes == {"hello", "game_context", "item_ack", "save_revision", "progression",
                 "session_reject", "death", "list_opened"}

OnOtherLine(line) ==
  /\ line.type \notin {"hello", "game_context", "item_ack", "save_revision"}
  /\ UNCHANGED bridgeVars

HandleMessage(line) ==
  \/ line.type = "hello" /\ OnHello
  \/ line.type = "game_context" /\ OnGameContext(line)
  \/ line.type = "item_ack" /\ OnItemAck(line)
  \/ line.type = "save_revision" /\ OnSaveRevision(line)
  \/ OnOtherLine(line)

-----------------------------------------------------------------------------
\* The plugin's connection: _handle_connection around its read loop.

ResetConnection ==
  /\ hello' = FALSE /\ awaited' = FALSE
  /\ sessionSent' = FALSE /\ liveCursor' = None

AcceptPlugin ==
  /\ ~connected
  /\ connected' = TRUE
  /\ ResetConnection
  /\ UNCHANGED <<ack, stale, serverVars, ledgerVars, syncVars, syncEvent>>

LosePlugin ==
  /\ connected
  /\ connected' = FALSE /\ sendFailed' = TRUE
  /\ ResetConnection
  /\ UNCHANGED <<ack, stale, serverVars, ledgerVars, syncPc, syncIndex, syncEvent>>

-----------------------------------------------------------------------------
\* The AP server.  Its item list comes right behind Connected, before the answer
\* to the request for the mirror.

OnConnected ==
  /\ ~online
  /\ online' = TRUE /\ received' = owned /\ remote' = None
  /\ syncEvent' = TRUE
  /\ UNCHANGED <<linkVars, ackVars, closing, owned, ledger, mirror, syncVars, sessionSent,
                 liveCursor, toPlugin>>

OnRetrieved ==
  /\ online /\ ~closing /\ remote = None
  /\ LET Missing(c) == mirror[c] = None /\ ledger[c] # None IN
     /\ mirror' = [c \in Checksums |-> IF Missing(c) THEN ledger[c] ELSE mirror[c]]
     /\ remote' = mirror'
  /\ syncEvent' = TRUE
  /\ UNCHANGED <<linkVars, ackVars, serverVars, ledger, syncVars, sessionSent,
                 liveCursor, toPlugin>>

\* Another player finds an item of the slot; a slot that is online receives it.
OnReceivedItems ==
  /\ owned < MaxIndex
  /\ owned' = owned + 1
  /\ IF online /\ ~closing
     THEN received' = owned + 1 /\ syncEvent' = TRUE
     ELSE UNCHANGED <<received, syncEvent>>
  /\ UNCHANGED <<linkVars, ackVars, online, closing, ledgerVars, syncVars, sessionSent,
                 liveCursor, toPlugin>>

\* connection_closed: end_session tells the plugin first, and may wait there.
OnConnectionClosed ==
  /\ online /\ ~closing
  /\ closing' = TRUE
  /\ Send([type |-> "session_end"])
  /\ UNCHANGED <<linkVars, ackVars, online, owned, received, ledgerVars, syncVars,
                 sessionSent, liveCursor, syncEvent>>

EndSession ==
  /\ closing
  /\ closing' = FALSE /\ online' = FALSE /\ received' = 0 /\ remote' = None
  /\ sessionSent' = FALSE /\ liveCursor' = None
  /\ UNCHANGED <<linkVars, ackVars, owned, ledger, mirror, syncVars, syncEvent, toPlugin>>

=============================================================================
