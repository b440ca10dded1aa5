----------------------------- MODULE ClientLink -----------------------------
(***************************************************************************)
(* The plugin and the AP client over their TCP link: SessionRuntime and    *)
(* PluginBridge joined by the worker of tcp_client.rs, with a player who   *)
(* starts, loads, saves and leaves worlds, and the disturbances the two    *)
(* sides are written for: a lost link, a lost AP server, an               *)
(* acknowledgement that comes too late, a game that refuses.               *)
(*                                                                         *)
(* toPlugin holds the lines (and the Connected and Disconnected events) the *)
(* plugin has not handled, toClient the lines the client has not read.     *)
(***************************************************************************)
EXTENDS SessionRuntime, PluginBridge

CONSTANTS
  Slot,           \* the AP session of the client
  OfferedSlots,   \* the sessions it may log in with (its ledger is that of Slot)
  SendsSuspend,   \* drain() may wait, which it does once 64 KiB are unsent
  Disturbances,   \* the kinds of disturbance of this instance ...
  MaxDisturbances \* ... and how many of them, in all, one behaviour has

Kinds == {"Load", "Quit", "Save", "LinkLoss", "ServerLoss", "LateAck", "Refusal"}

ASSUME LinkAssumption ==
  /\ IsFiniteSet(Checksums)
  /\ Slot \in OfferedSlots /\ OfferedSlots \subseteq Sessions
  /\ SendsSuspend \in BOOLEAN
  /\ Disturbances \subseteq Kinds
  /\ MaxDisturbances \in Nat

VARIABLES
  taken,        \* how many of them this poll took from the worker (self.events)
  toClient,     \* lines on their way to the client
  world,        \* what the player does: "Menu", "Loading" or "Playing"
  files,        \* checksums of the city saves there are
  disturbed     \* disturbances so far

gameVars == <<world, files>>
linkAll == <<vars, bridgeVars, taken, toClient, gameVars, disturbed>>

\* A save made before the mod was installed may exist.
LInit ==
  /\ Init /\ BInit
  /\ taken = 0 /\ toClient = <<>>
  /\ world = "Menu" /\ files \in SUBSET Checksums
  /\ disturbed = 0

Disturb(kind) ==
  /\ kind \in Disturbances
  /\ disturbed < MaxDisturbances
  /\ disturbed' = disturbed + 1

-----------------------------------------------------------------------------
\* The plugin side.

\* The lines of one action in the order the code sends them: revisions first.
InOrder(lines) ==
  LET revisions == {line \in lines : line.type = "save_revision"}
      Ordered(set) == CHOOSE seq \in [1..Cardinality(set) -> set] :
                        \A i, j \in 1..Cardinality(set) : i # j => seq[i] # seq[j]
  IN Ordered(revisions) \o Ordered(lines \ revisions)

\* While the worker waits to reconnect it discards what is queued, these lines or
\* the first of them included; what is queued after that wait goes out once it has
\* connected.
QueueForClient(lines) ==
  LET queued == InOrder(lines) IN
  \/ toClient' = toClient \o queued
  \/ /\ ~connected
     /\ \E lost \in 1..Len(queued) : toClient' = SubSeq(queued, lost + 1, Len(queued))

\* The client is single threaded: a send that does not suspend is not interleaved
\* with anything else.
LoopIsFree == SendsSuspend \/ (syncPc \notin {"SendReady", "SendItem"} /\ ~closing)

PluginStep(action) == action /\ QueueForClient(sent')

PollStarts ==
  /\ PluginStep(NextRequest(world = "Playing"))
  /\ taken' = IF draining' THEN Len(toPlugin) ELSE taken
  /\ UNCHANGED <<bridgeVars, gameVars, disturbed>>

PollEnds ==
  /\ taken = 0
  /\ PluginStep(DrainEnds)
  /\ UNCHANGED <<bridgeVars, taken, gameVars, disturbed>>

HandleLine(line) ==
  \/ line.type = "connected" /\ Connected
  \/ line.type = "disconnected" /\ Disconnected
  \/ line.type = "session_ready" /\ \E s \in OfferedSlots : OnSessionReady(s, TRUE)
  \/ line.type = "session_end" /\ OnSessionEnd
  \/ line.type = "save_context"
     /\ OnSaveContext(line.checksum, line.nextIndex, TRUE, line.items)
  \/ line.type = "save_revision_ack"
     /\ OnSaveRevisionAck(line.checksum, line.nextIndex, line.accepted)
  \/ line.type = "item" /\ OnItem(line.index, line.name, world = "Playing")

PluginReads ==
  /\ taken > 0
  /\ PluginStep(HandleLine(Head(toPlugin)))
  /\ toPlugin' = Tail(toPlugin) /\ taken' = taken - 1
  /\ UNCHANGED <<linkVars, ackVars, serverVars, ledgerVars, syncVars, sessionSent,
                 liveCursor, syncEvent, gameVars, disturbed>>

\* The game finishes the request it was given.
ResultOf(accepted) ==
  \/ pending.kind \in {"Policies", "Reset"} /\ ReportResult(accepted)
  \/ pending.kind \in {"Replay", "Item"} /\ CompleteRequest(requestId, accepted)

GameFinishes ==
  /\ PluginStep(ResultOf(TRUE))
  /\ UNCHANGED <<bridgeVars, taken, gameVars, disturbed>>

GameRefuses ==
  /\ Disturb("Refusal")
  /\ PluginStep(ResultOf(FALSE))
  /\ UNCHANGED <<bridgeVars, taken, gameVars>>

\* The player.
LoadSave(c) ==
  /\ Disturb("Load")
  /\ c \in files
  /\ PluginStep(SaveLoaded(c))
  /\ world' = "Loading"
  /\ UNCHANGED <<bridgeVars, taken, files>>

EnterWorld ==
  /\ world \in {"Menu", "Loading"}
  /\ PluginStep(UpdateReadiness(FALSE, TRUE))
  /\ world' = "Playing"
  /\ UNCHANGED <<bridgeVars, taken, files, disturbed>>

SaveGame(c) ==
  /\ Disturb("Save")
  /\ world = "Playing" /\ c \notin files
  /\ PluginStep(SaveWritten(c) \/ IgnoreSaveWritten)
  /\ files' = files \cup {c}
  /\ UNCHANGED <<bridgeVars, taken, world>>

QuitToMenu ==
  /\ Disturb("Quit")
  /\ world = "Playing"
  /\ PluginStep(UpdateReadiness(TRUE, FALSE))
  /\ world' = "Menu"
  /\ UNCHANGED <<bridgeVars, taken, files>>

-----------------------------------------------------------------------------
\* The link.

\* The worker says hello before anything it still had queued.
LinkUp ==
  /\ LoopIsFree
  /\ AcceptPlugin
  /\ toClient' = <<[type |-> "hello"]>> \o toClient
  /\ toPlugin' = Append(toPlugin, [type |-> "connected"])
  /\ UNCHANGED <<vars, taken, gameVars, disturbed>>

\* What is in the sockets is lost; what the worker has read stays in its queue,
\* followed by the event of the loss.
LinkDown ==
  /\ LoopIsFree
  /\ Disturb("LinkLoss")
  /\ LosePlugin
  /\ toClient' = <<>>
  /\ \E kept \in taken..Len(toPlugin) :
       /\ \A i \in (kept + 1)..Len(toPlugin) :
            toPlugin[i].type \notin {"connected", "disconnected"}
       /\ toPlugin' = Append(SubSeq(toPlugin, 1, kept), [type |-> "disconnected"])
  /\ UNCHANGED <<vars, taken, gameVars>>

-----------------------------------------------------------------------------
\* The client side.

ClientReads ==
  /\ LoopIsFree
  /\ connected /\ toClient # <<>>
  /\ HandleMessage(Head(toClient))
  /\ toClient' = Tail(toClient)
  /\ UNCHANGED <<vars, taken, gameVars, disturbed>>

ClientStep(action) ==
  action /\ UNCHANGED <<vars, taken, toClient, gameVars, disturbed>>

\* An acknowledgement is late when the plugin still owes it or it is on its way.
AckOwed ==
  \/ pending.kind = "Item"
  \/ \E i \in DOMAIN toPlugin : toPlugin[i].type = "item"
  \/ awaited /\ \E i \in DOMAIN toClient : toClient[i].type = "item_ack"

AckIsLost == LoopIsFree /\ ~AckOwed /\ ClientStep(AckTimesOut)
AckIsLate ==
  /\ LoopIsFree
  /\ AckOwed /\ Disturb("LateAck")
  /\ AckTimesOut
  /\ UNCHANGED <<vars, taken, toClient, gameVars>>

SyncLoop ==
  \/ ClientStep(SessionReadySent \/ ItemSentToPlugin)
  \/ LoopIsFree /\ ClientStep(\/ WakeSyncLoop \/ SendItem \/ NothingToDeliver
                             \/ AckArrives \/ RetryDelayEnds)

ServerSession == LoopIsFree /\ ClientStep(OnConnected)
ServerMirror == LoopIsFree /\ ClientStep(OnRetrieved)
ServerItems == LoopIsFree /\ ClientStep(OnReceivedItems)
ServerLost ==
  /\ LoopIsFree
  /\ Disturb("ServerLoss")
  /\ OnConnectionClosed
  /\ UNCHANGED <<vars, taken, toClient, gameVars>>
SessionEnds == ClientStep(EndSession)

LNext ==
  \/ PollStarts \/ PollEnds \/ PluginReads \/ GameFinishes \/ GameRefuses
  \/ \E c \in Checksums : LoadSave(c) \/ SaveGame(c)
  \/ EnterWorld \/ QuitToMenu
  \/ LinkUp \/ LinkDown
  \/ ClientReads \/ SyncLoop \/ AckIsLost \/ AckIsLate
  \/ ServerSession \/ ServerMirror \/ ServerItems \/ ServerLost \/ SessionEnds

LSpec == LInit /\ [][LNext]_linkAll

\* Both programs run on: the plugin loop polls every 50 ms, the worker reconnects
\* by itself, asyncio runs every task that is ready, the AP client logs in again.
\* The player enters a world at last (strongly fair, because the plugin loop tells
\* the runtime between two polls); nothing says that he loads or saves.
Fairness ==
  /\ WF_linkAll(PollStarts) /\ WF_linkAll(PollEnds) /\ WF_linkAll(PluginReads)
  /\ WF_linkAll(GameFinishes) /\ SF_linkAll(EnterWorld)
  /\ WF_linkAll(LinkUp) /\ WF_linkAll(ClientReads)
  /\ WF_linkAll(SyncLoop) /\ WF_linkAll(AckIsLost)
  /\ WF_linkAll(ServerSession) /\ WF_linkAll(ServerMirror)
  /\ WF_linkAll(SessionEnds)

FairLSpec == LSpec /\ Fairness

-----------------------------------------------------------------------------
\* Properties.

ContextOnItsWay == \E i \in DOMAIN toClient : toClient[i].type = "game_context"

\* Once the client has read every context the plugin sent, and revisions do not keep
\* the plugin from sending one, the item the client would send next is not past the
\* one the plugin expects, whatever was lost, repeated, late or for another save.
\* (While they do, a context of a session that has ended may still count.)
NeverPastCursor ==
  (/\ liveCursor # None /\ active /\ Ready(context) /\ ~revisionsPending
   /\ ~ContextOnItsWay)
  => liveCursor <= nextIndex

\* The two stores that survive a crash agree: a save that both the plugin's
\* journal and the client's ledger know has one cursor.
StoresAgree ==
  \A c \in Checksums :
    (ledger[c] # None /\ disk.snapshots[Slot][c] # None)
    => ledger[c] = disk.snapshots[Slot][c].nextIndex

\* Once nothing disturbs them any more, every item the slot has ends up applied to
\* the world that is being played, unless the sync loop has died (see
\* RequestSyncWakesLoop).
EveryItemApplied == <>[](nextIndex = owned) \/ <>(syncPc = "Dead")

\* request_sync: "Wake `sync_loop`".
RequestSyncWakesLoop == syncEvent => syncPc # "Dead"

\* What the plugin has to say has a handler in the client.
LinesAreUnderstood ==
  \A i \in DOMAIN toClient : toClient[i].type \in HandledTypes

=============================================================================
