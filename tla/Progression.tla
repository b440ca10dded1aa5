---------------------------- MODULE Progression ----------------------------
(***************************************************************************)
(* How what the player does becomes checks of the slot: the readers that   *)
(* compare the game's tables with a baseline (src/progression), the plugin *)
(* loop that polls them and drops the baselines when a session starts      *)
(* (Plugin.cpp), the hooks on the levels of jobs (JobLevelMonitor.cpp),    *)
(* the outgoing queue of the TCP link (tcp_client.rs), and the client that *)
(* maps events to locations and submits them (progression.py, bridge.py,   *)
(* context.py).                                                            *)
(*                                                                         *)
(* What a table holds is the level of each of its keys: 1 for what is done *)
(* or not, more for activities, race medals, the style level and jobs.     *)
(* While a save loads, a table holds the old world's levels and then the   *)
(* new one's.  One slot is played; a plugin refuses a second one.          *)
(***************************************************************************)
EXTENDS Integers, Sequences, FiniteSets

CONSTANTS
  Games,           \* sets of entries <<category, key>>, one of which a game has
  GoalKeys,        \* keys whose first level belongs to the goal
  EnabledCategories, \* the slot's enabled_progression
  WriteStatusFile, \* config.writeStatusFile: poll without a session, too
  QuickReconnect,  \* the client may reach the server again before the plugin loop turns
  MaxLevel,        \* bound on levels
  Capacity,        \* OUTGOING_QUEUE_CAPACITY
  MaxUnread,       \* bound on the lines a connection holds before its writer waits
  MaxDisturbances  \* bound on loads, quits, lost connections and failed readings

\* In the order of CreateProgressionReaders.
ReaderOrder == <<"hitman", "chop_shop", "mission", "activity", "racing", "cd", "style_level",
                 "tags", "stunt_jumps">>
Readers == {ReaderOrder[i] : i \in 1..Len(ReaderOrder)}
\* These do not ask whether gameplay is loaded.
ReadAnytime == {"hitman", "chop_shop", "style_level"}
VehicleJobs == {"taxi", "paramedic", "firefighter", "towing"}
Jobs == VehicleJobs \cup {"hoing"}
Leveled == {"activity", "racing", "style_level"} \cup Jobs
\* PROGRESSIVE_LOCATIONS: each next location for one more distinct key.  Its name is
\* that of no key ("count" below).
Counted == {"cd", "tags", "stunt_jumps"}

ASSUME ProgressionAssumption ==
  /\ IsFiniteSet(UNION Games)
  /\ \A game \in Games : \A e \in game : e[1] \in Readers \cup Jobs /\ e[2] # "count"
  /\ WriteStatusFile \in BOOLEAN /\ QuickReconnect \in BOOLEAN
  /\ MaxLevel \in Nat \ {0} /\ Capacity \in Nat \ {0} /\ MaxUnread \in Nat \ {0}
  /\ MaxDisturbances \in Nat

VARIABLES
  mode,       \* GameReadiness as the game's memory shows it; a table may be "Filled"
  progress,   \* the level of each entry in the game's tables
  save,       \* the levels in the save file
  jobEvents,  \* job levels the hooks queued
  deeds,      \* history: levels reached in any world
  ppc,        \* where the plugin loop is
  seenLoaded, \* gameContext.IsLoaded() of this turn
  active,     \* session.active
  wasActive,  \* communicationsWereActive
  toPoll,     \* readers still to poll in this turn
  baseline,   \* the readers' baselines, with no key when they are not valid
  events,     \* events of the reader just polled
  seenEdge,   \* history: the loop has seen the beginning of the session it is in
  lost,       \* history: entries of which a full queue has lost a line since then
  outgoing,   \* the TcpClient's queue of lines
  netEvents,  \* what the plugin has not taken from the network thread
  link,       \* the TCP connection of plugin and client
  toClient,   \* lines the client has not read
  hello, sessionSent, \* PluginBridge
  online,     \* the client is connected to the slot
  observed,   \* observed_locations
  collected,  \* CollectibleCounts.collected
  submitted,  \* locations_checked, and finished_game as Goal
  inFlight,   \* messages to the AP server that it does not have
  checked,    \* what the AP server has
  disturbed   \* disturbances so far: everything MaxDisturbances bounds

gameVars   == <<mode, progress, save, jobEvents, deeds>>
historyVars == <<seenEdge, lost>>
loopVars   == <<ppc, seenLoaded, wasActive, toPoll, baseline, events, historyVars>>
linkVars   == <<outgoing, netEvents, link, toClient>>
bridgeVars == <<hello, sessionSent, collected>>
serverVars == <<online, submitted, inFlight, checked>>
clientVars == <<bridgeVars, serverVars, observed>>
vars == <<gameVars, loopVars, active, linkVars, clientVars, disturbed>>

entries == DOMAIN progress
Category(e) == e[1]
Top(e) == IF Category(e) \in Leveled THEN MaxLevel ELSE 1
EntriesOf(category) == {e \in entries : Category(e) = category}

Location(e, n) == <<e, n>>
Levels(e, first, last) == {Location(e, n) : n \in first..last}
Reached(world) == UNION {Levels(e, 1, world[e]) : e \in DOMAIN world}
\* The n-th progressive location of a category, and the goal of the slot.
Progressive(category, n) == Location(<<category, "count">>, n)
Goal == Location(<<"goal", "goal">>, 1)
GoalLocations == {Location(e, 1) : e \in {x \in entries : x[2] \in GoalKeys}}

Progression(e, previous, current) ==
  [type |-> "progression", entry |-> e, previous |-> previous, current |-> current]
Hello == [type |-> "hello"]

Worlds(game) == {w \in [game -> 0..MaxLevel] : \A e \in game : w[e] <= Top(e)}
NoProgress(game) == [e \in game |-> 0]
NotRead == <<>>

Init ==
  /\ \E game \in Games : save \in Worlds(game) /\ progress = NoProgress(game)
  /\ mode = "MainMenu" /\ jobEvents = <<>> /\ deeds = Reached(save)
  /\ ppc = "Turn" /\ seenLoaded = FALSE /\ wasActive = FALSE /\ toPoll = {}
  /\ baseline = [category \in Readers |-> NotRead] /\ events = {}
  /\ seenEdge = FALSE /\ lost = {} /\ active = FALSE
  /\ outgoing = <<>> /\ netEvents = <<>> /\ link = FALSE /\ toClient = <<>>
  /\ hello = FALSE /\ sessionSent = FALSE /\ collected = {}
  /\ online = FALSE /\ submitted = {} /\ inFlight = {} /\ checked = {}
  /\ observed = {} /\ disturbed = 0

Disturb == disturbed < MaxDisturbances /\ disturbed' = disturbed + 1

-----------------------------------------------------------------------------
\* The game.

gameAlone == UNCHANGED <<loopVars, active, linkVars, clientVars>>

Achieve ==
  /\ mode = "Playing"
  /\ \E e \in entries :
       /\ Category(e) \in Readers /\ progress[e] < Top(e)
       /\ progress' = [progress EXCEPT ![e] = @ + 1]
       /\ deeds' = deeds \cup {Location(e, progress'[e])}
  /\ UNCHANGED <<mode, save, jobEvents, disturbed>> /\ gameAlone

\* The hooks report each level as it is finished, which takes longer than a turn of
\* the plugin loop; a vehicle job restarts at 1.
FinishJobLevel ==
  /\ mode = "Playing" /\ jobEvents = <<>>
  /\ \E e \in entries, level \in 1..MaxLevel :
       /\ Category(e) \in Jobs
       /\ level = progress[e] + 1 \/ (level = 1 /\ Category(e) \in VehicleJobs)
       /\ progress' = [progress EXCEPT ![e] = level]
       /\ deeds' = deeds \cup {Location(e, level)}
       /\ jobEvents' = Append(jobEvents, [entry |-> e, level |-> level])
  /\ UNCHANGED <<mode, save, disturbed>> /\ gameAlone

SaveGame ==
  /\ mode = "Playing" /\ save # progress
  /\ save' = progress
  /\ UNCHANGED <<mode, progress, jobEvents, deeds, disturbed>> /\ gameAlone

LoadGame ==
  /\ mode \in {"MainMenu", "Playing"} /\ Disturb
  /\ mode' = "Loading"
  /\ UNCHANGED <<progress, save, jobEvents, deeds>> /\ gameAlone

FillTables ==
  /\ mode = "Loading"
  /\ mode' = "Filled" /\ progress' \in {save, NoProgress(entries)}
  /\ UNCHANGED <<save, jobEvents, deeds, disturbed>> /\ gameAlone

FinishLoading ==
  /\ mode = "Filled"
  /\ mode' = "Playing"
  /\ UNCHANGED <<progress, save, jobEvents, deeds, disturbed>> /\ gameAlone

QuitToMenu ==
  /\ mode = "Playing" /\ Disturb
  /\ mode' = "MainMenu"
  /\ UNCHANGED <<progress, save, jobEvents, deeds>> /\ gameAlone

-----------------------------------------------------------------------------
\* One turn of the plugin loop.

loopAlone == UNCHANGED <<gameVars, clientVars, link, toClient>>

\* session.progression and TcpClient::send_line: a full queue loses the line.
IsSent(e) == active /\ Category(e) \in EnabledCategories
Send(e, previous, current) ==
  LET fits == Len(outgoing) < Capacity IN
  /\ outgoing' = IF IsSent(e) /\ fits THEN Append(outgoing, Progression(e, previous, current))
                 ELSE outgoing
  /\ lost' = IF IsSent(e) /\ ~fits THEN lost \cup {e} ELSE lost

\* The loop has slept for 50 ms, in which the network thread sends what is queued.
StartTurn ==
  /\ ppc = "Turn" /\ (link => outgoing = <<>>)
  /\ seenLoaded' = (mode = "Playing") /\ ppc' = "Events"
  /\ UNCHANGED <<wasActive, toPoll, baseline, events, historyVars, active, outgoing, netEvents,
                 disturbed>>
  /\ loopAlone

\* ProcessGameEvents: only the finished level of a job is reported.
ProcessGameEvents ==
  /\ ppc = "Events"
  /\ IF jobEvents = <<>> THEN UNCHANGED <<jobEvents, outgoing, lost>>
     ELSE /\ LET event == Head(jobEvents) IN Send(event.entry, event.level - 1, event.level)
          /\ jobEvents' = Tail(jobEvents)
  /\ ppc' = "Edge"
  /\ UNCHANGED <<mode, progress, save, deeds, seenLoaded, wasActive, toPoll, baseline, events,
                 seenEdge, active, netEvents, link, toClient, clientVars, disturbed>>

\* A session that has just started knows of nothing: ProgressionMonitor::Reset.
IsEdge == active /\ ~wasActive
NoReset == baseline
AfterEdge == IF IsEdge THEN [category \in Readers |-> NotRead] ELSE baseline
SeeEdge ==
  /\ baseline' = AfterEdge /\ wasActive' = active
  /\ seenEdge' = (seenEdge \/ IsEdge) /\ lost' = IF IsEdge THEN {} ELSE lost

PollIsDue ==
  /\ ppc = "Edge"
  /\ active \/ WriteStatusFile
  /\ SeeEdge
  /\ toPoll' = {category \in Readers : EntriesOf(category) # {}}
  /\ ppc' = "Poll"
  /\ UNCHANGED <<seenLoaded, events, active, outgoing, netEvents, disturbed>> /\ loopAlone

\* pollingIntervalMs has not passed, or there is nobody to poll for.
PollIsNotDue ==
  /\ ppc = "Edge" /\ SeeEdge
  /\ toPoll' = {} /\ ppc' = "Poll"
  /\ UNCHANGED <<seenLoaded, events, active, outgoing, netEvents, disturbed>>
  /\ loopAlone

\* BaselineTracker::Observe.  Without a baseline, or with one of other keys,
\* everything done is reported; otherwise what changed.
NothingToReconcile(current) == {}
ReconcileEvents(current) ==
  {Progression(e, 0, current[e]) :
     e \in {x \in DOMAIN current : current[x] > 0 \/ Category(x) = "style_level"}}
ChangeEvents(previous, current) ==
  {Progression(e, previous[e], current[e]) :
     e \in {x \in DOMAIN current : previous[x] # current[x]}}

Observe(category, current) ==
  LET previous == baseline[category] IN
  /\ baseline' = [baseline EXCEPT ![category] = current]
  /\ events' = IF DOMAIN previous # DOMAIN current THEN ReconcileEvents(current)
               ELSE ChangeEvents(previous, current)
Invalidate(category) ==
  /\ baseline' = [baseline EXCEPT ![category] = NotRead]
  /\ events' = {}

\* The readiness may be older than what a reader reads.
Table(category) == [e \in EntriesOf(category) |-> progress[e]]
CanRead(category) == seenLoaded \/ category \in ReadAnytime

\* In the order of the readers, without those already polled.
Position(category) == CHOOSE i \in 1..Len(ReaderOrder) : ReaderOrder[i] = category
IsNext(category) == \A other \in toPoll : Position(category) <= Position(other)

Poll(category) ==
  \/ CanRead(category) /\ Observe(category, Table(category)) /\ UNCHANGED disturbed
  \/ /\ ~CanRead(category) \/ mode # "Playing"
     /\ Invalidate(category) /\ UNCHANGED disturbed
  \/ Disturb /\ Invalidate(category)
  \/ \* mid-load the lists of these two readers may be shorter: other keys
     /\ category \in {"chop_shop", "hitman"} /\ mode \in {"Loading", "Filled"} /\ Disturb
     /\ \E e \in EntriesOf(category) :
          /\ EntriesOf(category) # {e}
          /\ Observe(category, [x \in EntriesOf(category) \ {e} |-> progress[x]])

PollReader ==
  /\ ppc = "Poll" /\ events = {}
  /\ \E category \in toPoll :
       /\ IsNext(category) /\ Poll(category)
       /\ toPoll' = toPoll \ {category}
  /\ UNCHANGED <<ppc, seenLoaded, wasActive, historyVars, active, outgoing, netEvents>>
  /\ loopAlone

SendEvent ==
  /\ \E event \in events :
       /\ Send(event.entry, event.previous, event.current)
       /\ events' = events \ {event}
  /\ UNCHANGED <<ppc, seenLoaded, wasActive, toPoll, baseline, seenEdge, active, netEvents,
                 disturbed>>
  /\ loopAlone

\* PollNetwork takes what the network thread has queued, until there is nothing.
Polled == ppc = "Poll" /\ toPoll = {} /\ events = {}
TakeNetEvent ==
  /\ Polled /\ netEvents # <<>>
  /\ active' = (Head(netEvents) = "SessionReady")
  /\ netEvents' = Tail(netEvents) /\ seenEdge' = FALSE
  /\ UNCHANGED <<ppc, seenLoaded, wasActive, toPoll, baseline, events, lost, outgoing, disturbed>>
  /\ loopAlone

EndTurn ==
  /\ Polled /\ netEvents = <<>>
  /\ ppc' = "Turn"
  /\ UNCHANGED <<seenLoaded, wasActive, toPoll, baseline, events, historyVars, active, outgoing,
                 netEvents, disturbed>>
  /\ loopAlone

-----------------------------------------------------------------------------
\* The network thread and the connection.

netAlone == UNCHANGED <<gameVars, loopVars, active, serverVars, observed>>

SendToClient ==
  /\ link /\ outgoing # <<>> /\ Len(toClient) < MaxUnread
  /\ toClient' = Append(toClient, Head(outgoing)) /\ outgoing' = Tail(outgoing)
  /\ UNCHANGED <<netEvents, link, bridgeVars, disturbed>> /\ netAlone

\* wait_before_reconnect discards what is queued meanwhile.
DiscardLine ==
  /\ ~link /\ outgoing # <<>>
  /\ outgoing' = Tail(outgoing)
  /\ UNCHANGED <<netEvents, link, toClient, bridgeVars, disturbed>> /\ netAlone

\* _reset_connection.
BridgeReset == hello' = FALSE /\ sessionSent' = FALSE /\ collected' = {}

LoseLink ==
  /\ link /\ Disturb
  /\ link' = FALSE /\ toClient' = <<>>
  /\ netEvents' = Append(netEvents, "Disconnected")
  /\ BridgeReset
  /\ UNCHANGED outgoing /\ netAlone

\* The plugin loop has turned without a session since the last one.  RECONNECT_DELAY
\* is 2 s, and the client needs several answers of the AP server; a turn takes 50 ms.
Noticed == ~active /\ ~wasActive /\ netEvents = <<>>

Reconnect ==
  /\ ~link /\ Noticed
  /\ link' = TRUE /\ toClient' = <<Hello>>
  /\ UNCHANGED <<outgoing, netEvents, bridgeVars, disturbed>> /\ netAlone

-----------------------------------------------------------------------------
\* The client.

clientAlone == UNCHANGED <<gameVars, loopVars, active, outgoing, link, checked>>

\* locations_for_progress: an activity's flags and a job's levels are those that
\* are new, a medal or style level brings all below it.
FromPrevious(e, previous, current) == Levels(e, previous, current)
LocationsFor(e, previous, current) ==
  IF current <= previous THEN {}
  ELSE IF Category(e) \in {"activity"} \cup Jobs THEN Levels(e, previous + 1, current)
  ELSE Levels(e, 1, current)

\* CollectibleCounts.
CountOf(category, keys) == Cardinality({e \in keys : Category(e) = category})
CountedAfter(line) ==
  IF Category(line.entry) \in Counted /\ line.current > 0 THEN collected \cup {line.entry}
  ELSE collected
OneTooMany(category, keys) == {Progressive(category, n) : n \in 1..(CountOf(category, keys) + 1)}
ProgressiveFor(category, keys) == {Progressive(category, n) : n \in 1..CountOf(category, keys)}

\* submit_observed_locations and send_goal_if_complete.
ToSubmit(seen, already) ==
  (seen \cup (IF GoalLocations # {} /\ GoalLocations \subseteq seen THEN {Goal} ELSE {}))
  \ already
Submit(seen) ==
  IF online
  THEN /\ submitted' = submitted \cup ToSubmit(seen, submitted)
       /\ inFlight' = inFlight \cup ToSubmit(seen, submitted)
  ELSE UNCHANGED <<submitted, inFlight>>

ReadHello ==
  /\ toClient # <<>> /\ Head(toClient) = Hello
  /\ hello' = TRUE /\ toClient' = Tail(toClient)
  /\ UNCHANGED <<netEvents, sessionSent, collected, online, submitted, inFlight, observed,
                 disturbed>>
  /\ clientAlone

OnProgression ==
  /\ toClient # <<>> /\ Head(toClient) # Hello
  /\ LET line == Head(toClient)
         category == Category(line.entry) IN
     /\ collected' = CountedAfter(line)
     /\ observed' = observed \cup LocationsFor(line.entry, line.previous, line.current)
          \cup (IF category \in Counted /\ line.current > 0
                THEN ProgressiveFor(category, collected') ELSE {})
  /\ Submit(observed')
  /\ toClient' = Tail(toClient)
  /\ UNCHANGED <<netEvents, hello, sessionSent, online, disturbed>> /\ clientAlone

\* Connected: the sync loop sends what was observed while the server was away ...
ConnectServer ==
  /\ ~online /\ (QuickReconnect \/ Noticed)
  /\ online' = TRUE
  /\ submitted' = submitted \cup ToSubmit(observed, submitted)
  /\ inFlight' = ToSubmit(observed, submitted)
  /\ UNCHANGED <<netEvents, toClient, bridgeVars, observed, disturbed>> /\ clientAlone

\* ... and starts the plugin's session.
SendSessionReady ==
  /\ online /\ link /\ hello /\ ~sessionSent
  /\ sessionSent' = TRUE
  /\ netEvents' = Append(netEvents, "SessionReady")
  /\ UNCHANGED <<toClient, hello, collected, online, submitted, inFlight, observed, disturbed>>
  /\ clientAlone

ServerReceives ==
  /\ inFlight # {}
  /\ checked' = checked \cup inFlight /\ inFlight' = {}
  /\ UNCHANGED <<gameVars, loopVars, active, linkVars, bridgeVars, online, submitted, observed,
                 disturbed>>

\* connection_closed recreates locations_checked and finished_game, since what was
\* submitted last may not have arrived.
SubmittedKept == submitted
SubmittedAfterClose == {}
LoseServer ==
  /\ online /\ Disturb
  /\ online' = FALSE /\ submitted' = SubmittedAfterClose /\ inFlight' = {}
  /\ sessionSent' = FALSE /\ collected' = {}
  /\ netEvents' = IF link THEN Append(netEvents, "SessionEnd") ELSE netEvents
  /\ UNCHANGED <<toClient, hello, observed>> /\ clientAlone

\* A new client process: the connection to the plugin goes with the old one.
RestartClient ==
  /\ observed # {} /\ Disturb
  /\ observed' = {} /\ online' = FALSE /\ submitted' = {} /\ inFlight' = {}
  /\ BridgeReset
  /\ link' = FALSE /\ toClient' = <<>>
  /\ netEvents' = IF link THEN Append(netEvents, "Disconnected") ELSE netEvents
  /\ UNCHANGED <<gameVars, loopVars, active, outgoing, checked>>

Game ==
  \/ Achieve \/ FinishJobLevel \/ SaveGame \/ LoadGame \/ FillTables \/ FinishLoading
  \/ QuitToMenu
Plugin ==
  \/ StartTurn \/ ProcessGameEvents \/ PollIsDue \/ PollIsNotDue \/ PollReader \/ SendEvent
  \/ TakeNetEvent \/ EndTurn
Network == SendToClient \/ DiscardLine \/ LoseLink \/ Reconnect
Client ==
  \/ ReadHello \/ OnProgression \/ ConnectServer \/ SendSessionReady \/ ServerReceives
  \/ LoseServer \/ RestartClient

Next == Game \/ Plugin \/ Network \/ Client

Spec == Init /\ [][Next]_vars

\* The loop turns every 50 ms and a poll is due every pollingIntervalMs; the
\* network thread runs, and so do the tasks of the client and its connection.
turnVars == <<loopVars, active, netEvents>>
talkVars == <<toClient, netEvents, clientVars>>
FairSpec ==
  /\ Spec
  /\ WF_turnVars(Plugin) /\ SF_turnVars(PollIsDue)
  /\ WF_talkVars(SendToClient)
  /\ WF_talkVars(ReadHello \/ OnProgression \/ SendSessionReady \/ ServerReceives)

-----------------------------------------------------------------------------
\* Properties.

\* Every location the slot can have.
AllEntries == UNION Games
AllLocations ==
  (UNION {Levels(e, 1, Top(e)) : e \in AllEntries}) \cup {Goal}
  \cup {Progressive(category, n) : category \in Counted, n \in 1..Cardinality(AllEntries)}

Reports == [type : {"progression"}, entry : entries,
            previous : 0..MaxLevel, current : 0..MaxLevel]

TypeOK ==
  /\ mode \in {"MainMenu", "Loading", "Filled", "Playing"}
  /\ progress \in Worlds(entries) /\ save \in Worlds(entries)
  /\ deeds \subseteq AllLocations
  /\ ppc \in {"Turn", "Events", "Edge", "Poll"}
  /\ seenLoaded \in BOOLEAN /\ active \in BOOLEAN /\ wasActive \in BOOLEAN
  /\ seenEdge \in BOOLEAN /\ lost \subseteq entries
  /\ \A category \in Readers :
       /\ DOMAIN baseline[category] \subseteq EntriesOf(category)
       /\ \A e \in DOMAIN baseline[category] : baseline[category][e] \in 0..Top(e)
  /\ \A event \in events : event \in Reports
  /\ Len(outgoing) <= Capacity /\ \A i \in 1..Len(outgoing) : outgoing[i] \in Reports
  /\ \A i \in 1..Len(toClient) : toClient[i] = Hello \/ toClient[i] \in Reports
  /\ \A i \in 1..Len(netEvents) :
       netEvents[i] \in {"SessionReady", "SessionEnd", "Disconnected"}
  /\ observed \subseteq AllLocations \ {Goal} /\ checked \subseteq AllLocations
  /\ inFlight \subseteq submitted /\ submitted \subseteq AllLocations
  /\ collected \subseteq entries /\ disturbed \in 0..MaxDisturbances

\* A check is submitted only for what the player did: a level that was reached in
\* some world, the n-th of a kind of collectible when n were collected, the goal
\* when all its locations were, whichever saves and sessions came in between.
NoCheckWithoutDeed ==
  LET done == {location[1] : location \in deeds} IN
  \A location \in observed \cup submitted \cup checked :
    \/ location \in deeds
    \/ location = Goal /\ GoalLocations \subseteq deeds
    \/ \E category \in Counted : \E n \in 1..CountOf(category, done) :
         location = Progressive(category, n)

\* What a baseline calls known of an entry was observed, or counted, by this client, or
\* is in a line on its way to it.
Lines == events \cup {outgoing[i] : i \in 1..Len(outgoing)}
         \cup {toClient[i] : i \in {k \in 1..Len(toClient) : toClient[k] # Hello}}
LevelsReported(category, e) ==
  Levels(e, 1, baseline[category][e]) \subseteq
    observed \cup UNION {LocationsFor(l.entry, l.previous, l.current) : l \in Lines}
KeyReported(category, e) ==
  (category \in Counted /\ baseline[category][e] > 0) =>
    e \in collected \cup {l.entry : l \in Lines}

\* "A new AP session has no record of earlier progress, so the next poll re-reports
\* everything the loaded save has" (Plugin.cpp): in a session that the plugin loop has
\* noticed, the baselines hide nothing from later polls that is missing in the client.
ReportedOrOnItsWay ==
  active /\ wasActive /\ link /\ sessionSent =>
    \A category \in Readers \cap EnabledCategories : \A e \in DOMAIN baseline[category] :
      LevelsReported(category, e) /\ KeyReported(category, e)

\* What the code gives of that, whatever the queue holds and however fast the client is
\* back.  But for entries of which the full queue lost a line in this session, the
\* baselines hide no level that is missing in the client, even when the loop missed that
\* one session ended and another began (the edge at Plugin.cpp:210); and no key that is
\* missing in its counts, once the loop has seen the beginning of the session.
InSeenSession == active /\ seenEdge /\ sessionSent /\ netEvents = <<>>
HiddenOnlyWhenLost ==
  \A category \in Readers \cap EnabledCategories : \A e \in DOMAIN baseline[category] \ lost :
    /\ wasActive /\ link => LevelsReported(category, e)
    /\ InSeenSession => KeyReported(category, e)

\* In a world and a session that last, everything done reaches the AP server: every
\* level, every progressive location, and the goal, but for entries that lost a line and
\* the counts of a session whose beginning the loop missed.  (Loads are bounded, so in
\* the end what is due only grows.)
BeginningMissed == active /\ wasActive /\ netEvents = <<>> /\ ~seenEdge
Lasting == mode = "Playing" /\ link /\ online /\ sessionSent
Due ==
  LET reported == {e \in entries \ lost : Category(e) \in Readers \cap EnabledCategories}
      done == {e \in reported : progress[e] > 0}
      levels == UNION {Levels(e, 1, progress[e]) : e \in done} IN
  levels
  \cup UNION {ProgressiveFor(category, done) : category \in {c \in Counted : ~BeginningMissed}}
  \cup (IF GoalLocations # {} /\ GoalLocations \subseteq levels THEN {Goal} ELSE {})
EverythingIsReported == []<>(Lasting => Due \subseteq checked)
=============================================================================
