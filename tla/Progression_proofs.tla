------------------------ MODULE Progression_proofs -------------------------
(***************************************************************************)
(* Proofs about Progression, for every set of games, every bound and any   *)
(* order of deeds, loads, polls, lines and lost connections.               *)
(*                                                                         *)
(* That a check has a deed behind it is a fact about everything between    *)
(* the two: a level stands in a table, in the save, in a queued job or in  *)
(* a line only if it and all below it were reached (GameInv, LinesInv), and *)
(* counting keys never counts one of which nothing was done (ClientInv).   *)
(* Deeds only grow, so what was earned stays earned.                       *)
(*                                                                         *)
(* What a baseline hides from later polls was observed or is in a line      *)
(* (CoverInv): a baseline is dropped at the edge of a session, and from     *)
(* then on a line leaves the queue for the client alone, unless it never    *)
(* got in and its entry is lost.  That takes no assumption on the size of   *)
(* the queue or on how fast a client is back.                               *)
(***************************************************************************)
EXTENDS Progression, FiniteSetTheorems, TLAPS

USE DEF gameVars, historyVars, loopVars, linkVars, bridgeVars, serverVars, clientVars,
        gameAlone, loopAlone, netAlone, clientAlone

\* The levels of e up to n were reached in some world; the entries of which a level was.
Did(e, n, done) == \A k \in 1..n : Location(e, k) \in done
Touched(done) == {location[1] : location \in done}

JobRecords == [entry : entries, level : 1..MaxLevel]
NetEvents == {"SessionReady", "SessionEnd", "Disconnected"}

GameInv ==
  /\ mode \in {"MainMenu", "Loading", "Filled", "Playing"}
  /\ entries \in Games /\ progress \in Worlds(entries) /\ save \in Worlds(entries)
  /\ \A e \in entries : Did(e, progress[e], deeds) /\ Did(e, save[e], deeds)
  /\ \A d \in deeds : \E e \in entries : \E n \in 1..Top(e) : d = Location(e, n)
  /\ jobEvents \in Seq(JobRecords)
  /\ \A i \in 1..Len(jobEvents) : /\ Category(jobEvents[i].entry) \in Jobs
                                  /\ Did(jobEvents[i].entry, jobEvents[i].level, deeds)

\* What a line says was done.
IsTrue(line) ==
  /\ line \in Reports /\ line.current <= Top(line.entry)
  /\ Did(line.entry, line.current, deeds)
LinesInv ==
  /\ \A event \in events : IsTrue(event)
  /\ outgoing \in Seq(Reports) /\ Len(outgoing) <= Capacity
  /\ \A i \in 1..Len(outgoing) : IsTrue(outgoing[i])
  /\ toClient \in Seq(Reports \cup {Hello})
  /\ \A i \in 1..Len(toClient) : toClient[i] = Hello \/ IsTrue(toClient[i])

LoopInv ==
  /\ ppc \in {"Turn", "Events", "Edge", "Poll"}
  /\ toPoll \subseteq Readers
  /\ DOMAIN baseline = Readers
  /\ \A category \in Readers :
       /\ DOMAIN baseline[category] \subseteq EntriesOf(category)
       /\ \A e \in DOMAIN baseline[category] : baseline[category][e] \in 0..Top(e)
  /\ netEvents \in Seq(NetEvents) /\ disturbed \in 0..MaxDisturbances
  /\ lost \subseteq entries
FlagOK ==
  /\ seenLoaded \in BOOLEAN /\ active \in BOOLEAN /\ wasActive \in BOOLEAN
  /\ seenEdge \in BOOLEAN

\* A check that a set of deeds pays for.
Earned(location, goals, done) ==
  \/ location \in done
  \/ location = Goal /\ goals \subseteq done
  \/ \E category \in Counted : \E n \in 1..CountOf(category, Touched(done)) :
       location = Progressive(category, n)
ClientInv ==
  /\ collected \subseteq Touched(deeds)
  /\ observed \subseteq AllLocations \ {Goal} /\ submitted \subseteq AllLocations
  /\ checked \subseteq AllLocations /\ inFlight \subseteq submitted
  /\ \A location \in observed \cup submitted \cup checked :
       Earned(location, GoalLocations, deeds)

IInv == GameInv /\ LinesInv /\ LoopInv /\ FlagOK /\ ClientInv

\* A session needs the connection that it was announced on.  A turn that polls for a
\* session has it until all it polled is sent.
SessionInv == sessionSent => link
TurnInv ==
  (events # {} \/ (ppc = "Poll" /\ toPoll # {})) => (wasActive => active)

\* On a connection with a session that the loop knows of, whichever it is, the levels the
\* baselines call done were observed or are in a line; in a session that was seen to
\* begin, the keys were counted or are in a line.  But for the entries that lost one.
Connected == wasActive /\ link
Elements(q) == {q[i] : i \in 1..Len(q)}
OnItsWay == events \cup Elements(outgoing) \cup (Elements(toClient) \ {Hello})
KnownLevel(e, k) ==
  \/ Location(e, k) \in observed
  \/ \E l \in OnItsWay : /\ l.entry = e
                         /\ Location(e, k) \in LocationsFor(e, l.previous, l.current)
KnownKey(e) == e \in collected \/ \E l \in OnItsWay : l.entry = e /\ l.current > 0
LevelsKnown(e, level) == \A k \in 1..level : KnownLevel(e, k)
KeyKnown(category, e, level) == category \in Counted /\ level > 0 => KnownKey(e)
CoverInv ==
  \A category \in Readers \cap EnabledCategories : \A e \in DOMAIN baseline[category] \ lost :
    /\ Connected => LevelsKnown(e, baseline[category][e])
    /\ InSeenSession => KeyKnown(category, e, baseline[category][e])

HiddenInv == SessionInv /\ TurnInv /\ CoverInv

-----------------------------------------------------------------------------
\* Categories, entries and locations.

LEMMA CategoriesAre ==
  /\ Readers = {"hitman", "chop_shop", "mission", "activity", "racing", "cd", "style_level",
                "tags", "stunt_jumps"}
  /\ "goal" \notin Readers \cup Jobs
BY DEF Readers, ReaderOrder, Jobs, VehicleJobs

\* Each level of an entry is a location, which is neither the goal nor a count.
LEMMA EntryLocations ==
  ASSUME NEW game \in Games, NEW e \in game
  PROVE  /\ \A n \in 1..Top(e) : Location(e, n) \in AllLocations
         /\ Category(e) \in Readers \cup Jobs
         /\ \A n : Location(e, n) # Goal
         /\ \A n, category, k : Location(e, n) # Progressive(category, k)
<1>1. e \in AllEntries /\ e[1] \in Readers \cup Jobs /\ e[2] # "count"
  BY ProgressionAssumption DEF AllEntries
<1>2. \A n \in 1..Top(e) : Location(e, n) \in AllLocations
  <2>1. \A n \in 1..Top(e) : Location(e, n) \in Levels(e, 1, Top(e))
    BY DEF Levels
  <2> QED BY <1>1, <2>1 DEF AllLocations
<1>3. \A n : Location(e, n) # Goal
  BY <1>1, CategoriesAre DEF Location, Goal
<1>4. \A n, category, k : Location(e, n) # Progressive(category, k)
  BY <1>1 DEF Location, Progressive
<1> QED BY <1>1, <1>2, <1>3, <1>4 DEF Category

LEMMA FiniteGame ==
  ASSUME NEW game \in Games
  PROVE  /\ IsFiniteSet(game) /\ Cardinality(game) \in Nat
         /\ Cardinality(AllEntries) \in Nat
         /\ \A S \in SUBSET game : /\ IsFiniteSet(S) /\ Cardinality(S) \in Nat
                                   /\ Cardinality(S) <= Cardinality(game)
                                   /\ Cardinality(S) <= Cardinality(AllEntries)
<1>1. IsFiniteSet(AllEntries) /\ game \subseteq AllEntries
  BY ProgressionAssumption DEF AllEntries
<1>2. IsFiniteSet(game)
  BY <1>1, FS_Subset
<1>3. ASSUME NEW S \in SUBSET game
      PROVE  /\ IsFiniteSet(S) /\ Cardinality(S) \in Nat
             /\ Cardinality(S) <= Cardinality(game)
             /\ Cardinality(S) <= Cardinality(AllEntries)
  <2>1. S \subseteq AllEntries
    BY <1>1
  <2> QED BY <1>1, <1>2, <2>1, FS_Subset, FS_CardinalityType
<1> QED BY <1>1, <1>2, <1>3, FS_CardinalityType

LEMMA GoalIsNoCount ==
  /\ Goal \in AllLocations
  /\ \A category \in Counted : \A n : Progressive(category, n) # Goal
  /\ \A category \in Counted : \A n \in 1..Cardinality(AllEntries) :
       Progressive(category, n) \in AllLocations
<1>1. \A category \in Counted : \A n : Progressive(category, n) # Goal
  BY DEF Progressive, Location, Goal, Counted
<1> DEFINE L == UNION {Levels(e, 1, Top(e)) : e \in AllEntries}
           P == {Progressive(category, n) :
                   category \in Counted, n \in 1..Cardinality(AllEntries)}
<1>2. AllLocations = L \cup {Goal} \cup P
  BY DEF AllLocations
<1>3. \A category \in Counted : \A n \in 1..Cardinality(AllEntries) :
        Progressive(category, n) \in P
  OBVIOUS
<1> HIDE DEF L, P
<1> QED BY <1>1, <1>2, <1>3

\* How often a category was counted only grows.
LEMMA CountGrows ==
  ASSUME NEW game \in Games, NEW S \in SUBSET game, NEW T \in SUBSET S, NEW category
  PROVE  /\ CountOf(category, T) \in Nat /\ CountOf(category, S) \in Nat
         /\ CountOf(category, T) <= CountOf(category, S)
         /\ CountOf(category, S) <= Cardinality(AllEntries)
         /\ Cardinality(AllEntries) \in Nat
<1> DEFINE A == {e \in T : Category(e) = category}
           B == {e \in S : Category(e) = category}
<1>1. A \subseteq B /\ B \subseteq game /\ A \subseteq game
  OBVIOUS
<1>2. Cardinality(A) \in Nat /\ IsFiniteSet(B) /\ Cardinality(B) \in Nat
      /\ Cardinality(B) <= Cardinality(AllEntries) /\ Cardinality(AllEntries) \in Nat
  BY <1>1, FiniteGame
<1>3. Cardinality(A) <= Cardinality(B)
  BY <1>1, <1>2, FS_Subset
<1> QED BY <1>2, <1>3 DEF CountOf

\* What was earned stays earned.
LEMMA EarnedStays ==
  ASSUME NEW game \in Games, NEW goals, NEW done, NEW more, done \subseteq more,
         Touched(more) \subseteq game, NEW location, Earned(location, goals, done)
  PROVE  Earned(location, goals, more)
<1>1. Touched(done) \subseteq Touched(more)
  BY DEF Touched
<1>2. CASE location \in done
  BY <1>2 DEF Earned
<1>3. CASE location = Goal /\ goals \subseteq done
  BY <1>3 DEF Earned
<1>4. ASSUME NEW category \in Counted, NEW n \in 1..CountOf(category, Touched(done)),
             location = Progressive(category, n)
      PROVE  Earned(location, goals, more)
  <2>1. n \in 1..CountOf(category, Touched(more))
    BY <1>1, CountGrows
  <2> QED BY <1>4, <2>1 DEF Earned
<1> QED BY <1>2, <1>3, <1>4 DEF Earned

\* Sequences as queues.
LEMMA TakeFirst ==
  ASSUME NEW S, NEW q \in Seq(S), q # <<>>
  PROVE  /\ Head(q) \in S /\ Head(q) = q[1] /\ Tail(q) \in Seq(S)
         /\ Len(q) \in Nat /\ Len(Tail(q)) = Len(q) - 1 /\ 1 \in 1..Len(q)
         /\ \A i \in 1..Len(Tail(q)) : i + 1 \in 1..Len(q) /\ Tail(q)[i] = q[i + 1]
OBVIOUS

LEMMA AddLast ==
  ASSUME NEW S, NEW q \in Seq(S), NEW x \in S
  PROVE  /\ Append(q, x) \in Seq(S) /\ Len(Append(q, x)) = Len(q) + 1 /\ Len(q) \in Nat
         /\ \A i \in 1..Len(q) : Append(q, x)[i] = q[i]
         /\ Append(q, x)[Len(q) + 1] = x
OBVIOUS

-----------------------------------------------------------------------------
\* The game: levels and deeds.

LEMMA DidMore ==
  ASSUME NEW done, NEW more, done \subseteq more, NEW e, NEW n, Did(e, n, done)
  PROVE  Did(e, n, more)
BY DEF Did

\* One more level.
LEMMA DidNext ==
  ASSUME NEW done, NEW e, NEW n \in Nat, Did(e, n, done)
  PROVE  Did(e, n + 1, done \cup {Location(e, n + 1)})
<1>1. \A k \in 1..(n + 1) : k = n + 1 \/ k \in 1..n
  OBVIOUS
<1> QED BY <1>1 DEF Did

LEMMA TopIs ==
  ASSUME NEW e
  PROVE  Top(e) \in 1..MaxLevel /\ (Category(e) \in Jobs => Top(e) = MaxLevel)
BY ProgressionAssumption DEF Top, Leveled

LEMMA WorldsAre ==
  ASSUME NEW game, NEW w
  PROVE  /\ w \in Worlds(game) =>
              w \in [game -> 0..MaxLevel] /\ \A e \in game : w[e] \in 0..Top(e)
         /\ w \in [game -> 0..MaxLevel] /\ (\A e \in game : w[e] <= Top(e)) => w \in Worlds(game)
<1>1. w \in Worlds(game) => w \in [game -> 0..MaxLevel] /\ \A e \in game : w[e] <= Top(e)
  BY DEF Worlds
<1>2. w \in [game -> 0..MaxLevel] /\ (\A e \in game : w[e] <= Top(e)) => w \in Worlds(game)
  BY DEF Worlds
<1>3. ASSUME w \in Worlds(game), NEW e \in game PROVE w[e] \in 0..Top(e)
  BY <1>1, <1>3, TopIs, ProgressionAssumption
<1> QED BY <1>1, <1>2, <1>3

LEMMA GameInit == Init => GameInv
<1> SUFFICES ASSUME Init PROVE GameInv
  OBVIOUS
<1>1. PICK game \in Games : save \in Worlds(game) /\ progress = NoProgress(game)
  BY DEF Init
<1>2. progress \in Worlds(game) /\ entries = game /\ \A e \in game : progress[e] = 0
  <2>1. progress \in [game -> 0..MaxLevel] /\ (\A e \in game : progress[e] = 0)
    BY <1>1, ProgressionAssumption DEF NoProgress
  <2>2. \A e \in game : progress[e] <= Top(e)
    BY <2>1, TopIs
  <2> QED BY <2>1, <2>2, WorldsAre DEF entries
<1>3. /\ DOMAIN save = game
      /\ \A e \in game : save[e] \in 0..Top(e)
  BY <1>1, WorldsAre
<1>4. deeds = UNION {Levels(e, 1, save[e]) : e \in game}
  BY <1>3 DEF Init, Reached
<1>5. \A e \in game : Did(e, save[e], deeds) /\ Did(e, progress[e], deeds)
  BY <1>2, <1>4 DEF Did, Levels
<1>6. ASSUME NEW d \in deeds
      PROVE  \E e \in game : \E n \in 1..Top(e) : d = Location(e, n)
  <2>1. PICK e \in game : d \in Levels(e, 1, save[e])
    BY <1>4
  <2>2. PICK n \in 1..save[e] : d = Location(e, n)
    BY <2>1 DEF Levels
  <2>3. n \in 1..Top(e)
    BY <1>3, TopIs
  <2> QED BY <2>2, <2>3
<1>7. jobEvents = <<>> /\ mode = "MainMenu"
  BY DEF Init
<1> QED BY <1>1, <1>2, <1>5, <1>6, <1>7 DEF GameInv

\* A level that was just reached.
LEMMA NewLevel ==
  ASSUME GameInv, NEW e \in entries, NEW level \in 1..Top(e), level <= progress[e] + 1,
         progress' = [progress EXCEPT ![e] = level],
         deeds' = deeds \cup {Location(e, level)}, save' = save
  PROVE  /\ entries' = entries /\ deeds \subseteq deeds' /\ progress' \in Worlds(entries)
         /\ \A x \in entries : Did(x, progress'[x], deeds') /\ Did(x, save'[x], deeds')
         /\ \A d \in deeds' : \E x \in entries : \E n \in 1..Top(x) : d = Location(x, n)
         /\ Did(e, level, deeds')
<1>1. progress \in [entries -> 0..MaxLevel] /\ \A x \in entries : progress[x] \in 0..Top(x)
  BY WorldsAre DEF GameInv
<1>2. level \in 0..MaxLevel /\ level - 1 \in Nat /\ level - 1 <= progress[e]
  BY <1>1, TopIs, ProgressionAssumption
<1>3. entries' = entries /\ progress' \in [entries -> 0..MaxLevel]
  BY <1>1, <1>2 DEF entries
<1>4. \A x \in entries : progress'[x] = IF x = e THEN level ELSE progress[x]
  BY <1>1
<1>5. progress' \in Worlds(entries)
  <2>1. \A x \in entries : progress'[x] <= Top(x)
    BY <1>1, <1>4, TopIs
  <2> QED BY <1>3, <2>1, WorldsAre
<1>6. Did(e, level, deeds')
  <2>1. Did(e, level - 1, deeds)
    BY <1>1, <1>2 DEF GameInv, Did
  <2> QED BY <1>2, <2>1, DidNext
<1>7. \A x \in entries : Did(x, progress'[x], deeds') /\ Did(x, save'[x], deeds')
  BY <1>4, <1>6, DidMore DEF GameInv
<1>8. \A d \in deeds' : \E x \in entries : \E n \in 1..Top(x) : d = Location(x, n)
  BY DEF GameInv
<1> QED BY <1>3, <1>5, <1>6, <1>7, <1>8

LEMMA AchieveLemma == GameInv /\ Achieve => GameInv' /\ entries' = entries /\ deeds \subseteq deeds'
<1> SUFFICES ASSUME GameInv, Achieve
             PROVE  GameInv' /\ entries' = entries /\ deeds \subseteq deeds'
  OBVIOUS
<1>1. PICK e \in entries : /\ Category(e) \in Readers /\ progress[e] < Top(e)
                           /\ progress' = [progress EXCEPT ![e] = @ + 1]
                           /\ deeds' = deeds \cup {Location(e, progress'[e])}
  BY DEF Achieve
<1> DEFINE level == progress[e] + 1
<1>2. progress \in [entries -> 0..MaxLevel] /\ progress[e] \in 0..Top(e)
  BY WorldsAre DEF GameInv
<1>3. progress' = [progress EXCEPT ![e] = level] /\ progress'[e] = level
  BY <1>1, <1>2
<1>4. level \in 1..Top(e) /\ level <= progress[e] + 1
  BY <1>1, <1>2, TopIs
<1>5. deeds' = deeds \cup {Location(e, level)} /\ save' = save
  BY <1>1, <1>3 DEF Achieve
<1> HIDE DEF level
<1>6. PICK n : n = level
  OBVIOUS
<1>7. /\ entries' = entries /\ deeds \subseteq deeds' /\ progress' \in Worlds(entries)
      /\ \A x \in entries : Did(x, progress'[x], deeds') /\ Did(x, save'[x], deeds')
      /\ \A d \in deeds' : \E x \in entries : \E k \in 1..Top(x) : d = Location(x, k)
  BY <1>3, <1>4, <1>5, <1>6, NewLevel
<1>8. mode' = mode /\ jobEvents' = jobEvents /\ save' = save
  BY DEF Achieve
<1>9. \A i \in 1..Len(jobEvents) :
        Did(jobEvents[i].entry, jobEvents[i].level, deeds')
  BY <1>7, DidMore DEF GameInv
<1> QED BY <1>7, <1>8, <1>9 DEF GameInv, JobRecords

LEMMA FinishJobLevelLemma ==
  GameInv /\ FinishJobLevel => GameInv' /\ entries' = entries /\ deeds \subseteq deeds'
<1> SUFFICES ASSUME GameInv, FinishJobLevel
             PROVE  GameInv' /\ entries' = entries /\ deeds \subseteq deeds'
  OBVIOUS
<1>1. PICK e \in entries, level \in 1..MaxLevel :
        /\ Category(e) \in Jobs
        /\ level = progress[e] + 1 \/ (level = 1 /\ Category(e) \in VehicleJobs)
        /\ progress' = [progress EXCEPT ![e] = level]
        /\ deeds' = deeds \cup {Location(e, level)}
        /\ jobEvents' = Append(jobEvents, [entry |-> e, level |-> level])
  BY DEF FinishJobLevel
<1>2. progress[e] \in 0..Top(e)
  BY WorldsAre DEF GameInv
<1>3. level \in 1..Top(e) /\ level <= progress[e] + 1
  BY <1>1, <1>2, TopIs, ProgressionAssumption
<1>4. mode' = mode /\ jobEvents = <<>> /\ save' = save
  BY DEF FinishJobLevel
<1>5. /\ entries' = entries /\ deeds \subseteq deeds' /\ progress' \in Worlds(entries)
      /\ \A x \in entries : Did(x, progress'[x], deeds') /\ Did(x, save'[x], deeds')
      /\ \A d \in deeds' : \E x \in entries : \E k \in 1..Top(x) : d = Location(x, k)
      /\ Did(e, level, deeds')
  BY <1>1, <1>3, <1>4, NewLevel
<1>6. /\ jobEvents' \in Seq(JobRecords) /\ Len(jobEvents') = 1
      /\ jobEvents'[1] = [entry |-> e, level |-> level]
  <2>1. [entry |-> e, level |-> level] \in JobRecords
    BY DEF JobRecords
  <2>2. jobEvents' = <<[entry |-> e, level |-> level]>>
    BY <1>1, <1>4
  <2> QED BY <2>1, <2>2
<1>7. \A i \in 1..Len(jobEvents') :
        /\ Category(jobEvents'[i].entry) \in Jobs
        /\ Did(jobEvents'[i].entry, jobEvents'[i].level, deeds')
  <2>1. \A i \in 1..Len(jobEvents') : i = 1
    BY <1>6
  <2>2. jobEvents'[1].entry = e /\ jobEvents'[1].level = level
    BY <1>6
  <2> QED BY <1>1, <1>5, <2>1, <2>2
<1>8. jobEvents' \in Seq(JobRecords')
  BY <1>5, <1>6 DEF JobRecords
<1> QED BY <1>4, <1>5, <1>7, <1>8 DEF GameInv

\* Every step keeps what the game's tables and the history of deeds say.
LEMMA GameStep ==
  GameInv /\ [Next]_vars => GameInv' /\ entries' = entries /\ deeds \subseteq deeds'
<1> SUFFICES ASSUME GameInv, [Next]_vars
             PROVE  GameInv' /\ entries' = entries /\ deeds \subseteq deeds'
  OBVIOUS
<1> DEFINE Modes == {"MainMenu", "Loading", "Filled", "Playing"}
<1>1. CASE Achieve
  BY <1>1, AchieveLemma
<1>2. CASE FinishJobLevel
  BY <1>2, FinishJobLevelLemma
<1>3. CASE SaveGame
  <2>1. save' = progress /\ UNCHANGED <<mode, progress, jobEvents, deeds>>
    BY <1>3 DEF SaveGame
  <2>2. entries' = entries
    BY <2>1 DEF entries
  <2> QED BY <2>1, <2>2 DEF GameInv, JobRecords
<1>4. CASE LoadGame \/ FinishLoading \/ QuitToMenu
  <2>1. mode' \in Modes /\ UNCHANGED <<save, progress, jobEvents, deeds>>
    BY <1>4 DEF LoadGame, FinishLoading, QuitToMenu
  <2>2. entries' = entries
    BY <2>1 DEF entries
  <2> QED BY <2>1, <2>2 DEF GameInv, JobRecords
<1>5. CASE FillTables
  <2>1. progress' \in {save, NoProgress(entries)} /\ mode' = "Filled"
        /\ UNCHANGED <<save, jobEvents, deeds>>
    BY <1>5 DEF FillTables
  <2>2. DOMAIN save = entries
    BY WorldsAre DEF GameInv
  <2>3. NoProgress(entries) \in Worlds(entries) /\ \A e \in entries : NoProgress(entries)[e] = 0
    <3>1. /\ NoProgress(entries) \in [entries -> 0..MaxLevel]
          /\ \A e \in entries : NoProgress(entries)[e] = 0
      BY ProgressionAssumption DEF NoProgress
    <3> QED BY <3>1, WorldsAre, TopIs
  <2>4. entries' = entries /\ progress' \in Worlds(entries)
    <3>1. DOMAIN progress' = entries
      BY <2>1, <2>2, <2>3, WorldsAre
    <3> QED BY <2>1, <2>3, <3>1 DEF entries, GameInv
  <2>5. \A e \in entries : Did(e, progress'[e], deeds)
    BY <2>1, <2>3 DEF GameInv, Did
  <2> QED BY <2>1, <2>4, <2>5 DEF GameInv, JobRecords
<1>6. CASE ProcessGameEvents
  <2>1. UNCHANGED <<mode, progress, save, deeds>>
    BY <1>6 DEF ProcessGameEvents
  <2>2. entries' = entries /\ JobRecords' = JobRecords
    BY <2>1 DEF entries, JobRecords
  <2>3. CASE jobEvents = <<>>
    <3>1. jobEvents' = jobEvents
      BY <1>6, <2>3 DEF ProcessGameEvents
    <3> QED BY <2>1, <2>2, <3>1 DEF GameInv
  <2>4. CASE jobEvents # <<>>
    <3>1. jobEvents' = Tail(jobEvents)
      BY <1>6, <2>4 DEF ProcessGameEvents
    <3>2. jobEvents' \in Seq(JobRecords)
          /\ \A i \in 1..Len(jobEvents') : i + 1 \in 1..Len(jobEvents)
                                           /\ jobEvents'[i] = jobEvents[i + 1]
      BY <2>4, <3>1, TakeFirst DEF GameInv
    <3> QED BY <2>1, <2>2, <3>2 DEF GameInv
  <2> QED BY <2>3, <2>4
<1>7. CASE UNCHANGED gameVars
  <2>1. entries' = entries
    BY <1>7 DEF entries
  <2> QED BY <1>7, <2>1 DEF GameInv, JobRecords
<1>8. \/ Achieve \/ FinishJobLevel \/ SaveGame \/ LoadGame \/ FillTables \/ FinishLoading
      \/ QuitToMenu \/ ProcessGameEvents \/ UNCHANGED gameVars
  <2>1. Plugin => ProcessGameEvents \/ UNCHANGED gameVars
    BY DEF Plugin, StartTurn, PollIsDue, PollIsNotDue, PollReader, SendEvent,
           TakeNetEvent, EndTurn
  <2>2. Network \/ Client => UNCHANGED gameVars
    BY DEF Network, SendToClient, DiscardLine, LoseLink, Reconnect, Client, ReadHello,
           OnProgression, ConnectServer, SendSessionReady, ServerReceives, LoseServer,
           RestartClient
  <2> QED BY <2>1, <2>2 DEF Next, Game, vars
<1> QED BY <1>1, <1>2, <1>3, <1>4, <1>5, <1>6, <1>7, <1>8

-----------------------------------------------------------------------------
\* Lines: what is reported was done.

LEMMA LineIs ==
  ASSUME NEW e \in entries, NEW p \in 0..MaxLevel, NEW c \in 0..MaxLevel, c <= Top(e),
         Did(e, c, deeds)
  PROVE  /\ IsTrue(Progression(e, p, c)) /\ Progression(e, p, c) \in Reports
         /\ Progression(e, p, c) # Hello
<1>1. Progression(e, p, c) = [type |-> "progression", entry |-> e, previous |-> p,
                              current |-> c]
  BY DEF Progression
<1>2. Progression(e, p, c) \in Reports
  BY <1>1 DEF Reports
<1>3. Progression(e, p, c).entry = e /\ Progression(e, p, c).current = c
  BY <1>1
<1>4. Progression(e, p, c).type = "progression" /\ Hello.type = "hello"
  BY <1>1 DEF Hello
<1>5. IsTrue(Progression(e, p, c))
  BY <1>2, <1>3 DEF IsTrue
<1> QED BY <1>2, <1>4, <1>5

\* A line stays true when more is done.
LEMMA StaysTrue ==
  ASSUME entries' = entries, deeds \subseteq deeds', NEW line, IsTrue(line)
  PROVE  IsTrue(line)'
<1>1. Reports' = Reports
  BY DEF Reports
<1> QED BY <1>1, DidMore DEF IsTrue, Top

LEMMA LinesStay ==
  ASSUME LinesInv, entries' = entries, deeds \subseteq deeds',
         UNCHANGED <<events, outgoing, toClient>>
  PROVE  LinesInv'
<1>1. Reports' = Reports
  BY DEF Reports
<1> QED BY <1>1, StaysTrue DEF LinesInv

\* The queue of the link after a report.
LEMMA SendLemma ==
  ASSUME GameInv, LinesInv,
         NEW e \in entries, NEW p \in 0..MaxLevel, NEW c \in 0..MaxLevel, c <= Top(e),
         Did(e, c, deeds), Send(e, p, c)
  PROVE  /\ outgoing' \in Seq(Reports) /\ Len(outgoing') <= Capacity
         /\ \A i \in 1..Len(outgoing') : IsTrue(outgoing'[i])
<1>1. CASE outgoing' = outgoing
  BY <1>1 DEF LinesInv
<1>2. CASE Len(outgoing) < Capacity /\ outgoing' = Append(outgoing, Progression(e, p, c))
  <2> DEFINE line == Progression(e, p, c)
  <2>1. IsTrue(line) /\ line \in Reports
    BY LineIs
  <2> HIDE DEF line
  <2>2. outgoing \in Seq(Reports) /\ \A i \in 1..Len(outgoing) : IsTrue(outgoing[i])
    BY DEF LinesInv
  <2>3. outgoing' = Append(outgoing, line)
    BY <1>2 DEF line
  <2>4. /\ outgoing' \in Seq(Reports) /\ Len(outgoing') = Len(outgoing) + 1
        /\ Len(outgoing) \in Nat
        /\ \A i \in 1..Len(outgoing) : outgoing'[i] = outgoing[i]
        /\ outgoing'[Len(outgoing) + 1] = line
    BY <2>1, <2>2, <2>3, AddLast
  <2>5. \A i \in 1..(Len(outgoing) + 1) : i = Len(outgoing) + 1 \/ i \in 1..Len(outgoing)
    BY <2>4
  <2>6. Len(outgoing') <= Capacity
    BY <1>2, <2>4, ProgressionAssumption
  <2> QED BY <2>1, <2>2, <2>4, <2>5, <2>6
<1> QED BY <1>1, <1>2 DEF Send

\* What a reader reports is what it has read, and that was done.
LEMMA ObserveLemma ==
  ASSUME GameInv, LoopInv, NEW category \in Readers,
         NEW keys \in SUBSET EntriesOf(category),
         NEW current, current = [e \in keys |-> progress[e]], Observe(category, current)
  PROVE  /\ \A event \in events' : IsTrue(event) /\ event.entry \in keys
         /\ DOMAIN current = keys
         /\ baseline' = [baseline EXCEPT ![category] = current]
         /\ \A e \in keys : e \in entries /\ Category(e) = category
                            /\ current[e] = progress[e] /\ current[e] \in 0..Top(e)
<1>1. \A e \in keys : /\ e \in entries /\ Category(e) = category
                      /\ current[e] = progress[e] /\ current[e] \in 0..Top(e)
                      /\ current[e] \in 0..MaxLevel
                      /\ Did(e, current[e], deeds)
  BY WorldsAre DEF EntriesOf, GameInv
<1>2. DOMAIN current = keys /\ baseline' = [baseline EXCEPT ![category] = current]
  BY DEF Observe
<1>3. 0 \in 0..MaxLevel
  BY ProgressionAssumption
<1>4. ASSUME NEW event \in events'
      PROVE  IsTrue(event) /\ event.entry \in keys
  <2>1. CASE DOMAIN baseline[category] # DOMAIN current
    <3>1. event \in ReconcileEvents(current)
      BY <1>4, <2>1 DEF Observe
    <3>2. PICK e \in keys : event = Progression(e, 0, current[e])
      BY <1>2, <3>1 DEF ReconcileEvents
    <3>3. IsTrue(event)
      BY <1>1, <1>3, <3>2, LineIs
    <3> QED BY <3>2, <3>3 DEF Progression
  <2>2. CASE DOMAIN baseline[category] = DOMAIN current
    <3>1. event \in ChangeEvents(baseline[category], current)
      BY <1>4, <2>2 DEF Observe
    <3>2. PICK e \in keys : event = Progression(e, baseline[category][e], current[e])
      BY <1>2, <3>1 DEF ChangeEvents
    <3>3. baseline[category][e] \in 0..MaxLevel
      BY <1>2, <2>2, <3>2, TopIs, ProgressionAssumption DEF LoopInv
    <3>4. IsTrue(event)
      BY <1>1, <3>2, <3>3, LineIs
    <3> QED BY <3>2, <3>4 DEF Progression
  <2> QED BY <2>1, <2>2
<1> QED BY <1>1, <1>2, <1>4

\* A poll observes a set of keys or invalidates the baseline.
LEMMA PollCases ==
  ASSUME LoopInv, NEW category \in Readers, Poll(category)
  PROVE  /\ disturbed' \in 0..MaxDisturbances
         /\ \/ \E keys \in SUBSET EntriesOf(category) :
                 Observe(category, [e \in keys |-> progress[e]])
            \/ Invalidate(category)
<1>1. disturbed' \in 0..MaxDisturbances
  BY ProgressionAssumption DEF Poll, Disturb, LoopInv
<1>2. CASE Observe(category, Table(category))
  <2>1. EntriesOf(category) \in SUBSET EntriesOf(category)
        /\ Observe(category, [e \in EntriesOf(category) |-> progress[e]])
    BY <1>2 DEF Table
  <2> QED BY <1>1, <2>1
<1>3. ASSUME NEW e \in EntriesOf(category),
             Observe(category, [x \in EntriesOf(category) \ {e} |-> progress[x]])
      PROVE  \E keys \in SUBSET EntriesOf(category) :
               Observe(category, [x \in keys |-> progress[x]])
  <2>1. EntriesOf(category) \ {e} \in SUBSET EntriesOf(category)
    OBVIOUS
  <2> QED BY <1>3, <2>1
<1> QED BY <1>1, <1>2, <1>3 DEF Poll

\* Every step keeps the lines true: what a poll or a job adds, and what the queues pass on.
LEMMA LinesStep ==
  ASSUME IInv, [Next]_vars, entries' = entries, deeds \subseteq deeds'
  PROVE  LinesInv'
<1> USE DEF IInv
<1>1. Reports' = Reports
  BY DEF Reports
<1>2. CASE UNCHANGED <<events, outgoing, toClient>>
  BY <1>2, LinesStay
<1>3. CASE ProcessGameEvents
  <2>1. UNCHANGED <<events, toClient, deeds>>
    BY <1>3 DEF ProcessGameEvents
  <2>2. CASE jobEvents = <<>>
    BY <1>2, <1>3, <2>1, <2>2 DEF ProcessGameEvents
  <2>3. CASE jobEvents # <<>>
    <3> DEFINE event == Head(jobEvents)
    <3>1. /\ event \in JobRecords /\ Did(event.entry, event.level, deeds)
          /\ Category(event.entry) \in Jobs
      BY <2>3, TakeFirst DEF GameInv
    <3>2. Send(event.entry, event.level - 1, event.level)
      BY <1>3, <2>3 DEF ProcessGameEvents
    <3>3. /\ event.entry \in entries /\ event.level \in 1..MaxLevel
          /\ event.level \in 0..MaxLevel /\ event.level - 1 \in 0..MaxLevel
      BY <3>1, ProgressionAssumption DEF JobRecords
    <3> HIDE DEF event
    <3>4. event.level <= Top(event.entry)
      BY <3>1, <3>3, TopIs, ProgressionAssumption
    <3>5. /\ outgoing' \in Seq(Reports) /\ Len(outgoing') <= Capacity
          /\ \A i \in 1..Len(outgoing') : IsTrue(outgoing'[i])
      BY <3>1, <3>2, <3>3, <3>4, SendLemma
    <3> QED BY <1>1, <2>1, <3>5, StaysTrue DEF LinesInv
  <2> QED BY <2>2, <2>3
<1>4. CASE PollReader
  <2>1. UNCHANGED <<outgoing, toClient, deeds>>
    BY <1>4 DEF PollReader
  <2>2. PICK category \in Readers : Poll(category)
    BY <1>4 DEF PollReader, LoopInv
  <2>3. \A event \in events' : IsTrue(event)
    <3>1. CASE Invalidate(category)
      BY <3>1 DEF Invalidate
    <3>2. ASSUME NEW keys \in SUBSET EntriesOf(category),
                 Observe(category, [e \in keys |-> progress[e]])
          PROVE  \A event \in events' : IsTrue(event)
      BY <3>2, ObserveLemma
    <3> QED BY <2>2, <3>1, <3>2, PollCases
  <2> QED BY <1>1, <2>1, <2>3, StaysTrue DEF LinesInv
<1>5. CASE SendEvent
  <2>1. UNCHANGED <<toClient, deeds>>
    BY <1>5 DEF SendEvent
  <2>2. PICK event \in events : /\ Send(event.entry, event.previous, event.current)
                                /\ events' = events \ {event}
    BY <1>5 DEF SendEvent
  <2>3. /\ event.entry \in entries /\ event.previous \in 0..MaxLevel
        /\ event.current \in 0..MaxLevel /\ event.current <= Top(event.entry)
        /\ Did(event.entry, event.current, deeds)
    BY DEF LinesInv, IsTrue, Reports
  <2>4. /\ outgoing' \in Seq(Reports) /\ Len(outgoing') <= Capacity
        /\ \A i \in 1..Len(outgoing') : IsTrue(outgoing'[i])
    BY <2>2, <2>3, SendLemma
  <2> QED BY <1>1, <2>1, <2>2, <2>4, StaysTrue DEF LinesInv
<1>6. CASE SendToClient
  <2>1. /\ outgoing # <<>> /\ UNCHANGED <<events, deeds>>
        /\ toClient' = Append(toClient, Head(outgoing)) /\ outgoing' = Tail(outgoing)
    BY <1>6 DEF SendToClient
  <2>2. /\ Head(outgoing) \in Reports /\ Head(outgoing) = outgoing[1]
        /\ 1 \in 1..Len(outgoing) /\ outgoing' \in Seq(Reports)
        /\ Len(outgoing') = Len(outgoing) - 1 /\ Len(outgoing) \in Nat
        /\ \A i \in 1..Len(outgoing') : i + 1 \in 1..Len(outgoing)
                                        /\ outgoing'[i] = outgoing[i + 1]
    BY <2>1, TakeFirst DEF LinesInv
  <2>3. IsTrue(Head(outgoing)) /\ Len(outgoing') <= Capacity
        /\ \A i \in 1..Len(outgoing') : IsTrue(outgoing'[i])
    BY <2>2, ProgressionAssumption DEF LinesInv
  <2>4. /\ toClient' \in Seq(Reports \cup {Hello}) /\ Len(toClient') = Len(toClient) + 1
        /\ Len(toClient) \in Nat
        /\ \A i \in 1..Len(toClient) : toClient'[i] = toClient[i]
        /\ toClient'[Len(toClient) + 1] = Head(outgoing)
    BY <2>1, <2>2, AddLast DEF LinesInv
  <2>5. \A i \in 1..(Len(toClient) + 1) : i = Len(toClient) + 1 \/ i \in 1..Len(toClient)
    BY <2>4
  <2>6. \A i \in 1..Len(toClient') : toClient'[i] = Hello \/ IsTrue(toClient'[i])
    BY <2>3, <2>4, <2>5 DEF LinesInv
  <2> QED BY <1>1, <2>1, <2>2, <2>3, <2>4, <2>6, StaysTrue DEF LinesInv
<1>7. CASE DiscardLine
  <2>1. outgoing # <<>> /\ UNCHANGED <<events, deeds, toClient>> /\ outgoing' = Tail(outgoing)
    BY <1>7 DEF DiscardLine
  <2>2. /\ outgoing' \in Seq(Reports)
        /\ Len(outgoing') = Len(outgoing) - 1 /\ Len(outgoing) \in Nat
        /\ \A i \in 1..Len(outgoing') : i + 1 \in 1..Len(outgoing)
                                        /\ outgoing'[i] = outgoing[i + 1]
    BY <2>1, TakeFirst DEF LinesInv
  <2>3. Len(outgoing') <= Capacity /\ \A i \in 1..Len(outgoing') : IsTrue(outgoing'[i])
    BY <2>2, ProgressionAssumption DEF LinesInv
  <2> QED BY <1>1, <2>1, <2>2, <2>3, StaysTrue DEF LinesInv
<1>8. CASE UNCHANGED <<events, outgoing, deeds>> /\ toClient' \in {<<>>, <<Hello>>}
  <2>1. /\ toClient' \in Seq(Reports \cup {Hello})
        /\ \A i \in 1..Len(toClient') : toClient'[i] = Hello
    <3>1. CASE toClient' = <<>>
      BY <3>1
    <3>2. CASE toClient' = <<Hello>>
      <4>1. Len(toClient') = 1 /\ toClient'[1] = Hello /\ \A i \in 1..1 : i = 1
        BY <3>2
      <4>2. Hello \in Reports \cup {Hello}
        OBVIOUS
      <4>3. toClient' \in Seq(Reports \cup {Hello})
        BY <3>2, <4>2
      <4> QED BY <4>1, <4>3
    <3> QED BY <1>8, <3>1, <3>2
  <2> QED BY <1>1, <1>8, <2>1, StaysTrue DEF LinesInv
<1>9. CASE UNCHANGED <<events, outgoing, deeds>> /\ toClient # <<>> /\ toClient' = Tail(toClient)
  <2>1. /\ toClient' \in Seq(Reports \cup {Hello})
        /\ \A i \in 1..Len(toClient') : i + 1 \in 1..Len(toClient)
                                        /\ toClient'[i] = toClient[i + 1]
    BY <1>9, TakeFirst DEF LinesInv
  <2> QED BY <1>1, <1>9, <2>1, StaysTrue DEF LinesInv
<1>10. \/ ProcessGameEvents \/ PollReader \/ SendEvent \/ SendToClient \/ DiscardLine
       \/ UNCHANGED <<events, outgoing, toClient>>
       \/ UNCHANGED <<events, outgoing, deeds>> /\ toClient' \in {<<>>, <<Hello>>}
       \/ UNCHANGED <<events, outgoing, deeds>> /\ toClient # <<>> /\ toClient' = Tail(toClient)
  <2>1. Game => UNCHANGED <<events, outgoing, toClient>>
    BY DEF Game, Achieve, FinishJobLevel, SaveGame, LoadGame, FillTables, FinishLoading,
           QuitToMenu
  <2>2. Plugin => \/ ProcessGameEvents \/ PollReader \/ SendEvent
                  \/ UNCHANGED <<events, outgoing, toClient>>
    BY DEF Plugin, StartTurn, PollIsDue, PollIsNotDue, TakeNetEvent, EndTurn
  <2>3. LoseLink \/ Reconnect \/ RestartClient =>
          UNCHANGED <<events, outgoing, deeds>> /\ toClient' \in {<<>>, <<Hello>>}
    BY DEF LoseLink, Reconnect, RestartClient
  <2>4. ReadHello \/ OnProgression =>
          UNCHANGED <<events, outgoing, deeds>> /\ toClient # <<>> /\ toClient' = Tail(toClient)
    BY DEF ReadHello, OnProgression
  <2>5. ConnectServer \/ SendSessionReady \/ ServerReceives \/ LoseServer =>
          UNCHANGED <<events, outgoing, toClient>>
    BY DEF ConnectServer, SendSessionReady, ServerReceives, LoseServer
  <2> QED BY <2>1, <2>2, <2>3, <2>4, <2>5 DEF Next, Network, Client, vars
<1> QED BY <1>2, <1>3, <1>4, <1>5, <1>6, <1>7, <1>8, <1>9, <1>10

-----------------------------------------------------------------------------
\* The plugin loop: baselines and flags.

LEMMA LoopStep ==
  ASSUME IInv, [Next]_vars, entries' = entries
  PROVE  LoopInv'
<1> USE DEF IInv
<1> DEFINE BaselineOK ==
      /\ DOMAIN baseline = Readers
      /\ \A category \in Readers :
           /\ DOMAIN baseline[category] \subseteq EntriesOf(category)
           /\ \A e \in DOMAIN baseline[category] : baseline[category][e] \in 0..Top(e)
<1>1. \A category : (EntriesOf(category))' = EntriesOf(category)
  BY DEF EntriesOf
<1>2. BaselineOK'
  <2>1. CASE UNCHANGED baseline
    BY <1>1, <2>1 DEF LoopInv, Top
  <2>2. CASE baseline' = AfterEdge
    <3>1. CASE baseline' = [category \in Readers |-> NotRead]
      <4>1. DOMAIN NotRead = {}
        BY DEF NotRead
      <4> QED BY <3>1, <4>1
    <3> QED BY <2>1, <2>2, <3>1 DEF AfterEdge
  <2>3. ASSUME NEW category \in Readers, NEW read, baseline' = [baseline EXCEPT ![category] = read],
               DOMAIN read \subseteq EntriesOf(category),
               \A e \in DOMAIN read : read[e] \in 0..Top(e)
        PROVE  BaselineOK'
    <3>1. DOMAIN baseline' = Readers /\ \A other \in Readers :
            baseline'[other] = IF other = category THEN read ELSE baseline[other]
      BY <2>3 DEF LoopInv
    <3> QED BY <1>1, <2>3, <3>1 DEF LoopInv, Top
  <2>4. CASE PollReader
    <3>1. PICK category \in Readers : Poll(category)
      BY <2>4 DEF PollReader, LoopInv
    <3>2. CASE Invalidate(category)
      <4>1. baseline' = [baseline EXCEPT ![category] = NotRead] /\ DOMAIN NotRead = {}
        BY <3>2 DEF Invalidate, NotRead
      <4> QED BY <2>3, <4>1
    <3>3. ASSUME NEW keys \in SUBSET EntriesOf(category),
                 Observe(category, [e \in keys |-> progress[e]])
          PROVE  BaselineOK'
      <4>1. PICK read : read = [e \in keys |-> progress[e]]
        OBVIOUS
      <4>2. /\ DOMAIN read = keys /\ baseline' = [baseline EXCEPT ![category] = read]
            /\ \A e \in keys : read[e] \in 0..Top(e)
        BY <3>3, <4>1, ObserveLemma
      <4> HIDE DEF BaselineOK
      <4> QED BY <2>3, <4>2
    <3> QED BY <3>1, <3>2, <3>3, PollCases
  <2>5. PollReader \/ baseline' = AfterEdge \/ UNCHANGED baseline
    <3>1. Plugin => PollReader \/ baseline' = AfterEdge \/ UNCHANGED baseline
      BY DEF Plugin, StartTurn, ProcessGameEvents, PollIsDue, PollIsNotDue, SeeEdge, SendEvent,
             TakeNetEvent, EndTurn
    <3>2. Game => UNCHANGED baseline
      BY DEF Game, Achieve, FinishJobLevel, SaveGame, LoadGame, FillTables, FinishLoading,
             QuitToMenu
    <3>3. Network \/ Client => UNCHANGED baseline
      BY DEF Network, SendToClient, DiscardLine, LoseLink, Reconnect, Client, ReadHello,
             OnProgression, ConnectServer, SendSessionReady, ServerReceives, LoseServer,
             RestartClient
    <3> QED BY <3>1, <3>2, <3>3 DEF Next, vars
  <2> QED BY <2>1, <2>2, <2>4, <2>5
<1>3. ppc' \in {"Turn", "Events", "Edge", "Poll"} /\ toPoll' \subseteq Readers
  <2>1. Plugin => ppc' \in {"Turn", "Events", "Edge", "Poll"} /\ toPoll' \subseteq Readers
    BY DEF Plugin, StartTurn, ProcessGameEvents, PollIsDue, PollIsNotDue, PollReader, SendEvent,
           TakeNetEvent, EndTurn, LoopInv
  <2>2. Game => UNCHANGED <<ppc, toPoll>>
    BY DEF Game, Achieve, FinishJobLevel, SaveGame, LoadGame, FillTables, FinishLoading,
           QuitToMenu
  <2>3. Network \/ Client => UNCHANGED <<ppc, toPoll>>
    BY DEF Network, SendToClient, DiscardLine, LoseLink, Reconnect, Client, ReadHello,
           OnProgression, ConnectServer, SendSessionReady, ServerReceives, LoseServer,
           RestartClient
  <2> QED BY <2>1, <2>2, <2>3 DEF Next, vars, LoopInv
<1>4. disturbed' \in 0..MaxDisturbances
  <2>1. CASE Disturb
    BY <2>1, ProgressionAssumption DEF Disturb, LoopInv
  <2>2. CASE PollReader
    <3>1. PICK category \in Readers : Poll(category)
      BY <2>2 DEF PollReader, LoopInv
    <3> QED BY <3>1, PollCases
  <2>3. Disturb \/ PollReader \/ UNCHANGED disturbed
    <3>1. Plugin => PollReader \/ UNCHANGED disturbed
      BY DEF Plugin, StartTurn, ProcessGameEvents, PollIsDue, PollIsNotDue, SendEvent,
             TakeNetEvent, EndTurn
    <3>2. Game => Disturb \/ UNCHANGED disturbed
      BY DEF Game, Achieve, FinishJobLevel, SaveGame, LoadGame, FillTables, FinishLoading,
             QuitToMenu
    <3>3. Network \/ Client => Disturb \/ UNCHANGED disturbed
      BY DEF Network, SendToClient, DiscardLine, LoseLink, Reconnect, Client, ReadHello,
             OnProgression, ConnectServer, SendSessionReady, ServerReceives, LoseServer,
             RestartClient
    <3> QED BY <3>1, <3>2, <3>3 DEF Next, vars
  <2> QED BY <2>1, <2>2, <2>3 DEF LoopInv
<1>5. netEvents' \in Seq(NetEvents)
  <2>1. \/ UNCHANGED netEvents
        \/ netEvents # <<>> /\ netEvents' = Tail(netEvents)
        \/ \E x \in NetEvents : netEvents' = Append(netEvents, x)
    <3>1. Plugin => \/ UNCHANGED netEvents
                    \/ netEvents # <<>> /\ netEvents' = Tail(netEvents)
      BY DEF Plugin, StartTurn, ProcessGameEvents, PollIsDue, PollIsNotDue, PollReader, SendEvent,
             TakeNetEvent, EndTurn
    <3>2. Game => UNCHANGED netEvents
      BY DEF Game, Achieve, FinishJobLevel, SaveGame, LoadGame, FillTables, FinishLoading,
             QuitToMenu
    <3>3. Network \/ Client =>
            UNCHANGED netEvents \/ \E x \in NetEvents : netEvents' = Append(netEvents, x)
      BY DEF Network, SendToClient, DiscardLine, LoseLink, Reconnect, Client, ReadHello,
             OnProgression, ConnectServer, SendSessionReady, ServerReceives, LoseServer,
             RestartClient, NetEvents
    <3> QED BY <3>1, <3>2, <3>3 DEF Next, vars
  <2> QED BY <2>1, TakeFirst, AddLast DEF LoopInv
<1>6. lost' \subseteq entries'
  <2>1. ASSUME NEW e \in entries, NEW p, NEW c, Send(e, p, c) PROVE lost' \subseteq entries
    BY <2>1 DEF Send, LoopInv
  <2>2. CASE ProcessGameEvents
    <3>1. CASE jobEvents = <<>>
      BY <1>1, <2>2, <3>1 DEF ProcessGameEvents, LoopInv
    <3>2. CASE jobEvents # <<>>
      <4>1. Head(jobEvents) \in JobRecords
        BY <3>2, TakeFirst DEF GameInv
      <4>2. Head(jobEvents).entry \in entries
        BY <4>1 DEF JobRecords
      <4> QED BY <1>1, <2>1, <2>2, <3>2, <4>2 DEF ProcessGameEvents
    <3> QED BY <3>1, <3>2
  <2>3. CASE SendEvent
    <3>1. PICK event \in events : Send(event.entry, event.previous, event.current)
      BY <2>3 DEF SendEvent
    <3>2. event.entry \in entries
      BY DEF LinesInv, IsTrue, Reports
    <3> QED BY <1>1, <2>1, <3>1, <3>2
  <2>4. lost' \in {lost, {}} \/ ProcessGameEvents \/ SendEvent
    <3>1. Plugin => lost' \in {lost, {}} \/ ProcessGameEvents \/ SendEvent
      BY DEF Plugin, StartTurn, PollIsDue, PollIsNotDue, SeeEdge, PollReader,
             TakeNetEvent, EndTurn
    <3>2. Game => lost' = lost
      BY DEF Game, Achieve, FinishJobLevel, SaveGame, LoadGame, FillTables, FinishLoading,
             QuitToMenu
    <3>3. Network \/ Client => lost' = lost
      BY DEF Network, SendToClient, DiscardLine, LoseLink, Reconnect, Client, ReadHello,
             OnProgression, ConnectServer, SendSessionReady, ServerReceives, LoseServer,
             RestartClient
    <3> QED BY <3>1, <3>2, <3>3 DEF Next, vars
  <2> QED BY <1>1, <2>2, <2>3, <2>4 DEF LoopInv
<1> QED BY <1>2, <1>3, <1>4, <1>5, <1>6 DEF LoopInv

LEMMA FlagStep ==
  ASSUME FlagOK, [Next]_vars
  PROVE  FlagOK'
<1>1. Plugin => FlagOK'
  <2>1. SeeEdge => wasActive' = active /\ seenEdge' \in BOOLEAN
    BY Zenon DEF SeeEdge, FlagOK
  <2> QED BY <2>1 DEF Plugin, StartTurn, ProcessGameEvents, PollIsDue, PollIsNotDue, PollReader,
             SendEvent, TakeNetEvent, EndTurn, FlagOK
<1>2. Game => UNCHANGED <<seenLoaded, active, wasActive, seenEdge>>
  BY DEF Game, Achieve, FinishJobLevel, SaveGame, LoadGame, FillTables, FinishLoading, QuitToMenu
<1>3. Network \/ Client => UNCHANGED <<seenLoaded, active, wasActive, seenEdge>>
  BY DEF Network, SendToClient, DiscardLine, LoseLink, Reconnect, Client, ReadHello,
         OnProgression, ConnectServer, SendSessionReady, ServerReceives, LoseServer,
         RestartClient
<1> QED BY <1>1, <1>2, <1>3 DEF Next, vars, FlagOK

-----------------------------------------------------------------------------
\* The client: checks and counts.

LEMMA TouchedAre ==
  ASSUME GameInv
  PROVE  /\ Touched(deeds) \subseteq entries
         /\ \A e, n : Location(e, n) \in deeds => e \in Touched(deeds)
<1>1. ASSUME NEW d \in deeds PROVE d[1] \in entries
  <2>1. PICK e \in entries : \E n \in 1..Top(e) : d = Location(e, n)
    BY DEF GameInv
  <2> QED BY <2>1 DEF Location
<1>2. \A e, n : Location(e, n)[1] = e
  BY DEF Location
<1> QED BY <1>1, <1>2 DEF Touched

\* A location that was reached is one of the slot, and not the goal.
LEMMA DeedsAreLocations ==
  ASSUME GameInv, NEW d \in deeds
  PROVE  d \in AllLocations \ {Goal}
<1>1. PICK e \in entries : \E n \in 1..Top(e) : d = Location(e, n)
  BY DEF GameInv
<1>2. entries \in Games
  BY DEF GameInv
<1> QED BY <1>1, <1>2, EntryLocations

\* The goal's locations are among checks that were earned only if they were reached.
LEMMA GoalIsEarned ==
  ASSUME GameInv, NEW seen, seen \subseteq AllLocations \ {Goal}, GoalLocations \subseteq seen,
         \A location \in seen : Earned(location, GoalLocations, deeds)
  PROVE  GoalLocations \subseteq deeds
<1>1. ASSUME NEW location \in GoalLocations PROVE location \in deeds
  <2>1. PICK e \in entries : location = Location(e, 1)
    BY DEF GoalLocations
  <2>2. entries \in Games
    BY DEF GameInv
  <2>3. location # Goal /\ \A category, k : location # Progressive(category, k)
    BY <2>1, <2>2, EntryLocations
  <2> QED BY <2>3 DEF Earned
<1> QED BY <1>1

\* What is submitted of earned checks is earned.
LEMMA SubmitLemma ==
  ASSUME GameInv, NEW seen, seen \subseteq AllLocations \ {Goal}, NEW already,
         \A location \in seen : Earned(location, GoalLocations, deeds)
  PROVE  /\ ToSubmit(seen, already) \subseteq AllLocations
         /\ \A location \in ToSubmit(seen, already) : Earned(location, GoalLocations, deeds)
<1>1. ASSUME NEW location \in ToSubmit(seen, already), location \notin seen
      PROVE  location \in AllLocations /\ Earned(location, GoalLocations, deeds)
  <2>1. location = Goal /\ GoalLocations \subseteq seen
    BY <1>1 DEF ToSubmit
  <2> QED BY <2>1, GoalIsEarned, GoalIsNoCount DEF Earned
<1>2. \A location \in ToSubmit(seen, already) :
        location \in seen => location \in AllLocations /\ Earned(location, GoalLocations, deeds)
  OBVIOUS
<1> QED BY <1>1, <1>2

\* A true line brings earned checks and counts keys of which something was done.
LEMMA LineEarns ==
  ASSUME IInv, NEW line, IsTrue(line)
  PROVE  /\ CountedAfter(line) \subseteq Touched(deeds)
         /\ LocationsFor(line.entry, line.previous, line.current) \subseteq deeds
         /\ \A category \in Counted : \A location \in ProgressiveFor(category, CountedAfter(line)) :
              /\ location \in AllLocations \ {Goal}
              /\ Earned(location, GoalLocations, deeds)
<1> USE DEF IInv
<1>1. /\ line.entry \in entries /\ line.previous \in 0..MaxLevel /\ line.current \in 0..MaxLevel
      /\ \A n \in 1..line.current : Location(line.entry, n) \in deeds
  BY DEF IsTrue, Reports, Did
<1>2. LocationsFor(line.entry, line.previous, line.current) \subseteq deeds
  <2>1. Levels(line.entry, 1, line.current) \subseteq deeds
    BY <1>1 DEF Levels
  <2>2. Levels(line.entry, line.previous + 1, line.current) \subseteq
          Levels(line.entry, 1, line.current)
    BY <1>1, ProgressionAssumption DEF Levels
  <2> QED BY <2>1, <2>2 DEF LocationsFor
<1>3. CountedAfter(line) \subseteq Touched(deeds)
  <2>1. CASE line.current > 0
    <3>1. 1 \in 1..line.current
      BY <1>1, <2>1, ProgressionAssumption
    <3>2. line.entry \in Touched(deeds)
      BY <1>1, <3>1, TouchedAre
    <3> QED BY <3>2 DEF CountedAfter, ClientInv
  <2>2. CASE ~(line.current > 0)
    BY <2>2 DEF CountedAfter, ClientInv
  <2> QED BY <2>1, <2>2
<1>4. ASSUME NEW category \in Counted, NEW location \in ProgressiveFor(category, CountedAfter(line))
      PROVE  location \in AllLocations \ {Goal} /\ Earned(location, GoalLocations, deeds)
  <2>1. PICK n \in 1..CountOf(category, CountedAfter(line)) : location = Progressive(category, n)
    BY DEF ProgressiveFor
  <2>2. n \in 1..CountOf(category, Touched(deeds)) /\ n \in 1..Cardinality(AllEntries)
    <3>1. entries \in Games /\ Touched(deeds) \in SUBSET entries
          /\ CountedAfter(line) \in SUBSET Touched(deeds)
      BY <1>3, TouchedAre DEF GameInv
    <3>2. PICK game \in Games : game = entries
      BY <3>1
    <3>3. /\ CountOf(category, CountedAfter(line)) \in Nat
          /\ CountOf(category, Touched(deeds)) \in Nat
          /\ CountOf(category, CountedAfter(line)) <= CountOf(category, Touched(deeds))
          /\ CountOf(category, Touched(deeds)) <= Cardinality(AllEntries)
          /\ Cardinality(AllEntries) \in Nat
      BY <3>1, <3>2, CountGrows
    <3> QED BY <3>3
  <2>3. Earned(location, GoalLocations, deeds)
    BY <2>1, <2>2 DEF Earned
  <2> QED BY <2>1, <2>2, <2>3, GoalIsNoCount
<1> QED BY <1>2, <1>3, <1>4

\* Every step keeps what the client has earned.
LEMMA ClientStep ==
  ASSUME IInv, [Next]_vars, GameInv', entries' = entries, deeds \subseteq deeds'
  PROVE  ClientInv'
<1> USE DEF IInv
<1> DEFINE Paid(location) == Earned(location, GoalLocations, deeds)
           Sound(seen, sent, flying, known, counted) ==
             /\ counted \subseteq Touched(deeds)
             /\ seen \subseteq AllLocations \ {Goal} /\ sent \subseteq AllLocations
             /\ known \subseteq AllLocations /\ flying \subseteq sent
             /\ \A location \in seen \cup sent \cup known : Paid(location)
<1>1. GoalLocations' = GoalLocations /\ Touched(deeds) \subseteq Touched(deeds')
  BY DEF GoalLocations, Touched
<1>2. ASSUME NEW location, Paid(location) PROVE Earned(location, GoalLocations, deeds')
  <2>1. entries \in Games /\ Touched(deeds') \subseteq entries
    <3>1. Touched(deeds)' \subseteq entries'
      <4>1. ASSUME NEW d \in deeds' PROVE d[1] \in entries
        <5>1. PICK e \in entries : \E n \in 1..Top(e) : d = Location(e, n)
          BY DEF GameInv, Top
        <5> QED BY <5>1 DEF Location
      <4> QED BY <4>1 DEF Touched
    <3> QED BY <3>1 DEF GameInv
  <2>2. PICK game \in Games : game = entries
    BY <2>1
  <2>3. PICK goals : goals = GoalLocations
    OBVIOUS
  <2> QED BY <1>2, <2>1, <2>2, <2>3, EarnedStays
<1>3. Sound(observed, submitted, inFlight, checked, collected)
  BY DEF ClientInv
<1>4. SUFFICES Sound(observed', submitted', inFlight', checked', collected')
  <2>1. ASSUME Sound(observed', submitted', inFlight', checked', collected')
        PROVE  ClientInv'
    BY <1>1, <1>2, <2>1 DEF ClientInv
  <2> QED BY <2>1
<1> HIDE DEF Paid
<1>5. CASE OnProgression
  <2> DEFINE line == Head(toClient)
             category == Category(line.entry)
  <2>1. /\ toClient # <<>> /\ line # Hello /\ collected' = CountedAfter(line)
        /\ observed' = observed \cup LocationsFor(line.entry, line.previous, line.current)
             \cup (IF category \in Counted /\ line.current > 0
                   THEN ProgressiveFor(category, collected') ELSE {})
        /\ Submit(observed') /\ checked' = checked
    BY <1>5 DEF OnProgression
  <2>2. IsTrue(line)
    BY <2>1, TakeFirst DEF LinesInv
  <2> HIDE DEF line
  <2>3. /\ collected' \subseteq Touched(deeds)
        /\ \A location \in LocationsFor(line.entry, line.previous, line.current) :
             location \in AllLocations \ {Goal} /\ Paid(location)
        /\ \A other \in Counted : \A location \in ProgressiveFor(other, collected') :
             location \in AllLocations \ {Goal} /\ Paid(location)
    <3>1. \A location \in deeds : location \in AllLocations \ {Goal} /\ Paid(location)
      BY DeedsAreLocations DEF Earned, Paid
    <3> QED BY <2>1, <2>2, <3>1, LineEarns DEF Paid
  <2>4. observed' \subseteq AllLocations \ {Goal} /\ \A location \in observed' : Paid(location)
    BY <1>3, <2>1, <2>3
  <2>5. CASE online
    <3>1. /\ submitted' = submitted \cup ToSubmit(observed', submitted)
          /\ inFlight' = inFlight \cup ToSubmit(observed', submitted)
      BY <2>1, <2>5 DEF Submit
    <3>2. PICK seen : seen = observed'
      OBVIOUS
    <3>3. /\ ToSubmit(seen, submitted) \subseteq AllLocations
          /\ \A location \in ToSubmit(seen, submitted) : Paid(location)
      BY <2>4, <3>2, SubmitLemma DEF Paid
    <3> QED BY <1>3, <2>1, <2>3, <2>4, <3>1, <3>2, <3>3
  <2>6. CASE ~online
    <3>1. UNCHANGED <<submitted, inFlight>>
      BY <2>1, <2>6 DEF Submit
    <3> QED BY <1>3, <2>1, <2>3, <2>4, <3>1
  <2> QED BY <2>5, <2>6
<1>6. CASE ConnectServer
  <2>1. /\ submitted' = submitted \cup ToSubmit(observed, submitted)
        /\ inFlight' = ToSubmit(observed, submitted)
        /\ UNCHANGED <<observed, checked, collected>>
    BY <1>6 DEF ConnectServer
  <2>2. /\ ToSubmit(observed, submitted) \subseteq AllLocations
        /\ \A location \in ToSubmit(observed, submitted) : Paid(location)
    <3>1. PICK seen : seen = observed
      OBVIOUS
    <3> QED BY <1>3, <3>1, SubmitLemma DEF Paid
  <2> QED BY <1>3, <2>1, <2>2
<1>7. CASE ServerReceives
  <2>1. checked' = checked \cup inFlight /\ inFlight' = {}
        /\ UNCHANGED <<observed, submitted, collected>>
    BY <1>7 DEF ServerReceives
  <2> QED BY <1>3, <2>1
<1>8. CASE /\ observed' \in {observed, {}} /\ submitted' \in {submitted, {}}
           /\ inFlight' \in {inFlight, {}} /\ (submitted' = submitted \/ inFlight' = {})
           /\ checked' = checked /\ collected' \in {collected, {}}
  BY <1>3, <1>8
<1>9. \/ OnProgression \/ ConnectServer \/ ServerReceives
      \/ /\ observed' \in {observed, {}} /\ submitted' \in {submitted, {}}
         /\ inFlight' \in {inFlight, {}} /\ (submitted' = submitted \/ inFlight' = {})
         /\ checked' = checked /\ collected' \in {collected, {}}
  <2>1. Plugin => UNCHANGED clientVars
    BY DEF Plugin, StartTurn, ProcessGameEvents, PollIsDue, PollIsNotDue, PollReader, SendEvent,
           TakeNetEvent, EndTurn
  <2>2. Game => UNCHANGED clientVars
    BY DEF Game, Achieve, FinishJobLevel, SaveGame, LoadGame, FillTables, FinishLoading,
           QuitToMenu
  <2>3. Network => /\ UNCHANGED <<observed, submitted, inFlight, checked>>
                   /\ collected' \in {collected, {}}
    BY DEF Network, SendToClient, DiscardLine, LoseLink, Reconnect, BridgeReset
  <2>4. ReadHello \/ SendSessionReady =>
          UNCHANGED <<observed, submitted, inFlight, checked, collected>>
    BY DEF ReadHello, SendSessionReady
  <2>5. LoseServer \/ RestartClient =>
          /\ observed' \in {observed, {}} /\ submitted' = {} /\ inFlight' = {}
          /\ checked' = checked /\ collected' = {}
    BY DEF LoseServer, RestartClient, BridgeReset, SubmittedAfterClose
  <2> QED BY <2>1, <2>2, <2>3, <2>4, <2>5 DEF Next, Client, vars
<1> QED BY <1>5, <1>6, <1>7, <1>8, <1>9

-----------------------------------------------------------------------------
\* The invariant.

LEMMA InitLemma == Init => IInv
<1> SUFFICES ASSUME Init PROVE IInv
  OBVIOUS
<1>1. GameInv
  BY GameInit
<1>2. LinesInv
  BY ProgressionAssumption DEF Init, LinesInv
<1>3. LoopInv
  <2>1. DOMAIN NotRead = {} /\ baseline = [category \in Readers |-> NotRead]
    BY DEF Init, NotRead
  <2>2. netEvents = <<>> /\ toPoll = {} /\ lost = {} /\ ppc = "Turn" /\ disturbed = 0
    BY DEF Init
  <2> QED BY <2>1, <2>2, ProgressionAssumption DEF LoopInv
<1>4. FlagOK
  BY DEF Init, FlagOK
<1>5. ClientInv
  BY DEF Init, ClientInv
<1> QED BY <1>1, <1>2, <1>3, <1>4, <1>5 DEF IInv

LEMMA StepLemma == IInv /\ [Next]_vars => IInv'
<1> SUFFICES ASSUME IInv, [Next]_vars PROVE IInv'
  OBVIOUS
<1>1. GameInv' /\ entries' = entries /\ deeds \subseteq deeds'
  BY GameStep DEF IInv
<1>2. LinesInv'
  BY <1>1, LinesStep
<1>3. LoopInv'
  BY <1>1, LoopStep
<1>4. FlagOK'
  BY FlagStep DEF IInv
<1>5. ClientInv'
  BY <1>1, ClientStep
<1> QED BY <1>1, <1>2, <1>3, <1>4, <1>5 DEF IInv

\* What the tables, the queues and the client hold was done, in every reachable state.
THEOREM Invariance == Spec => []IInv
<1> QED BY InitLemma, StepLemma, PTL DEF Spec

\* The variables keep their types; the outgoing queue keeps its limit.
THEOREM TypeCorrect == Spec => []TypeOK
<1>1. ASSUME IInv PROVE TypeOK
  <2> USE <1>1 DEF IInv
  <2>1. deeds \subseteq AllLocations /\ collected \subseteq entries
    BY DeedsAreLocations, TouchedAre DEF ClientInv
  <2>2. /\ \A event \in events : event \in Reports
        /\ \A i \in 1..Len(outgoing) : outgoing[i] \in Reports
        /\ \A i \in 1..Len(toClient) : toClient[i] = Hello \/ toClient[i] \in Reports
    BY DEF LinesInv, IsTrue
  <2>3. \A i \in 1..Len(netEvents) : netEvents[i] \in {"SessionReady", "SessionEnd", "Disconnected"}
    BY DEF LoopInv, NetEvents
  <2> QED BY <2>1, <2>2, <2>3 DEF TypeOK, GameInv, LinesInv, LoopInv, FlagOK, ClientInv
<1> QED BY <1>1, Invariance, PTL

\* No check without a deed, whichever baselines are taken, dropped or read mid-load, and
\* whatever is sent again (BaselineTracker, progression.py, submit_observed_locations).
THEOREM ChecksHaveDeeds == Spec => []NoCheckWithoutDeed
<1>1. IInv => NoCheckWithoutDeed
  BY DEF IInv, ClientInv, NoCheckWithoutDeed, Earned, Touched
<1> QED BY <1>1, Invariance, PTL

-----------------------------------------------------------------------------
\* What one step does to sessions, edges and the entries that lost a line.

LEMMA SessionStep ==
  ASSUME SessionInv, [Next]_vars
  PROVE  SessionInv'
<1>1. CASE UNCHANGED <<sessionSent, link>>
  BY <1>1 DEF SessionInv
<1>2. UNCHANGED <<sessionSent, link>> \/ ~sessionSent' \/ link'
  <2>1. Plugin => UNCHANGED <<sessionSent, link>>
    BY DEF Plugin, StartTurn, ProcessGameEvents, PollIsDue, PollIsNotDue, PollReader, SendEvent,
           TakeNetEvent, EndTurn
  <2>2. Game => UNCHANGED <<sessionSent, link>>
    BY DEF Game, Achieve, FinishJobLevel, SaveGame, LoadGame, FillTables, FinishLoading,
           QuitToMenu
  <2>3. SendToClient \/ DiscardLine \/ ReadHello \/ OnProgression \/ ServerReceives \/ ConnectServer
          => UNCHANGED <<sessionSent, link>>
    BY DEF SendToClient, DiscardLine, ReadHello, OnProgression, ServerReceives, ConnectServer
  <2>4. LoseLink \/ LoseServer \/ RestartClient => ~sessionSent'
    BY DEF LoseLink, LoseServer, RestartClient, BridgeReset
  <2>5. Reconnect \/ SendSessionReady => link'
    BY DEF Reconnect, SendSessionReady
  <2> QED BY <2>1, <2>2, <2>3, <2>4, <2>5 DEF Next, Network, Client, vars
<1> QED BY <1>1, <1>2 DEF SessionInv

\* Network events are taken when nothing is left to poll or to send.
LEMMA TurnStep ==
  ASSUME TurnInv, [Next]_vars
  PROVE  TurnInv'
<1>1. CASE PollIsDue \/ PollIsNotDue
  <2>1. wasActive' = active /\ active' = active
    BY <1>1 DEF PollIsDue, PollIsNotDue, SeeEdge
  <2> QED BY <2>1 DEF TurnInv
<1>2. CASE TakeNetEvent
  <2>1. toPoll' = {} /\ events' = {}
    BY <1>2 DEF TakeNetEvent, Polled
  <2> QED BY <2>1 DEF TurnInv
<1>3. CASE PollReader
  <2>1. ppc = "Poll" /\ toPoll # {} /\ UNCHANGED <<active, wasActive>>
    BY <1>3 DEF PollReader
  <2> QED BY <2>1 DEF TurnInv
<1>4. CASE StartTurn \/ ProcessGameEvents \/ EndTurn
  <2>1. ppc' # "Poll" /\ UNCHANGED <<active, wasActive, events>>
    BY <1>4 DEF StartTurn, ProcessGameEvents, EndTurn
  <2> QED BY <2>1 DEF TurnInv
<1>5. CASE SendEvent
  <2>1. events # {} /\ UNCHANGED <<active, wasActive>>
    BY <1>5 DEF SendEvent
  <2> QED BY <2>1 DEF TurnInv
<1>6. CASE UNCHANGED <<active, wasActive, ppc, toPoll, events>>
  BY <1>6 DEF TurnInv
<1>7. Game => UNCHANGED <<active, wasActive, ppc, toPoll, events>>
  BY DEF Game, Achieve, FinishJobLevel, SaveGame, LoadGame, FillTables, FinishLoading, QuitToMenu
<1>8. Network \/ Client => UNCHANGED <<active, wasActive, ppc, toPoll, events>>
  BY DEF Network, SendToClient, DiscardLine, LoseLink, Reconnect, Client, ReadHello,
         OnProgression, ConnectServer, SendSessionReady, ServerReceives, LoseServer,
         RestartClient
<1> QED BY <1>1, <1>2, <1>3, <1>4, <1>5, <1>6, <1>7, <1>8 DEF Next, Plugin, vars

\* An edge drops the baselines.  Without one, entries that lost a line are only added,
\* and neither a connection with a session the loop knows of nor one it has seen begins.
LEMMA EdgeStep ==
  ASSUME LoopInv, [Next]_vars, baseline' # [category \in Readers |-> NotRead]
  PROVE  /\ lost \subseteq lost'
         /\ Connected' => Connected
         /\ InSeenSession' => InSeenSession
<1> DEFINE same == UNCHANGED <<active, wasActive, seenEdge, link, sessionSent, netEvents>>
<1>1. CASE PollIsDue \/ PollIsNotDue
  <2>1. UNCHANGED <<active, link, sessionSent, netEvents>> /\ SeeEdge
    BY <1>1 DEF PollIsDue, PollIsNotDue
  <2>2. ~IsEdge
    BY <2>1 DEF SeeEdge, AfterEdge
  <2>3. lost' = lost /\ (wasActive' => wasActive)
    BY <2>1, <2>2 DEF SeeEdge, IsEdge
  <2>4. seenEdge' => seenEdge
    BY <2>1, <2>2, Zenon DEF SeeEdge
  <2> QED BY <2>1, <2>3, <2>4 DEF InSeenSession, Connected
<1>2. CASE TakeNetEvent
  <2>1. ~seenEdge' /\ UNCHANGED <<wasActive, link, lost>>
    BY <1>2 DEF TakeNetEvent
  <2> QED BY <2>1 DEF InSeenSession, Connected
<1>3. CASE SendSessionReady
  <2>1. /\ netEvents' = Append(netEvents, "SessionReady") /\ netEvents \in Seq(NetEvents)
        /\ UNCHANGED <<wasActive, link, lost>>
    BY <1>3 DEF SendSessionReady, LoopInv
  <2>2. netEvents' # <<>>
    BY <2>1
  <2> QED BY <2>1, <2>2 DEF InSeenSession, Connected
<1>4. CASE LoseLink \/ LoseServer \/ RestartClient
  <2>1. ~sessionSent' /\ (link' => link) /\ UNCHANGED <<wasActive, lost>>
    BY <1>4 DEF LoseLink, LoseServer, RestartClient, BridgeReset
  <2> QED BY <2>1 DEF InSeenSession, Connected
<1>5. CASE Reconnect
  <2>1. ~wasActive' /\ UNCHANGED <<active, seenEdge, sessionSent, netEvents, lost>>
    BY <1>5 DEF Reconnect, Noticed
  <2> QED BY <2>1 DEF InSeenSession, Connected
<1>6. CASE same /\ lost \subseteq lost'
  BY <1>6 DEF InSeenSession, Connected
<1>7. \/ PollIsDue \/ PollIsNotDue \/ TakeNetEvent \/ SendSessionReady
      \/ LoseLink \/ LoseServer \/ RestartClient \/ Reconnect
      \/ same /\ lost \subseteq lost'
  <2>1. Plugin => \/ PollIsDue \/ PollIsNotDue \/ TakeNetEvent
                  \/ same /\ lost \subseteq lost'
    <3>1. ASSUME NEW e, NEW p, NEW c, Send(e, p, c) PROVE lost \subseteq lost'
      BY <3>1 DEF Send
    <3>2. ProcessGameEvents => lost \subseteq lost'
      BY <3>1 DEF ProcessGameEvents
    <3>3. SendEvent => lost \subseteq lost'
      BY <3>1 DEF SendEvent
    <3>4. ProcessGameEvents \/ SendEvent => same
      BY DEF ProcessGameEvents, SendEvent
    <3>5. StartTurn \/ PollReader \/ EndTurn => same /\ lost' = lost
      BY DEF StartTurn, PollReader, EndTurn
    <3> QED BY <3>2, <3>3, <3>4, <3>5 DEF Plugin
  <2>2. Game => same /\ lost' = lost
    BY DEF Game, Achieve, FinishJobLevel, SaveGame, LoadGame, FillTables, FinishLoading,
           QuitToMenu
  <2>3. (SendToClient \/ DiscardLine \/ ReadHello \/ OnProgression \/ ServerReceives
          \/ ConnectServer) => same /\ lost' = lost
    BY DEF SendToClient, DiscardLine, ReadHello, OnProgression, ServerReceives, ConnectServer
  <2> QED BY <2>1, <2>2, <2>3 DEF Next, Network, Client, vars
<1> QED BY <1>1, <1>2, <1>3, <1>4, <1>5, <1>6, <1>7

-----------------------------------------------------------------------------
\* What the baselines call done was observed or is on its way.

LEMMA ElementsOf ==
  ASSUME NEW S, NEW q \in Seq(S)
  PROVE  /\ q # <<>> => Elements(q) = {Head(q)} \cup Elements(Tail(q))
         /\ \A x \in S : Elements(Append(q, x)) = Elements(q) \cup {x}
<1>1. ASSUME q # <<>> PROVE Elements(q) = {Head(q)} \cup Elements(Tail(q))
  <2>1. /\ Head(q) = q[1] /\ Len(Tail(q)) = Len(q) - 1 /\ Len(q) \in Nat /\ 1 \in 1..Len(q)
        /\ \A i \in 1..Len(Tail(q)) : i + 1 \in 1..Len(q) /\ Tail(q)[i] = q[i + 1]
    BY <1>1, TakeFirst
  <2>2. \A i \in 1..Len(q) : i = 1 \/ (i - 1 \in 1..Len(Tail(q)) /\ Tail(q)[i - 1] = q[i])
    BY <2>1
  <2> QED BY <2>1, <2>2 DEF Elements
<1>2. ASSUME NEW x \in S PROVE Elements(Append(q, x)) = Elements(q) \cup {x}
  <2>1. /\ Len(Append(q, x)) = Len(q) + 1 /\ Len(q) \in Nat
        /\ \A i \in 1..Len(q) : Append(q, x)[i] = q[i]
        /\ Append(q, x)[Len(q) + 1] = x
    BY AddLast
  <2>2. \A i \in 1..(Len(q) + 1) : i = Len(q) + 1 \/ i \in 1..Len(q)
    BY <2>1
  <2>3. \A i \in 1..Len(q) : i \in 1..(Len(q) + 1)
    BY <2>1
  <2>4. Len(q) + 1 \in 1..(Len(q) + 1)
    BY <2>1
  <2> QED BY <2>1, <2>2, <2>3, <2>4 DEF Elements
<1> QED BY <1>1, <1>2

\* A line of an enabled category is not lost while there is room and a session.
LEMMA SentLine ==
  ASSUME active, outgoing \in Seq(Reports), Len(outgoing) < Capacity,
         NEW line \in Reports, Category(line.entry) \in EnabledCategories,
         Send(line.entry, line.previous, line.current)
  PROVE  Elements(outgoing') = Elements(outgoing) \cup {line}
<1>1. line = Progression(line.entry, line.previous, line.current)
  BY DEF Reports, Progression
<1>2. outgoing' = Append(outgoing, line)
  BY <1>1 DEF Send, IsSent
<1> QED BY <1>2, ElementsOf

LEMMA SendKeeps ==
  ASSUME outgoing \in Seq(Reports), NEW e \in entries, NEW p \in 0..MaxLevel,
         NEW c \in 0..MaxLevel, Send(e, p, c)
  PROVE  Elements(outgoing) \subseteq Elements(outgoing')
<1>1. Progression(e, p, c) \in Reports
  BY DEF Reports, Progression
<1>2. Elements(Append(outgoing, Progression(e, p, c))) =
        Elements(outgoing) \cup {Progression(e, p, c)}
  BY <1>1, ElementsOf
<1>3. outgoing' = outgoing \/ outgoing' = Append(outgoing, Progression(e, p, c))
  BY DEF Send
<1>4. CASE outgoing' = outgoing
  BY <1>4
<1> QED BY <1>2, <1>3, <1>4

\* Lines that stay keep what is known known.
LEMMA KnownStays ==
  ASSUME NEW e, observed \subseteq observed',
         \A l \in OnItsWay : l.entry = e => l \in OnItsWay'
  PROVE  /\ \A k : KnownLevel(e, k) => KnownLevel(e, k)'
         /\ collected \subseteq collected' => (KnownKey(e) => KnownKey(e)')
<1>1. \A k : KnownLevel(e, k) => KnownLevel(e, k)'
  <2> SUFFICES ASSUME NEW k, KnownLevel(e, k) PROVE KnownLevel(e, k)'
    OBVIOUS
  <2>1. CASE Location(e, k) \in observed
    BY <2>1 DEF KnownLevel
  <2>2. ASSUME NEW l \in OnItsWay, l.entry = e,
               Location(e, k) \in LocationsFor(e, l.previous, l.current)
        PROVE  KnownLevel(e, k)'
    <3>1. l \in OnItsWay'
      BY <2>2
    <3> QED BY <2>2, <3>1 DEF KnownLevel
  <2> QED BY <2>1, <2>2 DEF KnownLevel
<1>2. collected \subseteq collected' => (KnownKey(e) => KnownKey(e)')
  BY DEF KnownKey
<1> QED BY <1>1, <1>2

\* On a connection no step forgets what is known of an enabled entry, unless it loses a
\* line of it; the counts are forgotten with the session.
LEMMA KnownStep ==
  ASSUME IInv, [Next]_vars, link, link', events # {} => active,
         NEW e, Category(e) \in EnabledCategories, e \notin lost'
  PROVE  /\ \A k : KnownLevel(e, k) => KnownLevel(e, k)'
         /\ Category(e) \in Counted => (sessionSent' => (KnownKey(e) => KnownKey(e)'))
<1> USE DEF IInv
<1>1. outgoing \in Seq(Reports) /\ toClient \in Seq(Reports \cup {Hello})
  BY DEF LinesInv
<1>2. CASE /\ UNCHANGED <<events, outgoing, toClient, observed>>
           /\ sessionSent' => UNCHANGED collected
  <2>1. OnItsWay' = OnItsWay
    BY <1>2 DEF OnItsWay
  <2> QED BY <1>2, <2>1, KnownStays
<1>3. CASE ProcessGameEvents
  <2>1. UNCHANGED <<events, toClient, observed, collected>>
    BY <1>3 DEF ProcessGameEvents
  <2>2. Elements(outgoing) \subseteq Elements(outgoing')
    <3>1. CASE jobEvents = <<>>
      <4>1. outgoing' = outgoing
        BY <1>3, <3>1 DEF ProcessGameEvents
      <4> QED BY <4>1
    <3>2. CASE jobEvents # <<>>
      <4> DEFINE event == Head(jobEvents)
      <4>1. event \in JobRecords /\ Send(event.entry, event.level - 1, event.level)
        BY <1>3, <3>2, TakeFirst DEF ProcessGameEvents, GameInv
      <4> HIDE DEF event
      <4>2. /\ event.entry \in entries /\ event.level - 1 \in 0..MaxLevel
            /\ event.level \in 0..MaxLevel
        BY <4>1, ProgressionAssumption DEF JobRecords
      <4> QED BY <1>1, <4>1, <4>2, SendKeeps
    <3> QED BY <3>1, <3>2
  <2>3. OnItsWay \subseteq OnItsWay'
    BY <2>1, <2>2 DEF OnItsWay
  <2> QED BY <2>1, <2>3, KnownStays
<1>4. CASE PollReader
  <2>1. UNCHANGED <<outgoing, toClient, observed, collected>> /\ events = {}
    BY <1>4 DEF PollReader
  <2>2. OnItsWay \subseteq OnItsWay'
    BY <2>1 DEF OnItsWay
  <2> QED BY <2>1, <2>2, KnownStays
<1>5. CASE SendEvent
  <2>1. PICK event \in events : /\ Send(event.entry, event.previous, event.current)
                                /\ events' = events \ {event}
    BY <1>5 DEF SendEvent
  <2>2. UNCHANGED <<toClient, observed, collected>> /\ active
    BY <1>5, <2>1 DEF SendEvent
  <2>3. event \in Reports /\ event.entry \in entries /\ event.previous \in 0..MaxLevel
        /\ event.current \in 0..MaxLevel
    BY DEF LinesInv, IsTrue, Reports
  <2>4. Elements(outgoing) \subseteq Elements(outgoing')
    BY <1>1, <2>1, <2>3, SendKeeps
  <2>5. event.entry = e => Len(outgoing) < Capacity
    BY <2>1, <2>2 DEF Send, IsSent
  <2>6. event.entry = e => event \in Elements(outgoing')
    BY <1>1, <2>1, <2>2, <2>3, <2>5, SentLine
  <2>7. \A l \in OnItsWay : l.entry = e => l \in OnItsWay'
    BY <2>1, <2>2, <2>4, <2>6 DEF OnItsWay
  <2> QED BY <2>2, <2>7, KnownStays
<1>6. CASE SendToClient
  <2>1. /\ outgoing # <<>> /\ UNCHANGED <<events, observed, collected>>
        /\ toClient' = Append(toClient, Head(outgoing)) /\ outgoing' = Tail(outgoing)
    BY <1>6 DEF SendToClient
  <2>2. Head(outgoing) \in Reports
    BY <1>1, <2>1, TakeFirst
  <2>3. /\ Elements(outgoing) = {Head(outgoing)} \cup Elements(outgoing')
        /\ Elements(toClient') = Elements(toClient) \cup {Head(outgoing)}
    BY <1>1, <2>1, <2>2, ElementsOf
  <2>4. Head(outgoing) # Hello
    <3>1. Head(outgoing).type = "progression" /\ Hello.type = "hello"
      BY <2>2 DEF Reports, Hello
    <3> QED BY <3>1
  <2>5. OnItsWay \subseteq OnItsWay'
    BY <2>1, <2>3, <2>4 DEF OnItsWay
  <2> QED BY <2>1, <2>5, KnownStays
<1>7. CASE ReadHello
  <2>1. /\ toClient # <<>> /\ Head(toClient) = Hello /\ toClient' = Tail(toClient)
        /\ UNCHANGED <<events, outgoing, observed, collected>>
    BY <1>7 DEF ReadHello
  <2>2. Elements(toClient) = {Head(toClient)} \cup Elements(toClient')
    BY <1>1, <2>1, ElementsOf
  <2>3. OnItsWay \subseteq OnItsWay'
    BY <2>1, <2>2 DEF OnItsWay
  <2> QED BY <2>1, <2>3, KnownStays
<1>8. CASE OnProgression
  <2> DEFINE line == Head(toClient)
  <2>1. /\ toClient # <<>> /\ line # Hello /\ toClient' = Tail(toClient)
        /\ collected' = CountedAfter(line)
        /\ observed \subseteq observed'
        /\ LocationsFor(line.entry, line.previous, line.current) \subseteq observed'
        /\ UNCHANGED <<events, outgoing>>
    BY <1>8 DEF OnProgression
  <2>2. Elements(toClient) = {line} \cup Elements(toClient')
    BY <1>1, <2>1, ElementsOf
  <2> HIDE DEF line
  <2>3. collected \subseteq collected'
    BY <2>1 DEF CountedAfter
  <2>4. \A l \in OnItsWay : l = line \/ l \in OnItsWay'
    BY <2>1, <2>2 DEF OnItsWay
  <2>5. CASE line.entry = e
    <3>1. ASSUME NEW k, KnownLevel(e, k) PROVE KnownLevel(e, k)'
      <4>1. CASE Location(e, k) \in LocationsFor(e, line.previous, line.current)
        <5>1. Location(e, k) \in observed'
          BY <2>1, <2>5, <4>1
        <5> QED BY <5>1 DEF KnownLevel
      <4>2. CASE Location(e, k) \in observed
        BY <2>1, <4>2 DEF KnownLevel
      <4>3. ASSUME NEW l \in OnItsWay', l.entry = e,
                   Location(e, k) \in LocationsFor(e, l.previous, l.current)
            PROVE  KnownLevel(e, k)'
        BY <4>3 DEF KnownLevel
      <4>4. \/ Location(e, k) \in LocationsFor(e, line.previous, line.current)
            \/ Location(e, k) \in observed
            \/ \E l \in OnItsWay' : /\ l.entry = e
                                    /\ Location(e, k) \in LocationsFor(e, l.previous, l.current)
        BY <2>4, <3>1 DEF KnownLevel
      <4> QED BY <4>1, <4>2, <4>3, <4>4
    <3>2. Category(e) \in Counted => (KnownKey(e) => KnownKey(e)')
      <4>1. Category(e) \in Counted /\ line.current > 0 => e \in collected'
        BY <2>1, <2>5 DEF CountedAfter
      <4> QED BY <2>3, <2>4, <4>1 DEF KnownKey
    <3> QED BY <3>1, <3>2
  <2>6. CASE line.entry # e
    <3>1. \A l \in OnItsWay : l.entry = e => l \in OnItsWay'
      BY <2>4, <2>6
    <3> QED BY <2>1, <2>3, <3>1, KnownStays
  <2> QED BY <2>5, <2>6
<1>9. \/ ProcessGameEvents \/ PollReader \/ SendEvent \/ SendToClient \/ ReadHello
      \/ OnProgression
      \/ /\ UNCHANGED <<events, outgoing, toClient, observed>>
         /\ sessionSent' => UNCHANGED collected
  <2> DEFINE same == UNCHANGED <<events, outgoing, toClient, observed, collected>>
  <2>1. Plugin => ProcessGameEvents \/ PollReader \/ SendEvent \/ same
    BY DEF Plugin, StartTurn, PollIsDue, PollIsNotDue, TakeNetEvent, EndTurn
  <2>2. Game => same
    BY DEF Game, Achieve, FinishJobLevel, SaveGame, LoadGame, FillTables, FinishLoading,
           QuitToMenu
  <2>3. ConnectServer \/ SendSessionReady \/ ServerReceives => same
    BY DEF ConnectServer, SendSessionReady, ServerReceives
  <2>4. LoseServer => ~sessionSent' /\ UNCHANGED <<events, outgoing, toClient, observed>>
    BY DEF LoseServer
  <2>5. LoseLink \/ RestartClient => ~link'
    BY DEF LoseLink, RestartClient
  <2>6. DiscardLine \/ Reconnect => ~link
    BY DEF DiscardLine, Reconnect
  <2> QED BY <2>1, <2>2, <2>3, <2>4, <2>5, <2>6 DEF Next, Network, Client, vars
<1> QED BY <1>2, <1>3, <1>4, <1>5, <1>6, <1>7, <1>8, <1>9

\* What a poll reports, with what was known before, covers what it has read.
LEMMA ObserveCovers ==
  ASSUME GameInv, LoopInv, NEW category \in Readers, NEW keys \in SUBSET EntriesOf(category),
         NEW current, current = [e \in keys |-> progress[e]], Observe(category, current),
         NEW e \in keys, NEW old, old = baseline[category][e]
  PROVE  LET same == DOMAIN baseline[category] = keys IN
         /\ (same => LevelsKnown(e, old)') => LevelsKnown(e, current[e])'
         /\ (same => KeyKnown(category, e, old)')
              => KeyKnown(category, e, current[e])'
<1>1. /\ e \in entries /\ Category(e) = category /\ current[e] \in 0..Top(e)
      /\ Top(e) \in 1..MaxLevel /\ DOMAIN current = keys
  BY ObserveLemma, TopIs
<1> DEFINE same == DOMAIN baseline[category] = keys
<1>2. PICK new : new = current[e]
  OBVIOUS
<1>3. same => old \in 0..Top(e)
  BY DEF LoopInv
<1>4. \A p : LET line == Progression(e, p, new) IN
             line.entry = e /\ line.previous = p /\ line.current = new
  BY DEF Progression
<1>5. ASSUME same, old # new PROVE Progression(e, old, new) \in OnItsWay'
  <2>1. events' = ChangeEvents(baseline[category], current)
    BY <1>1, <1>5 DEF Observe
  <2>2. Progression(e, old, new) \in ChangeEvents(baseline[category], current)
    BY <1>1, <1>2, <1>5 DEF ChangeEvents
  <2> QED BY <2>1, <2>2 DEF OnItsWay
<1>6. ASSUME ~same, new > 0 PROVE Progression(e, 0, new) \in OnItsWay'
  <2>1. events' = ReconcileEvents(current)
    BY <1>1, <1>6 DEF Observe
  <2>2. Progression(e, 0, new) \in ReconcileEvents(current)
    BY <1>1, <1>2, <1>6 DEF ReconcileEvents
  <2> QED BY <2>1, <2>2 DEF OnItsWay
<1>7. \A p \in Nat : p < new =>
        \A k \in 1..new : k <= p \/ Location(e, k) \in LocationsFor(e, p, new)
  <2> SUFFICES ASSUME NEW p \in Nat, p < new, NEW k \in 1..new, ~(k <= p)
               PROVE  Location(e, k) \in LocationsFor(e, p, new)
    OBVIOUS
  <2>1. k \in (p + 1)..new /\ ~(new <= p)
    BY <1>1, <1>2, ProgressionAssumption
  <2>2. Location(e, k) \in Levels(e, p + 1, new) /\ Location(e, k) \in Levels(e, 1, new)
    BY <2>1 DEF Levels
  <2> QED BY <2>1, <2>2 DEF LocationsFor
<1>8. ASSUME same => \A k \in 1..old : KnownLevel(e, k)', NEW k \in 1..new
      PROVE  KnownLevel(e, k)'
  <2> DEFINE before == IF same THEN old ELSE 0
  <2>1. before \in Nat /\ new \in Nat
    BY <1>1, <1>2, <1>3, ProgressionAssumption
  <2>2. CASE k <= before
    <3>1. same /\ k \in 1..old
      BY <1>1, <1>2, <2>1, <2>2
    <3> QED BY <1>8, <3>1
  <2>3. CASE ~(k <= before) /\ before < new
    <3>1. PICK line : line = Progression(e, before, new)
      OBVIOUS
    <3>2. line.entry = e /\ line.previous = before /\ line.current = new
      BY <1>4, <3>1
    <3>3. line \in OnItsWay'
      BY <1>5, <1>6, <2>1, <2>3, <3>1
    <3>4. Location(e, k) \in LocationsFor(e, line.previous, line.current)
      BY <1>7, <2>1, <2>3, <3>2
    <3> QED BY <3>2, <3>3, <3>4 DEF KnownLevel
  <2>4. k <= before \/ before < new
    BY <2>1
  <2> QED BY <2>2, <2>3, <2>4
<1>9. ASSUME same => (category \in Counted /\ old > 0 => KnownKey(e)'), category \in Counted, new > 0
       PROVE  KnownKey(e)'
  <2>1. CASE same /\ old = new
    BY <1>9, <2>1
  <2>2. CASE ~same \/ old # new
    <3>1. PICK line : line = Progression(e, IF same THEN old ELSE 0, new)
      OBVIOUS
    <3>2. line.entry = e /\ line.current = new
      BY <1>4, <3>1
    <3>3. line \in OnItsWay'
      BY <1>5, <1>6, <1>9, <2>2, <3>1
    <3> QED BY <1>9, <3>2, <3>3 DEF KnownKey
  <2> QED BY <2>1, <2>2
<1>10. (same => LevelsKnown(e, old)') => LevelsKnown(e, current[e])'
  BY <1>2, <1>8 DEF LevelsKnown
<1>11. (same => KeyKnown(category, e, old)') => KeyKnown(category, e, current[e])'
  BY <1>2, <1>9 DEF KeyKnown
<1> QED BY <1>10, <1>11

LEMMA CoverStep ==
  ASSUME IInv, HiddenInv, [Next]_vars
  PROVE  CoverInv'
<1> USE DEF IInv, HiddenInv
<1> DEFINE Holds(category, e, level) ==
             /\ Connected => LevelsKnown(e, level)
             /\ InSeenSession => KeyKnown(category, e, level)
<1>1. CASE baseline' = [category \in Readers |-> NotRead]
  <2>1. \A category \in Readers : DOMAIN (baseline')[category] = {}
    BY <1>1 DEF NotRead
  <2> QED BY <2>1 DEF CoverInv
<1>2. CASE baseline' # [category \in Readers |-> NotRead]
  <2>1. lost \subseteq lost' /\ (Connected' => Connected) /\ (InSeenSession' => InSeenSession)
    BY <1>2, EdgeStep
  <2>2. ASSUME NEW category \in Readers \cap EnabledCategories,
               NEW e \in DOMAIN baseline[category], e \notin lost',
               NEW old, old = baseline[category][e]
        PROVE  Holds(category, e, old)'
    <3>1. Category(e) = category
      BY DEF LoopInv, EntriesOf
    <3>2. Holds(category, e, old)
      BY <2>1, <2>2 DEF CoverInv
    <3>3. ASSUME Connected' PROVE LevelsKnown(e, old)'
      <4>1. link /\ link' /\ (events # {} => active)
        BY <2>1, <3>3 DEF Connected, TurnInv
      <4>2. \A k : KnownLevel(e, k) => KnownLevel(e, k)'
        BY <2>2, <3>1, <4>1, KnownStep
      <4> QED BY <2>1, <3>2, <3>3, <4>2 DEF LevelsKnown
    <3>4. ASSUME InSeenSession' PROVE KeyKnown(category, e, old)'
      <4>1. link /\ link' /\ active /\ sessionSent'
        BY <2>1, <3>4, SessionStep DEF SessionInv, InSeenSession
      <4>2. Category(e) \in Counted => (KnownKey(e) => KnownKey(e)')
        BY <2>2, <3>1, <4>1, KnownStep
      <4> QED BY <2>1, <3>1, <3>2, <3>4, <4>2 DEF KeyKnown
    <3> QED BY <3>3, <3>4
  <2>3. ASSUME NEW category \in Readers \cap EnabledCategories,
               NEW e \in DOMAIN (baseline')[category], e \notin lost',
               (baseline')[category] = baseline[category]
        PROVE  Holds(category, e, baseline[category][e])'
    <3>1. PICK old : old = baseline[category][e]
      OBVIOUS
    <3>2. Holds(category, e, old)'
      BY <2>2, <2>3, <3>1
    <3> QED BY <2>3, <3>1, <3>2
  <2>4. CASE baseline' = baseline
    BY <2>3, <2>4 DEF CoverInv
  <2>5. CASE PollReader
    <3>1. PICK polled \in Readers : Poll(polled)
      BY <2>5 DEF PollReader, LoopInv
    <3>2. CASE Invalidate(polled)
      <4>1. /\ DOMAIN (baseline')[polled] = {}
            /\ \A other \in Readers : other # polled => (baseline')[other] = baseline[other]
        BY <3>2 DEF Invalidate, NotRead, LoopInv
      <4> QED BY <2>3, <4>1 DEF CoverInv
    <3>3. ASSUME NEW keys \in SUBSET EntriesOf(polled),
                 Observe(polled, [e \in keys |-> progress[e]])
          PROVE  CoverInv'
      <4>1. PICK current : current = [e \in keys |-> progress[e]]
        OBVIOUS
      <4>2. Observe(polled, current) /\ DOMAIN current = keys
        BY <3>3, <4>1
      <4>3. /\ (baseline')[polled] = current
            /\ \A other \in Readers : other # polled => (baseline')[other] = baseline[other]
        BY <4>2 DEF Observe, LoopInv
      <4>4. ASSUME polled \in EnabledCategories, NEW e \in keys, e \notin lost'
            PROVE  Holds(polled, e, current[e])'
        <5>1. PICK old : old = baseline[polled][e]
          OBVIOUS
        <5>2. DOMAIN baseline[polled] = keys => Holds(polled, e, old)'
          BY <2>2, <4>4, <5>1
        <5> QED BY <4>1, <4>2, <5>1, <5>2, ObserveCovers
      <4>5. ASSUME NEW category \in Readers \cap EnabledCategories,
                   NEW e \in DOMAIN (baseline')[category], e \notin lost'
            PROVE  Holds(category, e, baseline[category][e])'
        <5>1. CASE category = polled
          <6>1. e \in keys /\ (baseline')[category][e] = current[e]
            BY <4>2, <4>3, <5>1
          <6>2. Holds(polled, e, current[e])'
            BY <4>4, <4>5, <5>1, <6>1
          <6> QED BY <5>1, <6>1, <6>2
        <5>2. CASE category # polled
          BY <2>3, <4>3, <4>5, <5>2
        <5> QED BY <5>1, <5>2
      <4> QED BY <4>5 DEF CoverInv
    <3> QED BY <3>1, <3>2, <3>3, PollCases
  <2>6. PollReader \/ baseline' = baseline
    <3>1. Plugin => PollReader \/ baseline' = baseline \/ baseline' = AfterEdge
      BY DEF Plugin, StartTurn, ProcessGameEvents, PollIsDue, PollIsNotDue, SeeEdge, SendEvent,
             TakeNetEvent, EndTurn
    <3>2. Game => UNCHANGED baseline
      BY DEF Game, Achieve, FinishJobLevel, SaveGame, LoadGame, FillTables, FinishLoading,
             QuitToMenu
    <3>3. Network \/ Client => UNCHANGED baseline
      BY DEF Network, SendToClient, DiscardLine, LoseLink, Reconnect, Client, ReadHello,
             OnProgression, ConnectServer, SendSessionReady, ServerReceives, LoseServer,
             RestartClient
    <3> QED BY <1>2, <3>1, <3>2, <3>3 DEF Next, vars, AfterEdge
  <2> QED BY <2>4, <2>5, <2>6
<1> QED BY <1>1, <1>2

LEMMA CoverImplies == CoverInv => HiddenOnlyWhenLost
<1> SUFFICES ASSUME CoverInv,
                    NEW category \in Readers \cap EnabledCategories,
                    NEW e \in DOMAIN baseline[category] \ lost
             PROVE  /\ wasActive /\ link => LevelsReported(category, e)
                    /\ InSeenSession => KeyReported(category, e)
  BY DEF HiddenOnlyWhenLost
<1> DEFINE coming == UNION {LocationsFor(l.entry, l.previous, l.current) : l \in Lines}
<1>1. Lines = OnItsWay
  BY DEF Lines, OnItsWay, Elements
<1>2. ASSUME NEW k, KnownLevel(e, k) PROVE Location(e, k) \in observed \cup coming
  BY <1>1, <1>2 DEF KnownLevel
<1>3. KnownKey(e) => e \in collected \cup {l.entry : l \in Lines}
  BY <1>1 DEF KnownKey
<1>4. ASSUME wasActive /\ link PROVE LevelsReported(category, e)
  <2>1. LevelsKnown(e, baseline[category][e])
    BY <1>4 DEF CoverInv, Connected
  <2>2. Levels(e, 1, baseline[category][e]) \subseteq observed \cup coming
    <3> HIDE DEF coming
    <3> QED BY <1>2, <2>1 DEF LevelsKnown, Levels
  <2> QED BY <2>2 DEF LevelsReported
<1>5. ASSUME InSeenSession PROVE KeyReported(category, e)
  <2>1. KeyKnown(category, e, baseline[category][e])
    BY <1>5 DEF CoverInv
  <2> QED BY <1>3, <2>1 DEF KeyReported, KeyKnown
<1> QED BY <1>4, <1>5

\* But for entries of which the full queue lost a line (tcp_client.rs:82), what a baseline
\* hides from later polls is observed by the client or on its way to it: the levels on
\* every connection, the counted keys in every session whose beginning the loop has seen
\* (Plugin.cpp:210).  For any queue and any client.
THEOREM NothingElseIsHidden == Spec => []HiddenOnlyWhenLost
<1>1. Init => IInv /\ HiddenInv
  BY InitLemma DEF Init, HiddenInv, SessionInv, TurnInv, CoverInv, InSeenSession, Connected
<1>2. IInv /\ HiddenInv /\ [Next]_vars => (IInv /\ HiddenInv)'
  <2> SUFFICES ASSUME IInv, HiddenInv, [Next]_vars PROVE (IInv /\ HiddenInv)'
    OBVIOUS
  <2>1. IInv'
    BY StepLemma
  <2>2. SessionInv' /\ TurnInv'
    BY SessionStep, TurnStep DEF HiddenInv
  <2>3. CoverInv'
    BY CoverStep
  <2> QED BY <2>1, <2>2, <2>3 DEF HiddenInv
<1>3. IInv /\ HiddenInv => HiddenOnlyWhenLost
  BY CoverImplies DEF HiddenInv
<1> QED BY <1>1, <1>2, <1>3, PTL DEF Spec
=============================================================================
