------------------------- MODULE ItemDelivery_proofs -------------------------
(***************************************************************************)
(* The delivery of items, for any number of saves, items, loads and        *)
(* crashes: the plugin in the game keeps to the specification of the       *)
(* runtime (RuntimeOfDelivery), a settled world has as many items as its   *)
(* cursor says (CursorCounts) and the persistent ones of them are in       *)
(* effect (Held); ItemDelivery implements OrderedDelivery (Implements), so *)
(* that the player's worlds have the first items of the slot and no others *)
(* (FirstItemsOnly).                                                       *)
(*                                                                         *)
(* The inductive invariant DInv reads the event queue as the future of the *)
(* plugin thread: for each save it still has to hear of, and for the       *)
(* loaded world, it says where the cursor will be when the plugin gets     *)
(* there (FitInv, RecordedInv), what those worlds were loaded from         *)
(* (ExistInv, NewInv, MenuInv, GoneInv), which tasks may still touch them  *)
(* (EpochInv, TaskInv, IdInv), and what the game holds once the queued     *)
(* tasks are done (ItemsInv, HeldInv).  There is one lemma per part of     *)
(* DInv, which has one step per action that disturbs the part.             *)
(***************************************************************************)
EXTENDS ItemDelivery, SessionRuntime_proofs

-----------------------------------------------------------------------------
\* Types.

Events ==
  {LoadedEvent(c) : c \in Checksums} \cup {WrittenEvent(c) : c \in Checksums}
  \cup {CompletedEvent(id, TRUE) : id \in Nat} \cup {CompletedEvent(id, FALSE) : id \in Nat}
Tasks == [kind : {"Reset", "Item", "Replay"}, index : Indices, name : Items \cup {None},
          id : Nat, epoch : Nat]

DeliveryTypeOK ==
  /\ mode \in Modes /\ seen \in Modes
  /\ world \in Worlds /\ saves \in [Checksums -> Worlds \cup {None}]
  /\ held \subseteq Items /\ recorded \subseteq Checksums
  /\ menuPolled \in {"No", "Read", "Yes"}
  /\ live \in Nat /\ observed \in Nat
  /\ events \in Seq(Events) /\ batch \in Seq(Events) /\ tasks \in Seq(Tasks)
  /\ pc \in {"Read", "Drain", "Events", "Poll", "Start"}

-----------------------------------------------------------------------------
\* The events on their way to the plugin, and what they are.

Q == batch \o events
IsLoad(e) == e.kind = "SaveLoaded"
IsWritten(e) == e.kind = "SaveWritten"
IsCompletion(e) == e.kind = "RequestCompleted"

LEMMA LoadedFacts ==
  ASSUME NEW c
  PROVE  /\ IsLoad(LoadedEvent(c)) /\ ~IsWritten(LoadedEvent(c))
         /\ ~IsCompletion(LoadedEvent(c)) /\ LoadedEvent(c).checksum = c
         /\ LoadedEvent(c).kind = "SaveLoaded"
BY DEF IsLoad, IsWritten, IsCompletion, LoadedEvent

LEMMA WrittenFacts ==
  ASSUME NEW c
  PROVE  /\ ~IsLoad(WrittenEvent(c)) /\ IsWritten(WrittenEvent(c))
         /\ ~IsCompletion(WrittenEvent(c)) /\ WrittenEvent(c).checksum = c
         /\ WrittenEvent(c).kind = "SaveWritten"
BY DEF IsLoad, IsWritten, IsCompletion, WrittenEvent

LEMMA CompletedFacts ==
  ASSUME NEW id, NEW e, e = CompletedEvent(id, TRUE) \/ e = CompletedEvent(id, FALSE)
  PROVE  /\ ~IsLoad(e) /\ ~IsWritten(e) /\ IsCompletion(e)
         /\ e.checksum = None /\ e.id = id /\ e.kind = "RequestCompleted"
BY DEF IsLoad, IsWritten, IsCompletion, CompletedEvent

LEMMA AppliedFact ==
  ASSUME NEW id
  PROVE  /\ CompletedEvent(id, TRUE).applied
         /\ ~CompletedEvent(id, FALSE).applied
         /\ CompletedEvent(id, TRUE) # CompletedEvent(id, FALSE)
<1>1. CompletedEvent(id, TRUE).applied = TRUE
  BY Zenon DEF CompletedEvent
<1>2. CompletedEvent(id, FALSE).applied = FALSE
  BY Zenon DEF CompletedEvent
<1> HIDE DEF CompletedEvent
<1> QED BY <1>1, <1>2

LEMMA EventCases ==
  ASSUME NEW e \in Events
  PROVE  \/ /\ e.checksum \in Checksums /\ e = LoadedEvent(e.checksum)
            /\ IsLoad(e) /\ ~IsWritten(e) /\ ~IsCompletion(e)
         \/ /\ e.checksum \in Checksums /\ e = WrittenEvent(e.checksum)
            /\ ~IsLoad(e) /\ IsWritten(e) /\ ~IsCompletion(e)
         \/ /\ e.id \in Nat
            /\ e = CompletedEvent(e.id, TRUE) \/ e = CompletedEvent(e.id, FALSE)
            /\ ~IsLoad(e) /\ ~IsWritten(e) /\ IsCompletion(e)
            /\ e.checksum = None
<1>1. \/ \E c \in Checksums : e = LoadedEvent(c)
      \/ \E c \in Checksums : e = WrittenEvent(c)
      \/ \E id \in Nat : e = CompletedEvent(id, TRUE) \/ e = CompletedEvent(id, FALSE)
  BY DEF Events
<1>2. CASE \E c \in Checksums : e = LoadedEvent(c)
  BY <1>2, LoadedFacts
<1>3. CASE \E c \in Checksums : e = WrittenEvent(c)
  BY <1>3, WrittenFacts
<1>4. CASE \E id \in Nat : e = CompletedEvent(id, TRUE) \/ e = CompletedEvent(id, FALSE)
  <2>1. PICK id \in Nat : e = CompletedEvent(id, TRUE) \/ e = CompletedEvent(id, FALSE)
    BY <1>4
  <2>2. e.id = id /\ IsCompletion(e) /\ ~IsLoad(e) /\ ~IsWritten(e) /\ e.checksum = None
    BY <2>1, CompletedFacts
  <2> QED BY <2>1, <2>2
<1> QED BY <1>1, <1>2, <1>3, <1>4

LEMMA EventTypes ==
  /\ \A c \in Checksums : LoadedEvent(c) \in Events /\ WrittenEvent(c) \in Events
  /\ \A id \in Nat : CompletedEvent(id, TRUE) \in Events /\ CompletedEvent(id, FALSE) \in Events
BY DEF Events

-----------------------------------------------------------------------------
\* Sequences.

\* Taking the events over leaves what is on its way as it is; the game adds to the
\* end, the plugin takes from the front.
LEMMA QueueLemma ==
  ASSUME NEW S, NEW b \in Seq(S), NEW f \in Seq(S), NEW e \in S
  PROVE  /\ b \o f \in Seq(S)
         /\ b \o Append(f, e) = Append(b \o f, e)
         /\ b # <<>> => Tail(b) \o f = Tail(b \o f) /\ b \o f # <<>> /\ Head(b) = (b \o f)[1]
         /\ b = <<>> => b \o f = f
         /\ b \o <<>> = b
         /\ <<>> \o f = f
OBVIOUS

LEMMA AppendLemma ==
  ASSUME NEW S, NEW s \in Seq(S), NEW e \in S
  PROVE  /\ Append(s, e) \in Seq(S)
         /\ DOMAIN Append(s, e) = 1..(Len(s) + 1) /\ DOMAIN s = 1..Len(s)
         /\ Len(s) \in Nat /\ Len(Append(s, e)) = Len(s) + 1
         /\ \A i \in 1..Len(s) : Append(s, e)[i] = s[i]
         /\ Append(s, e)[Len(s) + 1] = e
OBVIOUS

LEMMA TailLemma ==
  ASSUME NEW S, NEW s \in Seq(S), s # <<>>
  PROVE  /\ Tail(s) \in Seq(S)
         /\ Len(s) \in Nat /\ Len(s) > 0 /\ Len(Tail(s)) = Len(s) - 1
         /\ DOMAIN s = 1..Len(s) /\ DOMAIN Tail(s) = 1..(Len(s) - 1)
         /\ \A i \in 1..(Len(s) - 1) : Tail(s)[i] = s[i + 1]
         /\ Head(s) = s[1] /\ s[1] \in S
OBVIOUS
-----------------------------------------------------------------------------
\* Loads on the way: the load that is the last one before position k of the
\* queue, if there is any, decides which world the position belongs to.

LoadIn(q) == \E i \in DOMAIN q : IsLoad(q[i])
NoLoadBefore(q, k) == \A i \in DOMAIN q : i < k => ~IsLoad(q[i])
LastLoad(q, m, k) ==
  /\ m \in DOMAIN q /\ m < k /\ IsLoad(q[m])
  /\ \A i \in DOMAIN q : m < i /\ i < k => ~IsLoad(q[i])

LEMMA LoadsAtEnd ==
  ASSUME NEW q \in Seq(Events)
  PROVE  /\ NoLoadBefore(q, Len(q) + 1) <=> ~LoadIn(q)
         /\ NoLoadBefore(q, 1)
         /\ \A k \in Nat : ~LoadIn(q) => NoLoadBefore(q, k)
         /\ ~LoadIn(<<>>)
BY DEF LoadIn, NoLoadBefore

LEMMA LoadsInAppend ==
  ASSUME NEW q \in Seq(Events), NEW e \in Events, NEW r, r = Append(q, e)
  PROVE  /\ \A k \in 1..(Len(q) + 1) :
              /\ NoLoadBefore(r, k) <=> NoLoadBefore(q, k)
              /\ \A m \in DOMAIN r : LastLoad(r, m, k) <=> LastLoad(q, m, k)
         /\ IsLoad(e) => /\ ~NoLoadBefore(r, Len(q) + 2)
                         /\ \A m \in DOMAIN r : LastLoad(r, m, Len(q) + 2) => m = Len(q) + 1
         /\ ~IsLoad(e) => /\ NoLoadBefore(r, Len(q) + 2) <=> NoLoadBefore(q, Len(q) + 1)
                          /\ \A m \in DOMAIN r : LastLoad(r, m, Len(q) + 2)
                                                 => LastLoad(q, m, Len(q) + 1)
         /\ LoadIn(r) <=> LoadIn(q) \/ IsLoad(e)
<1>1. /\ DOMAIN r = 1..(Len(q) + 1) /\ DOMAIN q = 1..Len(q) /\ Len(q) \in Nat
      /\ \A i \in 1..Len(q) : r[i] = q[i]
      /\ r[Len(q) + 1] = e
  BY AppendLemma
<1>2. ASSUME NEW k \in 1..(Len(q) + 1)
      PROVE  NoLoadBefore(r, k) <=> NoLoadBefore(q, k)
  BY <1>1 DEF NoLoadBefore
<1>3. ASSUME NEW k \in 1..(Len(q) + 1), NEW m \in DOMAIN r
      PROVE  LastLoad(r, m, k) <=> LastLoad(q, m, k)
  BY <1>1 DEF LastLoad
<1>4. ASSUME IsLoad(e)
      PROVE  /\ ~NoLoadBefore(r, Len(q) + 2)
             /\ \A m \in DOMAIN r : LastLoad(r, m, Len(q) + 2) => m = Len(q) + 1
  BY <1>1, <1>4 DEF NoLoadBefore, LastLoad
<1>5. ASSUME ~IsLoad(e)
      PROVE  /\ NoLoadBefore(r, Len(q) + 2) <=> NoLoadBefore(q, Len(q) + 1)
             /\ \A m \in DOMAIN r : LastLoad(r, m, Len(q) + 2)
                                    => LastLoad(q, m, Len(q) + 1)
  BY <1>1, <1>5 DEF NoLoadBefore, LastLoad
<1>6. LoadIn(r) <=> LoadIn(q) \/ IsLoad(e)
  BY <1>1 DEF LoadIn
<1> QED BY <1>2, <1>3, <1>4, <1>5, <1>6

LEMMA LoadsInTail ==
  ASSUME NEW q \in Seq(Events), q # <<>>, NEW r, r = Tail(q)
  PROVE  /\ \A k \in 1..Len(q), m \in DOMAIN r :
              LastLoad(r, m, k) => /\ m + 1 \in DOMAIN q /\ r[m] = q[m + 1]
                                   /\ LastLoad(q, m + 1, k + 1)
         /\ ~IsLoad(q[1]) => \A k \in 1..Len(q) : NoLoadBefore(r, k) <=> NoLoadBefore(q, k + 1)
         /\ IsLoad(q[1]) => \A k \in 1..Len(q) : NoLoadBefore(r, k) => LastLoad(q, 1, k + 1)
         /\ LoadIn(q) <=> LoadIn(r) \/ IsLoad(q[1])
<1>1. /\ DOMAIN q = 1..Len(q) /\ DOMAIN r = 1..(Len(q) - 1) /\ Len(q) \in Nat /\ Len(q) > 0
      /\ \A i \in 1..(Len(q) - 1) : r[i] = q[i + 1]
  BY TailLemma
<1>2. /\ \A i \in 1..(Len(q) - 1) : i + 1 \in 1..Len(q) /\ (IsLoad(r[i]) <=> IsLoad(q[i + 1]))
      /\ \A i \in 2..Len(q) : i - 1 \in 1..(Len(q) - 1) /\ (IsLoad(r[i - 1]) <=> IsLoad(q[i]))
  <2>1. ASSUME NEW i \in 1..(Len(q) - 1)
        PROVE  i + 1 \in 1..Len(q) /\ (IsLoad(r[i]) <=> IsLoad(q[i + 1]))
    BY <1>1
  <2>2. ASSUME NEW i \in 2..Len(q)
        PROVE  i - 1 \in 1..(Len(q) - 1) /\ (IsLoad(r[i - 1]) <=> IsLoad(q[i]))
    <3>1. i - 1 \in 1..(Len(q) - 1) /\ (i - 1) + 1 = i
      BY <1>1
    <3> QED BY <1>1, <3>1
  <2> QED BY <2>1, <2>2
<1>3. ASSUME NEW k \in 1..Len(q), NEW m \in DOMAIN r, LastLoad(r, m, k)
      PROVE  m + 1 \in DOMAIN q /\ r[m] = q[m + 1] /\ LastLoad(q, m + 1, k + 1)
  <2>1. m + 1 \in DOMAIN q /\ r[m] = q[m + 1] /\ m + 1 < k + 1 /\ IsLoad(q[m + 1])
    BY <1>1, <1>2, <1>3 DEF LastLoad
  <2>2. ASSUME NEW i \in DOMAIN q, m + 1 < i, i < k + 1
        PROVE  ~IsLoad(q[i])
    <3>1. i \in 2..Len(q) /\ i - 1 \in DOMAIN r /\ m < i - 1 /\ i - 1 < k
      BY <1>1, <2>2
    <3> QED BY <1>2, <1>3, <3>1 DEF LastLoad
  <2> QED BY <2>1, <2>2 DEF LastLoad
<1>4. ASSUME ~IsLoad(q[1]), NEW k \in 1..Len(q)
      PROVE  NoLoadBefore(r, k) <=> NoLoadBefore(q, k + 1)
  <2>1. ASSUME NoLoadBefore(r, k), NEW i \in DOMAIN q, i < k + 1
        PROVE  ~IsLoad(q[i])
    <3>1. CASE i = 1
      BY <1>4, <3>1
    <3>2. CASE i # 1
      <4>1. i \in 2..Len(q) /\ i - 1 \in DOMAIN r /\ i - 1 < k
        BY <1>1, <2>1, <3>2
      <4> QED BY <1>2, <2>1, <4>1 DEF NoLoadBefore
    <3> QED BY <3>1, <3>2
  <2>2. ASSUME NoLoadBefore(q, k + 1), NEW i \in DOMAIN r, i < k
        PROVE  ~IsLoad(r[i])
    <3>1. i + 1 \in DOMAIN q /\ i + 1 < k + 1
      BY <1>1, <2>2
    <3> QED BY <1>1, <1>2, <2>2, <3>1 DEF NoLoadBefore
  <2> QED BY <2>1, <2>2 DEF NoLoadBefore
<1>5. ASSUME IsLoad(q[1]), NEW k \in 1..Len(q), NoLoadBefore(r, k)
      PROVE  LastLoad(q, 1, k + 1)
  <2>1. ASSUME NEW i \in DOMAIN q, 1 < i, i < k + 1
        PROVE  ~IsLoad(q[i])
    <3>1. i \in 2..Len(q) /\ i - 1 \in DOMAIN r /\ i - 1 < k
      BY <1>1, <2>1
    <3> QED BY <1>2, <1>5, <3>1 DEF NoLoadBefore
  <2> QED BY <1>1, <1>5, <2>1 DEF LastLoad
<1>6. LoadIn(q) <=> LoadIn(r) \/ IsLoad(q[1])
  <2>1. ASSUME LoadIn(q), ~IsLoad(q[1]) PROVE LoadIn(r)
    <3>1. PICK i \in DOMAIN q : IsLoad(q[i])
      BY <2>1 DEF LoadIn
    <3>2. i \in 2..Len(q)
      BY <1>1, <2>1, <3>1
    <3> QED BY <1>1, <1>2, <3>1, <3>2 DEF LoadIn
  <2>2. ASSUME LoadIn(r) PROVE LoadIn(q)
    BY <1>1, <1>2, <2>2 DEF LoadIn
  <2>3. ASSUME IsLoad(q[1]) PROVE LoadIn(q)
    BY <1>1, <2>3 DEF LoadIn
  <2> QED BY <2>1, <2>2, <2>3
<1> QED BY <1>3, <1>4, <1>5, <1>6
-----------------------------------------------------------------------------
\* Where the cursor is when the plugin gets to position k of the queue: the answer
\* to the pending item moves it.

Before(q, k, e) == \E i \in DOMAIN q : i < k /\ q[i] = e

LEMMA BeforeInAppend ==
  ASSUME NEW q \in Seq(Events), NEW e \in Events, NEW r, r = Append(q, e), NEW a
  PROVE  /\ \A k \in 1..(Len(q) + 1) : Before(r, k, a) <=> Before(q, k, a)
         /\ Before(r, Len(q) + 2, a) <=> Before(q, Len(q) + 1, a) \/ e = a
<1>1. /\ DOMAIN r = 1..(Len(q) + 1) /\ DOMAIN q = 1..Len(q) /\ Len(q) \in Nat
      /\ \A i \in 1..Len(q) : r[i] = q[i]
      /\ r[Len(q) + 1] = e
  BY AppendLemma
<1> QED BY <1>1 DEF Before

LEMMA BeforeInTail ==
  ASSUME NEW q \in Seq(Events), q # <<>>, NEW r, r = Tail(q), NEW a
  PROVE  /\ \A k \in 1..Len(q) : Before(q, k + 1, a) <=> Before(r, k, a) \/ q[1] = a
<1>1. /\ DOMAIN q = 1..Len(q) /\ DOMAIN r = 1..(Len(q) - 1) /\ Len(q) \in Nat /\ Len(q) > 0
      /\ \A i \in 1..(Len(q) - 1) : r[i] = q[i + 1]
  BY TailLemma
<1>2. ASSUME NEW k \in 1..Len(q), Before(q, k + 1, a), q[1] # a
      PROVE  Before(r, k, a)
  <2>1. PICK i \in DOMAIN q : i < k + 1 /\ q[i] = a
    BY <1>2 DEF Before
  <2>2. i - 1 \in DOMAIN r /\ i - 1 < k /\ (i - 1) + 1 = i /\ i - 1 \in 1..(Len(q) - 1)
    BY <1>1, <1>2, <2>1
  <2>3. r[i - 1] = a
    BY <1>1, <2>1, <2>2
  <2> QED BY <2>2, <2>3 DEF Before
<1>3. ASSUME NEW k \in 1..Len(q), Before(r, k, a)
      PROVE  Before(q, k + 1, a)
  <2>1. PICK i \in DOMAIN r : i < k /\ r[i] = a
    BY <1>3 DEF Before
  <2>2. i + 1 \in DOMAIN q /\ i + 1 < k + 1 /\ q[i + 1] = a
    BY <1>1, <1>3, <2>1
  <2> QED BY <2>2 DEF Before
<1>4. ASSUME NEW k \in 1..Len(q), q[1] = a
      PROVE  Before(q, k + 1, a)
  BY <1>1, <1>4 DEF Before
<1> QED BY <1>2, <1>3, <1>4

Answer == CompletedEvent(requestId, TRUE)
Carried == Before(Q, Len(Q) + 1, Answer)
Answered(k) == pending.kind = "Item" /\ Before(Q, k, Answer)
CursorAt(k) == IF Answered(k) THEN nextIndex + 1 ELSE nextIndex

-----------------------------------------------------------------------------
\* The worlds on the way: each save that the plugin still has to hear of, at the
\* position of its event, and the loaded world after all events.

First(n) == [i \in Indices |-> IF i < n THEN 1 ELSE 0]

Point(k) == k \in 1..(Len(Q) + 1) /\ (k \in DOMAIN Q => IsWritten(Q[k]))
WorldAt(k) == IF k \in DOMAIN Q THEN saves[Q[k].checksum] ELSE world

LEMMA LastOfRange ==
  ASSUME NEW n \in Nat, NEW k \in 1..n, k \notin 1..(n - 1)
  PROVE  k = n
OBVIOUS

LEMMA PointsSame ==
  ASSUME Q \in Seq(Events), Q' = Q, NEW k, Point(k)'
  PROVE  /\ Point(k) /\ k \in 1..(Len(Q) + 1) /\ k \in Nat
         /\ WorldAt(k)' = IF k \in DOMAIN Q THEN saves'[Q[k].checksum] ELSE world'
         /\ k \in DOMAIN Q \/ k = Len(Q) + 1
<1>1. Len(Q) \in Nat /\ DOMAIN Q = 1..Len(Q)
  OBVIOUS
<1> QED BY <1>1 DEF Point, WorldAt

LEMMA PointsAppend ==
  ASSUME Q \in Seq(Events), NEW e \in Events, Q' = Append(Q, e), NEW k, Point(k)'
  PROVE  \/ /\ Point(k) /\ k \in DOMAIN Q /\ k \in 1..(Len(Q) + 1)
            /\ Q'[k] = Q[k] /\ WorldAt(k)' = saves'[Q[k].checksum]
         \/ k = Len(Q) + 1 /\ Q'[k] = e /\ IsWritten(e) /\ WorldAt(k)' = saves'[e.checksum]
         \/ k = Len(Q) + 2 /\ WorldAt(k)' = world'
<1>1. /\ DOMAIN Q' = 1..(Len(Q) + 1) /\ DOMAIN Q = 1..Len(Q) /\ Len(Q) \in Nat
      /\ \A i \in 1..Len(Q) : Q'[i] = Q[i]
      /\ Q'[Len(Q) + 1] = e /\ Len(Q') = Len(Q) + 1
  BY AppendLemma
<1> QED BY <1>1 DEF Point, WorldAt

LEMMA PointsTail ==
  ASSUME Q \in Seq(Events), Q # <<>>, Q' = Tail(Q), UNCHANGED <<saves, world>>,
         NEW k, Point(k)'
  PROVE  /\ k \in 1..Len(Q) /\ k + 1 \in 1..(Len(Q) + 1) /\ k \in Nat /\ Point(k + 1)
         /\ WorldAt(k)' = WorldAt(k + 1)
         /\ k \in DOMAIN Q' => k + 1 \in DOMAIN Q /\ Q'[k] = Q[k + 1]
<1>1. /\ DOMAIN Q = 1..Len(Q) /\ DOMAIN Q' = 1..(Len(Q) - 1) /\ Len(Q) \in Nat /\ Len(Q) > 0
      /\ \A i \in 1..(Len(Q) - 1) : Q'[i] = Q[i + 1]
      /\ Len(Q') = Len(Q) - 1
  BY TailLemma
<1>2. k \in 1..Len(Q) /\ k + 1 \in 1..(Len(Q) + 1)
  BY <1>1 DEF Point
<1>3. CASE k \in DOMAIN Q'
  BY <1>1, <1>2, <1>3 DEF Point, WorldAt
<1>4. CASE k \notin DOMAIN Q'
  <2>a. k \notin 1..(Len(Q) - 1) /\ k \in 1..Len(Q)
    BY <1>1, <1>2, <1>4
  <2>b. k = Len(Q)
    BY <1>1, <2>a, LastOfRange
  <2>1. k = Len(Q) /\ k + 1 \notin DOMAIN Q
    BY <1>1, <2>b
  <2> QED BY <1>1, <1>2, <1>4, <2>1 DEF Point, WorldAt
<1> QED BY <1>3, <1>4

\* A world loaded from save c, or made there of nothing.
MadeFrom(w, c, files) ==
  ~w.fresh /\ (w.from # None => w.from = c /\ w.applied = files[c].applied)

\* A tracked world that no load separates from the plugin has the items up to the
\* cursor; one that was loaded has what the save has.
Fits(k) ==
  /\ \A m \in DOMAIN Q : LastLoad(Q, m, k) => MadeFrom(WorldAt(k), Q[m].checksum, saves)
  /\ NoLoadBefore(Q, k) /\ context = "AwaitingCursor" => MadeFrom(WorldAt(k), checksum, saves)
  /\ NoLoadBefore(Q, k) /\ context # "AwaitingCursor" /\ Known(WorldAt(k)) =>
       WorldAt(k).applied = First(CursorAt(k))
FitInv == \A k \in 1..(Len(Q) + 1) : Point(k) => Fits(k)

\* What a world or an event names is a save that exists.
ExistInv ==
  /\ \A c \in Checksums : saves[c] # None /\ saves[c].from # None => saves[saves[c].from] # None
  /\ world.from # None => saves[world.from] # None
  /\ \A i \in DOMAIN Q : IsLoad(Q[i]) \/ IsWritten(Q[i]) => saves[Q[i].checksum] # None
  /\ context = "AwaitingCursor" => checksum \in Checksums /\ saves[checksum] # None

\* A save that the plugin has not heard of yet is new to it, and nothing was
\* applied to the worlds loaded from it.
NewTo(k) ==
  LET c == Q[k].checksum IN
  /\ c \notin recorded
  /\ \A j \in DOMAIN Q : Q[j].checksum = c /\ j # k => IsLoad(Q[j]) /\ k < j
  /\ context = "AwaitingCursor" => checksum # c
  /\ \A j \in 1..(Len(Q) + 1) : Point(j) /\ WorldAt(j).from = c => ~NoLoadBefore(Q, j)
  /\ \A x \in Checksums : saves[x] # None /\ saves[x].from = c =>
                            saves[x].applied = saves[c].applied
  /\ world.from = c => world.applied = saves[c].applied
NewInv == \A k \in DOMAIN Q : IsWritten(Q[k]) => NewTo(k)
\* A recorded save has the items up to the cursor the file has for it, and the
\* runtime of a session decides with the same snapshot.
RecordedInv ==
  \A c \in recorded :
    /\ saves[c] # None /\ Known(saves[c])
    /\ disk.snapshots[Slot][c] # None
    /\ saves[c].applied = First(disk.snapshots[Slot][c].nextIndex)
    /\ session # None => journal.snapshots[Slot][c] = disk.snapshots[Slot][c]

SlotInv ==
  /\ session \in {None, Slot}
  /\ pending.kind = "Policies" => pending.name = Slot

\* Between a menu and the next new game the plugin loop turns, with no load on the
\* way; a loaded save that waits for its cursor is still loading to the runtime.
MenuInv ==
  /\ mode = "MainMenu" => world.from = None /\ ~world.fresh
  /\ world.fresh => menuPolled = "Yes"
  /\ menuPolled = "Yes" => ~LoadIn(Q)
  /\ menuPolled = "Read" => mode = "MainMenu" /\ pc \in {"Drain", "Events"}
  /\ menuPolled = "Read" /\ pc = "Events" => ~LoadIn(events)
  /\ context = "AwaitingCursor" => saveLoadPending

\* When the runtime is about to end its world, the worlds that no load separates
\* from it were never its own.
Ending == seen = "MainMenu" /\ context # "Waiting" /\ ~saveLoadPending
Gone(k) == NoLoadBefore(Q, k) => ~WorldAt(k).fresh /\ WorldAt(k).from = None
Behind(k) ==
  \/ pc = "Drain" /\ k = Len(Q) + 1
  \/ pc = "Events" /\ Len(batch) < k
GoneInv == Ending => \A k \in 1..(Len(Q) + 1) : Point(k) /\ Behind(k) => Gone(k)

LoopInv ==
  /\ pc # "Events" => batch = <<>>
  /\ pc \in {"Poll", "Start"} => (gameplayLoaded <=> IsLoaded(seen))
  /\ draining => pc = "Poll"
  /\ pc = "Start" => pending.kind # "None"
  /\ pc = "Start" /\ pending.kind \in {"Item", "Replay"} => seen = "Interactive"
  /\ pending.kind \in {"Policies", "Reset"} => pc = "Start"

\* A load that the plugin has not taken over makes its epoch stale, until the
\* world is over for it.
EpochInv ==
  /\ observed <= live
  /\ LoadIn(events) /\ observed = live => ~gameplayLoaded /\ pc # "Events"

IsWork(t) == t.kind \in {"Item", "Replay"}

\* A request is on its way once: as a task, or as the answer to it.
IdsFit(q, ts, n) ==
  /\ \A i \in DOMAIN q : IsCompletion(q[i]) => q[i].id \in 0..n
  /\ \A i \in DOMAIN ts : IsWork(ts[i]) => ts[i].id \in 0..n
  /\ \A i, j \in DOMAIN q :
       IsCompletion(q[i]) /\ IsCompletion(q[j]) /\ q[i].id = q[j].id => i = j
  /\ \A i, j \in DOMAIN ts :
       IsWork(ts[i]) /\ IsWork(ts[j]) /\ ts[i].id = ts[j].id => i = j
  /\ \A i \in DOMAIN q, j \in DOMAIN ts :
       IsCompletion(q[i]) /\ IsWork(ts[j]) => q[i].id # ts[j].id
Unused(q, ts, id) ==
  /\ \A i \in DOMAIN q : IsCompletion(q[i]) => q[i].id # id
  /\ \A i \in DOMAIN ts : IsWork(ts[i]) => ts[i].id # id
IdInv ==
  /\ IdsFit(Q, tasks, requestId)
  /\ pc = "Start" => Unused(Q, tasks, requestId)

\* A task that can still be applied is the pending request, of the world that the
\* plugin is in.
LiveTask(i) ==
  /\ ~LoadIn(Q) /\ gameplayLoaded
  /\ tasks[i].id = requestId
  /\ pending.kind = tasks[i].kind /\ pending.index = tasks[i].index
  /\ pending.name = tasks[i].name
  /\ \A j \in DOMAIN tasks : i < j => tasks[j].kind # "Reset"
TaskInv ==
  /\ \A i \in DOMAIN tasks : IsWork(tasks[i]) => tasks[i].epoch <= observed
  /\ \A i \in DOMAIN tasks : IsWork(tasks[i]) /\ tasks[i].epoch = live => LiveTask(i)

PersistentBefore(n) ==
  {Inventory[i] : i \in {k \in Indices : k < n}} \cap PersistentItems

\* The plugin's persistent items are those before the cursor, in every snapshot.
CursorItems(snapshots) ==
  \A c \in Checksums : snapshots[Slot][c] # None =>
    snapshots[Slot][c].items = PersistentBefore(snapshots[Slot][c].nextIndex)
ItemsInv ==
  /\ context # "AwaitingCursor" => persistentItems = PersistentBefore(nextIndex)
  /\ session = None => persistentItems = {}
  /\ CursorItems(journal.snapshots)
  /\ CursorItems(disk.snapshots)
  /\ pending.kind = "Item" => pending.index \in Indices /\ pending.name = Inventory[pending.index]
  /\ pending.kind = "Replay" => pending.index = 0

\* What the game will have once the tasks before the next item are done.
ResetQueued == \E i \in DOMAIN tasks : tasks[i].kind = "Reset"
HeldNext == IF ResetQueued THEN {} ELSE held
HeldInv ==
  /\ restore.state \in {"NeedsReset", "Replaying"} => context # "AwaitingCursor"
  /\ restore.state = "NeedsReset" => restore.items = persistentItems
  /\ restore.state = "Replaying" =>
       /\ restore.items \subseteq persistentItems
       /\ HeldNext \subseteq persistentItems
       /\ persistentItems \subseteq HeldNext \cup restore.items
       /\ pending.kind = "Replay" /\ Carried => pending.name \in HeldNext
  /\ restore.state = "None" /\ session # None =>
       HeldNext = IF pending.kind = "Item" /\ Carried
                  THEN persistentItems \cup ({pending.name} \cap PersistentItems)
                  ELSE persistentItems
  /\ session = None => /\ held = {} /\ restore.state \in {"None", "AwaitingSnapshot"}
                       /\ pending.kind \in {"None", "Policies"}
  /\ pending.kind \in {"Item", "Replay"} /\ Carried => ~ResetQueued

DInv ==
  /\ IInv /\ DeliveryTypeOK
  /\ FitInv /\ ExistInv /\ NewInv /\ RecordedInv
  /\ SlotInv /\ MenuInv /\ GoneInv /\ LoopInv /\ EpochInv
  /\ IdInv /\ TaskInv /\ ItemsInv /\ HeldInv
-----------------------------------------------------------------------------
\* What the steps of the plugin thread do to what the invariants speak of.

Still == UNCHANGED <<session, context, checksum, nextIndex, persistentItems, restore,
                     saveLoadPending, pending, requestId, gameplayLoaded>>
NetworkTurn == /\ pc = "Poll"
               /\ UNCHANGED <<gameVars, queueVars, recorded, seen, batch>>

\* A line or a look for work that leaves the delivery alone; an acknowledgement may
\* bring the file up to the journal.
QuietTurn ==
  /\ NetworkTurn /\ Still
  /\ pc' \in {"Poll", "Read"} /\ (draining' => pc' = "Poll")
  /\ journal'.snapshots = journal.snapshots
  /\ \/ disk'.snapshots = disk.snapshots
     \/ session # None /\ disk'.snapshots = journal.snapshots

EmptyReplay ==
  /\ NetworkTurn /\ pc' = "Poll"
  /\ pending = NoRequest
  /\ restore.state = "Replaying" /\ restore.items = {} /\ restore' = NoRestore
  /\ UNCHANGED <<session, context, checksum, nextIndex, persistentItems, journal, disk,
                 saveLoadPending, pending, requestId, gameplayLoaded>>

Handed(request) ==
  /\ NetworkTurn /\ pc' = "Start" /\ ~draining'
  /\ pending = NoRequest /\ pending' = request /\ requestId' = requestId + 1
  /\ UNCHANGED <<session, context, checksum, nextIndex, persistentItems, restore,
                 journal, disk, saveLoadPending, gameplayLoaded>>
PoliciesHanded ==
  Handed([kind |-> "Policies", index |-> 0, name |-> Slot]) /\ session = None
ResetHanded ==
  /\ Handed([kind |-> "Reset", index |-> 0, name |-> None])
  /\ session # None /\ restore.state = "NeedsReset"
ReplayHanded ==
  \E item \in restore.items :
    /\ Handed([kind |-> "Replay", index |-> 0, name |-> item])
    /\ session # None /\ restore.state = "Replaying" /\ seen = "Interactive"
ItemHanded ==
  \E i \in Indices :
    /\ Handed([kind |-> "Item", index |-> i, name |-> Inventory[i]])
    /\ i = nextIndex /\ Ready(context) /\ restore.state = "None"
    /\ session # None /\ seen = "Interactive"

CursorGiven ==
  /\ NetworkTurn /\ pc' = "Poll"
  /\ session # None /\ pending = NoRequest
  /\ context = "AwaitingCursor" /\ context' = "ActiveRevision" /\ checksum \in Checksums
  /\ nextIndex' \in Cursors /\ persistentItems' = PersistentBefore(nextIndex')
  /\ restore'.state = "NeedsReset" /\ restore'.items = persistentItems'
  /\ \/ /\ journal.snapshots[Slot][checksum] # None
        /\ journal.snapshots[Slot][checksum].nextIndex = nextIndex'
        /\ UNCHANGED <<journal, disk>>
     \/ /\ journal.snapshots[Slot][checksum] = None
        /\ journal' = StoreSnapshot(journal, Slot, checksum, nextIndex', persistentItems')
        /\ disk' = journal'
  /\ UNCHANGED <<session, checksum, saveLoadPending, pending, requestId, gameplayLoaded>>

Installed ==
  /\ pc = "Start" /\ pc' = "Poll"
  /\ UNCHANGED <<gameVars, queueVars, recorded, seen, batch>>
  /\ pending.kind = "Policies" /\ pending' = NoRequest
  /\ session = None
  /\ \/ session' = None
     \/ session' = Slot /\ journal = disk
  /\ UNCHANGED <<context, checksum, nextIndex, persistentItems, restore, journal, disk,
                 saveLoadPending, requestId, gameplayLoaded>>

ResetTask == [kind |-> "Reset", index |-> 0, name |-> None, id |-> 0, epoch |-> 0]
ResetStarted ==
  /\ pc = "Start" /\ pc' = "Poll"
  /\ UNCHANGED <<gameVars, live, observed, events, recorded, seen, batch>>
  /\ pending.kind = "Reset" /\ pending' = NoRequest /\ restore.state = "NeedsReset"
  /\ \/ tasks' = tasks /\ restore' = restore
     \/ tasks' = Append(tasks, ResetTask) /\ restore' = restore
     \/ /\ tasks' = Append(tasks, ResetTask)
        /\ restore'.state = "Replaying" /\ restore'.items = restore.items
  /\ UNCHANGED <<session, context, checksum, nextIndex, persistentItems, journal, disk,
                 saveLoadPending, requestId, gameplayLoaded>>

\* A turn of the loop that processes the first event.
EventTurn ==
  /\ pc = "Events" /\ pc' = "Events" /\ batch # <<>> /\ batch' = Tail(batch)
  /\ Q # <<>> /\ Q' = Tail(Q)
  /\ UNCHANGED <<gameVars, queueVars, seen, session, requestId, gameplayLoaded>>

LoadHeard(c) ==
  /\ EventTurn /\ Q[1] = LoadedEvent(c)
  /\ pending' = CancelGameplayRequest(pending)
  /\ context' = "AwaitingCursor" /\ checksum' = c /\ nextIndex' = 0
  /\ restore'.state = "AwaitingSnapshot" /\ saveLoadPending' = TRUE
  /\ UNCHANGED <<persistentItems, journal, disk, recorded>>

WriteHeard(c) ==
  /\ EventTurn /\ Q[1] = WrittenEvent(c)
  /\ Ready(context) /\ context' = "ActiveRevision" /\ checksum' = c
  /\ \/ UNCHANGED <<journal, disk, recorded>>
     \/ /\ session = Slot /\ journal = disk
        /\ journal' = Record(journal, Slot, c, nextIndex, persistentItems)
        /\ \/ disk' = disk /\ recorded' = recorded
           \/ disk' = journal' /\ recorded' = recorded
           \/ disk' = journal' /\ recorded' = recorded \cup {c} /\ Known(saves[c])
  /\ UNCHANGED <<nextIndex, persistentItems, restore, saveLoadPending, pending>>

EventIgnored ==
  /\ EventTurn /\ Still
  /\ \/ IsWritten(Q[1]) /\ ~Ready(context)
     \/ IsCompletion(Q[1]) /\ ~(IsWork(pending) /\ Q[1].id = requestId)
  /\ UNCHANGED <<journal, disk, recorded>>

ItemAnswered ==
  /\ EventTurn /\ pending.kind = "Item" /\ pending' = NoRequest
  /\ \/ /\ Q[1] = CompletedEvent(requestId, TRUE)
        /\ nextIndex' = nextIndex + 1
        /\ persistentItems' = persistentItems \cup ({pending.name} \cap PersistentItems)
     \/ /\ Q[1] = CompletedEvent(requestId, FALSE)
        /\ UNCHANGED <<nextIndex, persistentItems>>
  /\ UNCHANGED <<context, checksum, restore, saveLoadPending, journal, disk, recorded>>

ReplayAnswered ==
  /\ EventTurn /\ pending.kind = "Replay" /\ pending' = NoRequest
  /\ restore.state = "Replaying"
  /\ \/ /\ Q[1] = CompletedEvent(requestId, TRUE)
        /\ \/ restore.items \ {pending.name} = {} /\ restore' = NoRestore
           \/ /\ restore'.state = "Replaying"
              /\ restore'.items = restore.items \ {pending.name}
     \/ /\ Q[1] = CompletedEvent(requestId, FALSE)
        /\ restore'.state = "Failed"
  /\ UNCHANGED <<context, checksum, nextIndex, persistentItems, saveLoadPending, journal,
                 disk, recorded>>

\* The turn that follows the events.
WorldTurn ==
  /\ pc = "Events" /\ pc' = "Poll" /\ batch = <<>>
  /\ (gameplayLoaded' <=> IsLoaded(seen))
  /\ \/ gameplayLoaded /\ ~IsLoaded(seen) /\ live' = live + 1 /\ observed' = live + 1
     \/ ~(gameplayLoaded /\ ~IsLoaded(seen)) /\ UNCHANGED <<live, observed>>
  /\ menuPolled' = IF menuPolled = "Read" THEN "Yes" ELSE menuPolled
  /\ UNCHANGED <<mode, world, saves, held, events, tasks, recorded, seen, batch, session,
                 journal, disk, requestId>>

WorldLeft ==
  /\ WorldTurn /\ Ending
  /\ context' = "Waiting" /\ checksum' = None /\ nextIndex' = 0
  /\ saveLoadPending' = saveLoadPending
  /\ pending' = CancelGameplayRequest(pending)
  /\ persistentItems' = {}
  /\ \/ session # None /\ restore'.state = "NeedsReset" /\ restore'.items = {}
     \/ session = None /\ restore' = NoRestore

WorldEntered ==
  /\ WorldTurn /\ context = "Waiting" /\ context' = "Provisional"
  /\ UNCHANGED <<checksum, nextIndex, pending, persistentItems, restore>>

WorldKept ==
  /\ WorldTurn
  /\ context = "AwaitingCursor" => saveLoadPending' = saveLoadPending
  /\ UNCHANGED <<context, checksum, nextIndex, pending, persistentItems, restore>>
\* Asking for a request either finds none, or hands out restore work.
LEMMA AskSteps ==
  ASSUME DInv, AskForRequest
  PROVE  QuietTurn \/ EmptyReplay \/ ResetHanded \/ ReplayHanded
<1> USE DEF AskForRequest, sessionVars, deliveryVars, journalVars, restoreVars,
            requestVars, feedVars, NetworkTurn, RestoreDue, HandOut
<1>0. /\ pc = "Poll" /\ ~draining /\ pending = NoRequest
      /\ UNCHANGED <<gameVars, queueVars, recorded, seen, batch>>
      /\ UNCHANGED <<session, deliveryVars, journal, disk, persistentItems,
                     saveLoadPending, gameplayLoaded>>
      /\ pc' = IF pending' # NoRequest THEN "Start" ELSE "Poll"
      /\ pending.kind = "None"
  BY DEF NextRequest, NoRequest
<1>1. CASE SkipDeferredRestore(seen = "Interactive") \/ NothingToRestore(seen = "Interactive")
  BY <1>0, <1>1 DEF SkipDeferredRestore, NothingToRestore, QuietTurn, Still
<1>2. CASE FinishEmptyReplay(seen = "Interactive")
  BY <1>0, <1>2 DEF FinishEmptyReplay, EmptyReplay
<1>3. CASE RequestReset(seen = "Interactive")
  BY <1>0, <1>3 DEF RequestReset, ResetHanded, Handed, NoRequest
<1>4. CASE RequestReplay(seen = "Interactive")
  BY <1>0, <1>4 DEF RequestReplay, ReplayHanded, Handed, NoRequest
<1> QED BY <1>1, <1>2, <1>3, <1>4 DEF NextRequest
\* The other turns of the network: a line may hand out policies or the next item,
\* give the cursor of the loaded save, or none of these.
LEMMA LineSteps ==
  ASSUME DInv, RequestPending \/ NoMoreLines \/ HandleLine
  PROVE  QuietTurn \/ PoliciesHanded \/ ItemHanded \/ CursorGiven
<1> USE DEF sessionVars, deliveryVars, journalVars, restoreVars, requestVars, feedVars,
            NetworkTurn
<1>0. /\ draining => pending = NoRequest
      /\ journal \in Journals /\ disk \in Journals
      /\ active => session # None
      /\ session \in {None, Slot}
      /\ Slot \in Sessions
      /\ draining => pending.kind = "None"
  <2>1. /\ draining => pending = NoRequest
        /\ journal \in Journals /\ disk \in Journals
        /\ session \in {None, Slot} /\ Slot \in Sessions
    BY DeliveryAssumption DEF DInv, IInv, RequestInv, DataTypeOK, SlotInv
  <2>2. active => session # None
    BY DEF DInv, IInv, SessionInv
  <2> QED BY <2>1, <2>2 DEF NoRequest
<1>1. CASE RequestPending
  <2>1. ~draining'
    BY <1>1 DEF RequestPending, vars
  <2> QED BY <1>1, <2>1 DEF RequestPending, vars, QuietTurn, Still
<1>2. CASE NoMoreLines
  BY <1>2 DEF NoMoreLines, DrainEnds, QuietTurn, Still
<1>3. CASE HandleLine
  <2>0. /\ pc = "Poll" /\ ClientLine
        /\ pc' = IF pending' # NoRequest THEN "Start" ELSE "Poll"
        /\ UNCHANGED <<gameVars, queueVars, recorded, seen, batch>>
    BY <1>3 DEF HandleLine
  <2>1. CASE Connected \/ Disconnected \/ OnSessionEnd
    <3>1. draining /\ Still /\ UNCHANGED <<journal, disk>>
      BY <2>1 DEF Connected, Disconnected, OnSessionEnd, Still
    <3> QED BY <1>0, <2>0, <3>1 DEF QuietTurn, Still
  <2>2. CASE OnSessionReady(Slot, TRUE)
    <3>1. draining /\ UNCHANGED <<session, deliveryVars, journal, disk, persistentItems,
                                  restore, saveLoadPending, gameplayLoaded>>
      BY <2>2 DEF OnSessionReady
    <3>2. CASE UNCHANGED requestVars
      BY <1>0, <2>0, <3>1, <3>2 DEF QuietTurn, Still
    <3>3. CASE /\ session = None
               /\ HandOut([kind |-> "Policies", index |-> 0, name |-> Slot])
               /\ draining' = FALSE
      BY <1>0, <2>0, <3>1, <3>3 DEF PoliciesHanded, Handed, HandOut, NoRequest
    <3> QED BY <2>2, <3>2, <3>3 DEF OnSessionReady, NeedsPolicies
  <2>3. ASSUME NEW i \in Indices, OnItem(i, Inventory[i], seen = "Interactive")
        PROVE  QuietTurn \/ ItemHanded
    <3>1. draining /\ UNCHANGED <<session, deliveryVars, journal, disk, persistentItems,
                                  restore, saveLoadPending, gameplayLoaded>>
      BY <2>3 DEF OnItem
    <3>2. CASE UNCHANGED requestVars
      BY <1>0, <2>0, <3>1, <3>2 DEF QuietTurn, Still
    <3>3. CASE /\ DeliveryOpen(seen = "Interactive") /\ NextInLine(i)
               /\ HandOut([kind |-> "Item", index |-> i, name |-> Inventory[i]])
               /\ draining' = FALSE
      <4>1. /\ i = nextIndex /\ Ready(context) /\ restore.state = "None"
            /\ active /\ seen = "Interactive"
        BY <3>3 DEF DeliveryOpen, NextInLine
      <4>2. /\ pending' = [kind |-> "Item", index |-> i, name |-> Inventory[i]]
            /\ requestId' = requestId + 1 /\ ~draining'
        BY <3>3 DEF HandOut
      <4>3. pc' = "Start"
        BY <2>0, <4>2 DEF NoRequest
      <4>4. Handed([kind |-> "Item", index |-> i, name |-> Inventory[i]])
        BY <1>0, <2>0, <3>1, <4>2, <4>3 DEF Handed
      <4> QED BY <1>0, <4>1, <4>4 DEF ItemHanded
    <3> QED BY <2>3, <3>2, <3>3 DEF OnItem
  <2>4. ASSUME NEW c \in Checksums, journal.pending[Slot][c] # None,
               OnSaveRevisionAck(c, journal.pending[Slot][c], TRUE)
        PROVE  QuietTurn
    <3>1. draining /\ Still
      BY <2>4 DEF OnSaveRevisionAck, Still
    <3>2. CASE UNCHANGED journalVars
      BY <1>0, <2>0, <3>1, <3>2 DEF QuietTurn, Still
    <3>3. CASE /\ session # None
               /\ journal' = Acknowledged(journal, session, c)
               /\ disk' = journal' \/ disk' = disk
      <4>1. journal'.snapshots = journal.snapshots
        BY <1>0, <3>3 DEF Acknowledged, Journals
      <4> QED BY <1>0, <2>0, <3>1, <3>3, <4>1 DEF QuietTurn, Still
    <3> QED BY <2>4, <3>2, <3>3 DEF OnSaveRevisionAck, AckMatches, Persist
  <2>5. ASSUME NEW c \in Checksums, NEW n \in Cursors, NEW items \in SUBSET Items,
               items = PersistentBefore(n),
               journal.snapshots[Slot][c] # None =>
                 journal.snapshots[Slot][c].nextIndex = n,
               OnSaveContext(c, n, TRUE, items)
        PROVE  QuietTurn \/ CursorGiven
    <3>1. draining /\ UNCHANGED <<session, checksum, saveLoadPending, requestVars,
                                  gameplayLoaded>>
      BY <2>5 DEF OnSaveContext
    <3>2. CASE RejectSaveContext /\ journal' = journal /\ disk' = disk
      BY <1>0, <2>0, <3>1, <3>2 DEF RejectSaveContext, QuietTurn, Still
    <3>3. CASE /\ ContextWelcome(c, items) /\ ActivateSave(c, n, items)
               /\ \/ journal.snapshots[session][c] # None /\ UNCHANGED <<journal, disk>>
                  \/ /\ journal.snapshots[session][c] = None
                     /\ journal' = StoreSnapshot(journal, session, c, n, items)
                     /\ disk' = journal'
      <4>1. /\ session = Slot /\ context = "AwaitingCursor" /\ checksum = c
            /\ nextIndex' = n /\ context' = "ActiveRevision" /\ persistentItems' = items
            /\ restore'.state = "NeedsReset" /\ restore'.items = items
        <5>1. session = Slot
          BY <1>0, <3>3 DEF ContextWelcome
        <5>2. context = "AwaitingCursor" /\ checksum = c
          BY <3>3 DEF ContextWelcome
        <5>3. nextIndex' = n /\ context' = "ActiveRevision" /\ persistentItems' = items
          BY <3>3 DEF ActivateSave
        <5>4. restore'.state = "NeedsReset" /\ restore'.items = items
          BY <3>3 DEF ActivateSave
        <5> QED BY <5>1, <5>2, <5>3, <5>4
      <4>2. /\ pc' = "Poll" /\ pending = NoRequest /\ checksum \in Checksums
            /\ session # None
        BY <1>0, <2>0, <3>1, <3>3, <4>1 DEF ContextWelcome, NoRequest
      <4>3. \/ /\ journal.snapshots[Slot][checksum] # None
               /\ journal.snapshots[Slot][checksum].nextIndex = nextIndex'
               /\ UNCHANGED <<journal, disk>>
            \/ /\ journal.snapshots[Slot][checksum] = None
               /\ journal' = StoreSnapshot(journal, Slot, checksum, nextIndex', persistentItems')
               /\ disk' = journal'
        BY <2>5, <3>3, <4>1
      <4> QED BY <1>0, <2>0, <2>5, <3>1, <4>1, <4>2, <4>3 DEF CursorGiven
    <3> QED BY <2>5, <3>2, <3>3 DEF OnSaveContext, Persist
  <2>6. ASSUME NEW c \in Checksums,
               LET snapshot == journal.snapshots[Slot][c] IN
               \/ snapshot # None /\ OnSaveContext(c, snapshot.nextIndex, TRUE, snapshot.items)
               \/ snapshot = None /\ OnSaveContext(c, 0, TRUE, {})
        PROVE  QuietTurn \/ CursorGiven
    <3>1. CASE /\ journal.snapshots[Slot][c] # None
               /\ OnSaveContext(c, journal.snapshots[Slot][c].nextIndex, TRUE,
                                journal.snapshots[Slot][c].items)
      <4>1. journal.snapshots[Slot][c] \in Snapshots
        <5>1. journal.snapshots \in [Sessions -> [Checksums -> Snapshots \cup {None}]]
          BY <1>0 DEF Journals
        <5> QED BY <1>0, <2>6, <3>1, <5>1
      <4>2. journal.snapshots[Slot][c].items
              = PersistentBefore(journal.snapshots[Slot][c].nextIndex)
        BY <3>1 DEF DInv, ItemsInv, CursorItems
      <4>3. PICK snapshot \in Snapshots : snapshot = journal.snapshots[Slot][c]
        BY <4>1
      <4>4. snapshot.nextIndex \in Cursors /\ snapshot.items \in SUBSET Items
        BY DEF Snapshots
      <4>5. OnSaveContext(c, snapshot.nextIndex, TRUE, snapshot.items)
        BY <3>1, <4>3
      <4>6. snapshot.items = PersistentBefore(snapshot.nextIndex)
        BY <4>2, <4>3
      <4> QED BY <2>5, <4>3, <4>4, <4>5, <4>6
    <3>2. CASE journal.snapshots[Slot][c] = None /\ OnSaveContext(c, 0, TRUE, {})
      <4>1. {} = PersistentBefore(0)
        BY SlotAssumption DEF PersistentBefore, Indices
      <4>2. 0 \in Cursors /\ {} \in SUBSET Items
        BY SlotAssumption DEF Cursors
      <4> QED BY <2>5, <3>2, <4>1, <4>2
    <3> QED BY <2>6, <3>1, <3>2
  <2> QED BY <2>0, <2>1, <2>2, <2>3, <2>4, <2>6 DEF ClientLine
<1> QED BY <1>1, <1>2, <1>3

LEMMA StartSteps ==
  ASSUME DInv, StartInstall \/ StartReset
  PROVE  Installed \/ ResetStarted
<1> USE DEF sessionVars, deliveryVars, journalVars, restoreVars, requestVars, feedVars
<1>1. ASSUME StartInstall PROVE Installed
  <2>1. PICK installed \in BOOLEAN : ReportResult(installed)
    BY <1>1 DEF StartInstall
  <2>2. /\ pc = "Start" /\ pc' = "Poll" /\ pending.kind = "Policies"
        /\ UNCHANGED <<gameVars, queueVars, recorded, seen, batch>>
    BY <1>1 DEF StartInstall
  <2>3. /\ pending' = NoRequest
        /\ UNCHANGED <<context, checksum, journal, disk, requestId, gameplayLoaded>>
        /\ InstallResult(installed)
    BY <2>1, <2>2 DEF ReportResult, InstallResult, ResetResult, ReplayResult, ItemResult
  <2>4. pending.name = Slot /\ session = None /\ journal = disk
    BY <2>2 DEF DInv, IInv, SlotInv, RequestInv, RequestMatchesRestore, JournalInv,
                AvailableMeansDurable
  <2> QED BY <2>2, <2>3, <2>4 DEF InstallResult, Installed
<1>2. ASSUME StartReset PROVE ResetStarted
  <2>1. PICK ready \in BOOLEAN, queued \in BOOLEAN :
             /\ ready => queued
             /\ tasks' = IF queued THEN Append(tasks, ResetTask) ELSE tasks
             /\ ReportResult(ready)
    BY <1>2 DEF StartReset, ResetTask
  <2>2. /\ pc = "Start" /\ pc' = "Poll" /\ pending.kind = "Reset"
        /\ UNCHANGED <<gameVars, live, observed, events, recorded, seen, batch>>
    BY <1>2 DEF StartReset
  <2>3. /\ pending' = NoRequest
        /\ UNCHANGED <<context, checksum, journal, disk, requestId, gameplayLoaded>>
        /\ ResetResult(ready)
    BY <2>1, <2>2 DEF ReportResult, InstallResult, ResetResult, ReplayResult, ItemResult
  <2>4. restore.state = "NeedsReset"
        /\ restore \in [state : RestoreStates, items : SUBSET Items]
    BY <2>2 DEF DInv, IInv, RequestInv, RequestMatchesRestore, DataTypeOK
  <2>5. CASE ready
    <3>1. restore'.state = "Replaying" /\ restore'.items = restore.items
      BY <2>3, <2>4, <2>5 DEF ResetResult
    <3>2. tasks' = Append(tasks, ResetTask)
      BY <2>1, <2>5
    <3> QED BY <2>2, <2>3, <2>4, <3>1, <3>2 DEF ResetResult, ResetStarted
  <2>6. CASE ~ready
    <3>1. restore' = restore
      BY <2>3, <2>4, <2>6 DEF ResetResult
    <3>2. tasks' = Append(tasks, ResetTask) \/ tasks' = tasks
      BY <2>1
    <3> QED BY <2>2, <2>3, <2>4, <3>1, <3>2 DEF ResetResult, ResetStarted
  <2> QED BY <2>5, <2>6
<1> QED BY <1>1, <1>2
LEMMA EventSteps ==
  ASSUME DInv, ProcessEvent
  PROVE  \/ \E c \in Checksums : LoadHeard(c) \/ WriteHeard(c)
         \/ EventIgnored \/ ItemAnswered \/ ReplayAnswered
<1> USE DEF sessionVars, deliveryVars, journalVars, restoreVars, requestVars, feedVars
<1> DEFINE event == Head(batch)
<1>0. /\ batch \in Seq(Events) /\ events \in Seq(Events)
      /\ session \in {None, Slot}
  BY DEF DInv, DeliveryTypeOK, SlotInv
<1>1. /\ pc = "Events" /\ batch # <<>> /\ batch' = Tail(batch)
      /\ UNCHANGED <<gameVars, queueVars, pc, seen>>
  BY DEF ProcessEvent
<1>2. /\ Q # <<>> /\ Q' = Tail(Q) /\ Q[1] = event /\ event \in Events
  BY <1>0, <1>1, QueueLemma, EventTypes, TailLemma DEF Q, queueVars
<1>3. \/ event.kind = "SaveLoaded" /\ SaveLoaded(event.checksum) /\ UNCHANGED recorded
      \/ /\ event.kind = "SaveWritten"
         /\ SaveWritten(event.checksum) \/ IgnoreSaveWritten
         /\ recorded' = RecordedAfter(event.checksum)
      \/ /\ event.kind = "RequestCompleted"
         /\ CompleteRequest(event.id, event.applied) /\ UNCHANGED recorded
  BY DEF ProcessEvent
<1> HIDE DEF event
<1>4. UNCHANGED <<session, requestId, gameplayLoaded>> => EventTurn
  BY <1>1, <1>2 DEF EventTurn
<1>5. CASE event.kind = "SaveLoaded" /\ SaveLoaded(event.checksum) /\ UNCHANGED recorded
  <2>1. event.checksum \in Checksums /\ event = LoadedEvent(event.checksum)
    BY <1>2, <1>5, EventCases DEF IsLoad, IsWritten, IsCompletion
  <2>2. LoadHeard(event.checksum)
    BY <1>2, <1>4, <1>5, <2>1 DEF SaveLoaded, LoadHeard
  <2> QED BY <2>1, <2>2
<1>6. CASE /\ event.kind = "SaveWritten"
           /\ SaveWritten(event.checksum) \/ IgnoreSaveWritten
           /\ recorded' = RecordedAfter(event.checksum)
  <2>1. event.checksum \in Checksums /\ event = WrittenEvent(event.checksum) /\ IsWritten(event)
    BY <1>2, <1>6, EventCases DEF IsLoad, IsWritten, IsCompletion
  <2>2. CASE IgnoreSaveWritten
    <3>1. disk' = disk /\ journal' = journal /\ Still /\ ~Ready(context)
      BY <2>2 DEF IgnoreSaveWritten, Still
    <3>2. recorded' = recorded
      BY <1>6, <3>1 DEF RecordedAfter
    <3> QED BY <1>2, <1>4, <2>1, <3>1, <3>2 DEF EventIgnored, Still
  <2>3. CASE SaveWritten(event.checksum)
    <3>1. PICK c \in Checksums : c = event.checksum
      BY <2>1
    <3>2. /\ Ready(context) /\ context' = "ActiveRevision" /\ checksum' = c
          /\ UNCHANGED <<session, nextIndex, persistentItems, restore, saveLoadPending,
                         pending, requestId, gameplayLoaded>>
      BY <2>3, <3>1 DEF SaveWritten
    <3>3. \/ recorded' = recorded
          \/ disk' # disk /\ recorded' = recorded \cup {c} /\ Known(saves[c])
      BY <1>6, <3>1 DEF RecordedAfter
    <3>4. \/ UNCHANGED <<journal, disk>>
          \/ /\ session = Slot /\ journal = disk
             /\ journal' = Record(journal, Slot, c, nextIndex, persistentItems)
             /\ disk' = disk \/ disk' = journal'
      <4>1. CASE session = None \/ ~available
        BY <2>3, <4>1 DEF SaveWritten
      <4>2. CASE session # None /\ available
        <5>1. journal = disk
          BY <4>2 DEF DInv, IInv, JournalInv, AvailableMeansDurable
        <5> QED BY <1>0, <2>3, <3>1, <4>2, <5>1 DEF SaveWritten, Persist
      <4>3. (session = None \/ ~available) \/ (session # None /\ available)
        OBVIOUS
      <4> QED BY <4>1, <4>2, <4>3
    <3>5. Q[1] = WrittenEvent(c) /\ EventTurn
      BY <1>2, <1>4, <2>1, <3>1, <3>2
    <3>6. WriteHeard(c)
      <4>1. CASE UNCHANGED <<journal, disk>>
        BY <3>2, <3>3, <3>5, <4>1 DEF WriteHeard
      <4>2. CASE /\ session = Slot /\ journal = disk
                 /\ journal' = Record(journal, Slot, c, nextIndex, persistentItems)
                 /\ disk' = disk \/ disk' = journal'
        BY <3>2, <3>3, <3>5, <4>2 DEF WriteHeard
      <4> QED BY <3>4, <4>1, <4>2
    <3> QED BY <3>6
  <2> QED BY <1>6, <2>2, <2>3
<1>7. CASE /\ event.kind = "RequestCompleted"
           /\ CompleteRequest(event.id, event.applied) /\ UNCHANGED recorded
  <2>1. /\ event = CompletedEvent(event.id, TRUE) \/ event = CompletedEvent(event.id, FALSE)
        /\ IsCompletion(event)
    BY <1>2, <1>7, EventCases DEF IsLoad, IsWritten, IsCompletion
  <2>2. CASE IgnoreCompletion(event.id)
    <3>1. disk' = disk /\ journal' = journal /\ Still /\ ~AnswersPending(event.id)
      BY <2>2 DEF IgnoreCompletion, Still
    <3> QED BY <1>2, <1>4, <1>7, <2>1, <3>1 DEF EventIgnored, Still, IsWork, AnswersPending
  <2>3. CASE AnswersPending(event.id) /\ ReportResult(event.applied)
    <3>1. /\ pending.kind \in {"Item", "Replay"} /\ event.id = requestId
          /\ pending' = NoRequest
          /\ UNCHANGED <<context, checksum, journal, disk, requestId, gameplayLoaded>>
          /\ ItemResult(event.applied) \/ ReplayResult(event.applied)
      BY <2>3 DEF AnswersPending, ReportResult, InstallResult, ResetResult
    <3>2. \/ event = CompletedEvent(requestId, TRUE) /\ event.applied
          \/ event = CompletedEvent(requestId, FALSE) /\ ~event.applied
      BY <2>1, <3>1, AppliedFact
    <3>3. /\ pending.kind = "Item" => pending.index = nextIndex
          /\ pending.kind = "Replay" => restore.state = "Replaying"
          /\ restore \in [state : RestoreStates, items : SUBSET Items]
      BY DEF DInv, IInv, RequestInv, PendingItemIsNext, RequestMatchesRestore, DataTypeOK
    <3>4. CASE ItemResult(event.applied)
      <4>1. pending.kind = "Item" /\ UNCHANGED <<session, restore, saveLoadPending>>
        BY <3>4 DEF ItemResult
      <4>2. CASE event = CompletedEvent(requestId, TRUE) /\ event.applied
        <5>1. /\ nextIndex' = nextIndex + 1
              /\ persistentItems' = persistentItems \cup ({pending.name} \cap PersistentItems)
          BY <3>3, <3>4, <4>1, <4>2 DEF ItemResult
        <5> QED BY <1>2, <1>4, <1>7, <3>1, <4>1, <4>2, <5>1 DEF ItemAnswered
      <4>3. CASE event = CompletedEvent(requestId, FALSE) /\ ~event.applied
        <5>1. UNCHANGED <<nextIndex, persistentItems>>
          BY <3>4, <4>3 DEF ItemResult
        <5> QED BY <1>2, <1>4, <1>7, <3>1, <4>1, <4>3, <5>1 DEF ItemAnswered
      <4> QED BY <3>2, <4>2, <4>3
    <3>5. CASE ReplayResult(event.applied)
      <4>1. /\ pending.kind = "Replay"
            /\ UNCHANGED <<session, nextIndex, persistentItems, saveLoadPending>>
        BY <3>5 DEF ReplayResult
      <4>2. CASE event = CompletedEvent(requestId, TRUE) /\ event.applied
        <5>1. \/ restore.items \ {pending.name} = {} /\ restore' = NoRestore
              \/ /\ restore'.state = "Replaying"
                 /\ restore'.items = restore.items \ {pending.name}
          <6>1. restore' = IF restore.items \ {pending.name} = {} THEN NoRestore
                           ELSE [restore EXCEPT !.items = restore.items \ {pending.name}]
            BY <3>5, <4>2 DEF ReplayResult
          <6> QED BY <3>3, <4>1, <6>1
        <5> QED BY <1>2, <1>4, <1>7, <3>1, <3>3, <4>1, <4>2, <5>1 DEF ReplayAnswered
      <4>3. CASE event = CompletedEvent(requestId, FALSE) /\ ~event.applied
        <5>1. restore'.state = "Failed"
          BY <3>5, <4>3 DEF ReplayResult
        <5> QED BY <1>2, <1>4, <1>7, <3>1, <3>3, <4>1, <4>3, <5>1 DEF ReplayAnswered
      <4> QED BY <3>2, <4>2, <4>3
    <3> QED BY <3>1, <3>4, <3>5
  <2> QED BY <1>7, <2>2, <2>3 DEF CompleteRequest
<1> QED BY <1>3, <1>5, <1>6, <1>7

LEMMA WorldSteps ==
  ASSUME DInv, UpdateWorld
  PROVE  WorldLeft \/ WorldEntered \/ WorldKept
<1> USE DEF sessionVars, deliveryVars, journalVars, restoreVars, requestVars, feedVars
<1>0. /\ pc = "Events" /\ pc' = "Poll" /\ batch = <<>>
      /\ UpdateReadiness(seen = "MainMenu", IsLoaded(seen))
      /\ menuPolled' = IF menuPolled = "Read" THEN "Yes" ELSE menuPolled
      /\ UNCHANGED <<mode, world, saves, held, events, tasks, recorded, seen, batch>>
  BY DEF UpdateWorld
<1>1. /\ gameplayLoaded' = IsLoaded(seen)
      /\ UNCHANGED <<session, journal, disk, requestId>>
  BY <1>0 DEF UpdateReadiness
<1>2. WorldTurn
  <2>1. gameplayLoaded' <=> IsLoaded(seen)
    BY <1>1 DEF IsLoaded
  <2>2. \/ gameplayLoaded /\ ~IsLoaded(seen) /\ live' = live + 1 /\ observed' = live + 1
        \/ ~(gameplayLoaded /\ ~IsLoaded(seen)) /\ UNCHANGED <<live, observed>>
    BY DEF UpdateWorld
  <2> HIDE DEF UpdateReadiness
  <2> QED BY <1>0, <1>1, <2>1, <2>2 DEF WorldTurn
<1>3. seen = "MainMenu" => ~IsLoaded(seen)
  BY DEF IsLoaded
<1> DEFINE stillLoading == IF IsLoaded(seen) /\ context # "AwaitingCursor"
                           THEN FALSE ELSE saveLoadPending
<1>4. saveLoadPending' = stillLoading
  BY <1>0 DEF UpdateReadiness
<1>5. CASE EndsWorld(seen = "MainMenu", stillLoading)
  <2>1. seen = "MainMenu" /\ ~stillLoading /\ context # "Waiting"
    BY <1>5 DEF EndsWorld
  <2>2. stillLoading = saveLoadPending
    BY <1>3, <2>1
  <2>3. /\ context' = "Waiting" /\ checksum' = None /\ nextIndex' = 0
        /\ pending' = CancelGameplayRequest(pending)
        /\ persistentItems' = {}
        /\ restore' = IF session # None
                      THEN [state |-> "NeedsReset", items |-> {}] ELSE NoRestore
    BY <1>0, <1>5 DEF UpdateReadiness
  <2> QED BY <1>2, <1>4, <2>1, <2>2, <2>3 DEF WorldLeft, Ending
<1>6. CASE /\ context = "Waiting" /\ context' = "Provisional"
           /\ UNCHANGED <<checksum, nextIndex, pending, persistentItems, restore>>
  BY <1>2, <1>6 DEF WorldEntered
<1>7. CASE UNCHANGED <<deliveryVars, pending, persistentItems, restore>>
  BY <1>2, <1>4, <1>7 DEF WorldKept
<1> QED BY <1>0, <1>5, <1>6, <1>7 DEF UpdateReadiness
-----------------------------------------------------------------------------
\* The composed system does nothing to the runtime that the runtime's own
\* environment may not do, so what is proved of the runtime holds in it.

LEMMA ProcessEventRuns ==
  ASSUME DInv, ProcessEvent
  PROVE  Next
<1>0. /\ batch \in Seq(Events) /\ events \in Seq(Events) /\ batch # <<>>
      /\ requestId \in 0..MaxRequests /\ MaxRequests \in Nat
  BY BoundsAssumption DEF DInv, DeliveryTypeOK, IInv, DataTypeOK, ProcessEvent
<1>1. PICK event \in Events : event = Head(batch)
  BY <1>0, TailLemma
<1>2. event = Q[1] /\ 1 \in DOMAIN Q
  BY <1>0, <1>1, QueueLemma, EventTypes, TailLemma DEF Q
<1>3. CASE event.kind = "SaveLoaded" /\ SaveLoaded(event.checksum)
  BY <1>3, EventCases DEF IsLoad, IsWritten, IsCompletion, Next, GameReports
<1>4. CASE event.kind = "SaveWritten" /\ (SaveWritten(event.checksum) \/ IgnoreSaveWritten)
  BY <1>4, EventCases DEF IsLoad, IsWritten, IsCompletion, Next, GameReports
<1>5. CASE event.kind = "RequestCompleted" /\ CompleteRequest(event.id, event.applied)
  <2>1. /\ IsCompletion(event)
        /\ event = CompletedEvent(event.id, TRUE) \/ event = CompletedEvent(event.id, FALSE)
    BY <1>5, EventCases DEF IsLoad, IsWritten, IsCompletion
  <2>2. event.id \in 0..requestId
    BY <1>2, <2>1 DEF DInv, IdInv, IdsFit
  <2>3. event.id \in 0..MaxRequests /\ event.id <= requestId
    BY <1>0, <2>2
  <2>4. event.applied = TRUE \/ event.applied = FALSE
    <3>1. CompletedEvent(event.id, TRUE).applied = TRUE
      BY Zenon DEF CompletedEvent
    <3>2. CompletedEvent(event.id, FALSE).applied = FALSE
      BY Zenon DEF CompletedEvent
    <3>3. CASE event = CompletedEvent(event.id, TRUE)
      <4>1. event.applied = CompletedEvent(event.id, TRUE).applied
        BY Zenon, <3>3
      <4> QED BY Zenon, <3>1, <4>1
    <3>4. CASE event = CompletedEvent(event.id, FALSE)
      <4>1. event.applied = CompletedEvent(event.id, FALSE).applied
        BY Zenon, <3>4
      <4> QED BY Zenon, <3>2, <4>1
    <3> QED BY <2>1, <3>3, <3>4
  <2>5. event.applied \in BOOLEAN
    BY <2>4
  <2>6. Results
    BY <1>5, <2>3, <2>5 DEF Results
  <2> QED BY <2>6 DEF Next
<1> QED BY <1>1, <1>3, <1>4, <1>5 DEF ProcessEvent

LEMMA HandleLineRuns ==
  ASSUME DInv, HandleLine
  PROVE  Next
<1>0. /\ Slot \in Sessions /\ MaxIndex \in Nat /\ journal \in Journals
      /\ \A i \in Indices : i \in Cursors /\ Inventory[i] \in Items
  BY DeliveryAssumption, SlotAssumption DEF Indices, Cursors, DInv, IInv, DataTypeOK
<1>1. ClientLine
  BY DEF HandleLine
<1>2. CASE Connected \/ Disconnected \/ OnSessionEnd
  BY <1>2 DEF Next, ClientEvents
<1>3. CASE OnSessionReady(Slot, TRUE)
  BY <1>0, <1>3 DEF Next, ClientEvents
<1>4. ASSUME NEW i \in Indices, OnItem(i, Inventory[i], seen = "Interactive")
      PROVE  Next
  <2>1. (seen = "Interactive") \in BOOLEAN
    OBVIOUS
  <2>2. PICK b \in BOOLEAN : OnItem(i, Inventory[i], b)
    BY <1>4, <2>1
  <2> QED BY <1>0, <2>2 DEF Next, ClientEvents
<1>5. ASSUME NEW c \in Checksums, NEW snapshot, snapshot = journal.snapshots[Slot][c],
             \/ snapshot # None /\ OnSaveContext(c, snapshot.nextIndex, TRUE, snapshot.items)
             \/ snapshot = None /\ OnSaveContext(c, 0, TRUE, {})
      PROVE  Next
  <2>1. 0 \in Cursors /\ {} \in SUBSET Items
    BY <1>0 DEF Cursors
  <2>2. snapshot # None => snapshot \in Snapshots
    BY <1>0, <1>5 DEF Journals
  <2>3. snapshot # None => snapshot.nextIndex \in Cursors /\ snapshot.items \in SUBSET Items
    BY <2>2 DEF Snapshots
  <2>4. ASSUME NEW n \in Cursors, NEW items \in SUBSET Items, OnSaveContext(c, n, TRUE, items)
        PROVE  Next
    BY <2>4 DEF Next, ClientEvents
  <2> QED BY <1>5, <2>1, <2>3, <2>4
<1>6. ASSUME NEW c \in Checksums, journal.pending[Slot][c] # None,
             OnSaveRevisionAck(c, journal.pending[Slot][c], TRUE)
      PROVE  Next
  <2>1. journal.pending[Slot][c] \in Cursors
    BY <1>0, <1>6 DEF Journals
  <2> QED BY <1>6, <2>1 DEF Next, ClientEvents
<1> QED BY <1>1, <1>2, <1>3, <1>4, <1>5, <1>6 DEF ClientLine

LEMMA UpdateWorldRuns ==
  ASSUME DInv, UpdateWorld
  PROVE  Next
<1>0. UpdateReadiness(seen = "MainMenu", IsLoaded(seen)) /\ seen \in Modes
  BY DEF UpdateWorld, DInv, DeliveryTypeOK
<1>1. CASE seen = "MainMenu"
  <2>1. (seen = "MainMenu") = TRUE /\ IsLoaded(seen) = FALSE
    BY <1>1 DEF IsLoaded
  <2>2. UpdateReadiness(TRUE, FALSE)
    BY <1>0, <2>1
  <2> QED BY <2>2 DEF Next, GameReports
<1>2. CASE seen = "Loading"
  <2>1. (seen = "MainMenu") = FALSE /\ IsLoaded(seen) = FALSE
    BY <1>2 DEF IsLoaded
  <2>2. UpdateReadiness(FALSE, FALSE)
    BY <1>0, <2>1
  <2> QED BY <2>2 DEF Next, GameReports
<1>3. CASE seen \in {"Ready", "Interactive"}
  <2>1. (seen = "MainMenu") = FALSE /\ IsLoaded(seen) = TRUE
    BY <1>3 DEF IsLoaded
  <2>2. UpdateReadiness(FALSE, TRUE)
    BY <1>0, <2>1
  <2> QED BY <2>2 DEF Next, GameReports
<1> QED BY <1>0, <1>1, <1>2, <1>3 DEF Modes

LEMMA DeliveryRuns ==
  ASSUME DInv, [DNext]_deliveryAll
  PROVE  [Next]_vars
<1>1. CASE UNCHANGED deliveryAll
  BY <1>1 DEF deliveryAll
<1>2. CASE GameThread
  BY <1>2 DEF GameThread, LoadSave, SaveGame, NewGame, FinishLoading, GainControl,
              LoseControl, QuitToMenu, RunReset, RunItem
<1>3. CASE ReadContext \/ DrainQueue \/ RequestPending \/ StartItem
  BY <1>3 DEF ReadContext, DrainQueue, RequestPending, StartItem
<1>4. CASE ProcessEvent \/ UpdateWorld \/ HandleLine
  BY <1>4, ProcessEventRuns, UpdateWorldRuns, HandleLineRuns
<1>5. CASE AskForRequest
  <2>1. NextRequest(seen = "Interactive")
    BY <1>5 DEF AskForRequest
  <2>2. (seen = "Interactive") \in BOOLEAN
    OBVIOUS
  <2>3. PICK b \in BOOLEAN : NextRequest(b)
    BY <2>1, <2>2
  <2> QED BY <2>3 DEF Next
<1>6. CASE NoMoreLines \/ Crash
  BY <1>6 DEF NoMoreLines, Crash, Next
<1>7. CASE StartInstall
  <2>1. pending.kind = "Policies" /\ \E b \in BOOLEAN : ReportResult(b)
    BY <1>7 DEF StartInstall
  <2>2. Results
    BY <2>1 DEF Results
  <2> QED BY <2>2 DEF Next
<1>8. CASE StartReset
  <2>1. pending.kind = "Reset" /\ \E b \in BOOLEAN : ReportResult(b)
    BY <1>8 DEF StartReset
  <2>2. Results
    BY <2>1 DEF Results
  <2> QED BY <2>2 DEF Next
<1> QED BY <1>1, <1>2, <1>3, <1>4, <1>5, <1>6, <1>7, <1>8 DEF DNext, PluginThread

-----------------------------------------------------------------------------
\* What the steps of the game thread do to the queue.

TaskApplied(task) ==
  /\ tasks # <<>> /\ task = tasks[1] /\ IsWork(task) /\ tasks' = Tail(tasks)
  /\ task.epoch = live /\ world.applied[task.index] < 2 /\ world' = Applied(world, task)
  /\ held' = IF task.name \in PersistentItems THEN held \cup {task.name} ELSE held
  /\ events' = Append(events, CompletedEvent(task.id, TRUE))
  /\ Q' = Append(Q, CompletedEvent(task.id, TRUE))
  /\ UNCHANGED <<vars, mode, saves, menuPolled, recorded, live, observed, loopVars>>

TaskDropped(task) ==
  /\ tasks # <<>> /\ task = tasks[1] /\ IsWork(task) /\ tasks' = Tail(tasks)
  /\ events' = Append(events, CompletedEvent(task.id, FALSE))
  /\ Q' = Append(Q, CompletedEvent(task.id, FALSE))
  /\ UNCHANGED <<vars, mode, world, saves, held, menuPolled, recorded, live, observed,
                 loopVars>>

LEMMA QueueGrows ==
  ASSUME DeliveryTypeOK, NEW e \in Events, events' = Append(events, e), batch' = batch
  PROVE  Q' = Append(Q, e)
BY QueueLemma DEF Q, DeliveryTypeOK

LEMMA QueueType ==
  ASSUME DeliveryTypeOK
  PROVE  Q \in Seq(Events) /\ Len(Q) \in Nat /\ DOMAIN Q = 1..Len(Q)
<1>1. Q \in Seq(Events)
  BY DEF Q, DeliveryTypeOK
<1> QED BY <1>1

LEMMA QueueKept ==
  /\ UNCHANGED <<batch, events>> => Q' = Q
  /\ DeliveryTypeOK /\ DrainQueue /\ LoopInv => Q' = Q
<1>1. UNCHANGED <<batch, events>> => Q' = Q
  BY DEF Q
<1>2. ASSUME DeliveryTypeOK, DrainQueue, LoopInv PROVE Q' = Q
  <2>1. batch = <<>> /\ events \in Seq(Events) /\ batch' = events /\ events' = <<>>
    BY <1>2 DEF DeliveryTypeOK, DrainQueue, LoopInv
  <2> QED BY <2>1 DEF Q
<1> QED BY <1>1, <1>2

LEMMA RunItemSteps ==
  ASSUME DeliveryTypeOK, RunItem
  PROVE  \E task \in Tasks : TaskApplied(task) \/ TaskDropped(task)
<1>1. /\ tasks \in Seq(Tasks) /\ tasks # <<>> /\ Head(tasks).kind \in {"Item", "Replay"}
      /\ tasks' = Tail(tasks)
      /\ UNCHANGED <<vars, mode, saves, menuPolled, recorded, live, observed, loopVars>>
  BY DEF DeliveryTypeOK, RunItem
<1>2. PICK task \in Tasks : task = Head(tasks) /\ task = tasks[1]
  BY <1>1
<1>3. IsWork(task) /\ task.id \in Nat
  BY <1>1, <1>2 DEF IsWork, Tasks
<1>4. batch' = batch
  BY <1>1 DEF loopVars
<1>5. CompletedEvent(task.id, TRUE) \in Events /\ CompletedEvent(task.id, FALSE) \in Events
  BY <1>3, EventTypes
<1>6. CASE /\ task.epoch = live /\ world.applied[task.index] < 2
           /\ world' = Applied(world, task)
           /\ held' = IF task.name \in PersistentItems THEN held \cup {task.name} ELSE held
           /\ events' = Append(events, CompletedEvent(task.id, TRUE))
  <2>1. Q' = Append(Q, CompletedEvent(task.id, TRUE))
    BY <1>4, <1>5, <1>6, QueueGrows
  <2> QED BY <1>1, <1>2, <1>3, <1>6, <2>1 DEF TaskApplied
<1>7. CASE /\ events' = Append(events, CompletedEvent(task.id, FALSE))
           /\ UNCHANGED <<world, held>>
  <2>1. Q' = Append(Q, CompletedEvent(task.id, FALSE))
    BY <1>4, <1>5, <1>7, QueueGrows
  <2> QED BY <1>1, <1>2, <1>3, <1>7, <2>1 DEF TaskDropped
<1> QED BY <1>2, <1>6, <1>7 DEF RunItem, CanApply
-----------------------------------------------------------------------------
\* Worlds.

LEMMA WorldType ==
  ASSUME NEW f \in [Indices -> 0..2], NEW c \in Checksums \cup {None}, NEW b \in BOOLEAN
  PROVE  [applied |-> f, from |-> c, fresh |-> b] \in Worlds
BY Zenon DEF Worlds

LEMMA NoWorldFacts ==
  /\ NoWorld \in Worlds /\ NoWorld.from = None /\ ~NoWorld.fresh /\ NoWorld.applied = First(0)
  /\ NoWorld # None
<1>1. NoWorld.applied = First(0)
  BY DEF NoWorld, First, Indices
<1>2. NoWorld.from = None /\ NoWorld.fresh = FALSE
  BY DEF NoWorld
<1>3. NoWorld \in Worlds
  BY DEF NoWorld, Worlds
<1> QED BY <1>1, <1>2, <1>3, NoSaveAssumption

LEMMA LoadedFactsOfWorld ==
  ASSUME NEW v \in Worlds, NEW c \in Checksums, NEW w,
         w = [applied |-> v.applied, from |-> c, fresh |-> FALSE]
  PROVE  w \in Worlds /\ w.applied = v.applied /\ w.from = c /\ ~w.fresh
<1>1. w.fresh = FALSE /\ w.from = c /\ w.applied = v.applied
  OBVIOUS
<1>2. w \in Worlds
  BY DEF Worlds
<1> QED BY <1>1, <1>2

LEMMA NewWorldFacts ==
  ASSUME NEW w, w = [NoWorld EXCEPT !.fresh = (context = "Waiting")]
  PROVE  /\ w \in Worlds /\ w.applied = First(0) /\ w.from = None
         /\ w.fresh <=> context = "Waiting"
<1>1. w = [applied |-> [i \in Indices |-> 0], from |-> None, fresh |-> (context = "Waiting")]
  BY DEF NoWorld
<1>2. w.fresh = (context = "Waiting")
  BY <1>1
<1>3. w.from = None /\ w.applied = First(0)
  BY <1>1 DEF First, Indices
<1>4. PICK b \in BOOLEAN : b = (context = "Waiting")
  OBVIOUS
<1>a. [i \in Indices |-> 0] \in [Indices -> 0..2]
  <2>1. 0 \in 0..2
    OBVIOUS
  <2> QED BY <2>1, Zenon
<1>5. PICK f \in [Indices -> 0..2] : f = [i \in Indices |-> 0]
  BY <1>a
<1>6. w = [applied |-> f, from |-> None, fresh |-> b]
  BY <1>1, <1>4, <1>5
<1>7. w \in Worlds
  <2>1. None \in Checksums \cup {None}
    OBVIOUS
  <2>2. [applied |-> f, from |-> None, fresh |-> b] \in Worlds
    BY <2>1, WorldType, Zenon
  <2> QED BY <1>6, <2>2, Zenon
<1> QED BY <1>2, <1>3, <1>7

LEMMA AppliedFacts ==
  ASSUME NEW v \in Worlds, NEW task \in Tasks, NEW w, w = Applied(v, task)
  PROVE  /\ task.kind # "Item" => w = v
         /\ task.kind = "Item" => w.applied = [v.applied EXCEPT ![task.index] = @ + 1]
         /\ w.from = v.from /\ (w.fresh <=> v.fresh)
         /\ v.applied[task.index] < 2 => w \in Worlds
<1>1. CASE task.kind # "Item"
  BY <1>1 DEF Applied
<1>2. CASE task.kind = "Item"
  <2>1. w = [v EXCEPT !.applied[task.index] = @ + 1] /\ task.index \in Indices
    BY <1>2 DEF Applied, Tasks
  <2>2. PICK f, g : f = v.applied /\ g = [f EXCEPT ![task.index] = @ + 1]
    OBVIOUS
  <2>3. v = [applied |-> f, from |-> v.from, fresh |-> v.fresh]
    BY Zenon, <2>2 DEF Worlds
  <2>4. w = [applied |-> g, from |-> v.from, fresh |-> v.fresh]
    BY <2>1, <2>2, <2>3
  <2>5. w.applied = g /\ w.from = v.from /\ w.fresh = v.fresh
    BY <2>4
  <2>6. ASSUME v.applied[task.index] < 2 PROVE w \in Worlds
    <3>1. f \in [Indices -> 0..2] /\ v.from \in Checksums \cup {None} /\ v.fresh \in BOOLEAN
      BY <2>2 DEF Worlds
    <3>2. g \in [Indices -> 0..2]
      BY <2>1, <2>2, <2>6, <3>1
    <3> QED BY <2>4, <3>1, <3>2 DEF Worlds
  <2> QED BY <1>2, <2>2, <2>5, <2>6
<1> QED BY <1>1, <1>2
-----------------------------------------------------------------------------
\* Every step is one of these.

PendingTask == [kind |-> pending.kind, index |-> pending.index, name |-> pending.name,
                id |-> requestId, epoch |-> observed]
TaskQueued ==
  /\ pc = "Start" /\ pc' = "Poll" /\ IsWork(pending)
  /\ tasks' = Append(tasks, PendingTask)
  /\ UNCHANGED <<vars, gameVars, live, observed, events, recorded, seen, batch>>
StartRefused ==
  /\ pc = "Start" /\ pc' = "Poll" /\ IsWork(pending)
  /\ events' = Append(events, CompletedEvent(requestId, FALSE))
  /\ Q' = Append(Q, CompletedEvent(requestId, FALSE))
  /\ UNCHANGED <<vars, gameVars, live, observed, tasks, recorded, seen, batch>>

LEMMA StartItemSteps ==
  ASSUME DInv, StartItem
  PROVE  (TaskQueued /\ Q' = Q) \/ StartRefused
<1>0. DeliveryTypeOK /\ requestId \in Nat
  BY BoundsAssumption DEF DInv, IInv, DataTypeOK
<1>1. /\ pc = "Start" /\ pc' = "Poll" /\ IsWork(pending)
      /\ UNCHANGED <<vars, gameVars, live, observed, recorded, seen, batch>>
  BY DEF StartItem, IsWork
<1>2. CASE tasks' = Append(tasks, PendingTask) /\ UNCHANGED events
  BY <1>1, <1>2, QueueKept DEF TaskQueued
<1>3. CASE events' = Append(events, CompletedEvent(requestId, FALSE)) /\ UNCHANGED tasks
  BY <1>0, <1>1, <1>3, QueueGrows, EventTypes DEF StartRefused
<1> QED BY <1>2, <1>3 DEF StartItem, PendingTask, EpochOfCompletion

LEMMA StepCases ==
  ASSUME DInv, [DNext]_deliveryAll
  PROVE  \/ \E c \in Checksums : LoadSave(c) /\ Q' = Append(Q, LoadedEvent(c))
         \/ \E c \in Checksums : SaveGame(c) /\ Q' = Append(Q, WrittenEvent(c))
         \/ \E task \in Tasks : TaskApplied(task) \/ TaskDropped(task)
         \/ NewGame /\ Q' = Q
         \/ QuitToMenu /\ Q' = Q
         \/ (FinishLoading \/ GainControl \/ LoseControl) /\ Q' = Q
         \/ RunReset /\ Q' = Q
         \/ ReadContext /\ Q' = Q
         \/ DrainQueue /\ Q' = Q
         \/ \E c \in Checksums : LoadHeard(c)
         \/ \E c \in Checksums : WriteHeard(c)
         \/ EventIgnored
         \/ ItemAnswered
         \/ ReplayAnswered
         \/ WorldLeft /\ Q' = Q
         \/ WorldEntered /\ Q' = Q
         \/ WorldKept /\ Q' = Q
         \/ QuietTurn /\ Q' = Q
         \/ EmptyReplay /\ Q' = Q
         \/ PoliciesHanded /\ Q' = Q
         \/ ResetHanded /\ Q' = Q
         \/ ReplayHanded /\ Q' = Q
         \/ ItemHanded /\ Q' = Q
         \/ CursorGiven /\ Q' = Q
         \/ Installed /\ Q' = Q
         \/ ResetStarted /\ Q' = Q
         \/ TaskQueued /\ Q' = Q
         \/ StartRefused
         \/ Crash /\ Q' = <<>>
         \/ UNCHANGED deliveryAll /\ Q' = Q
<1>0. DeliveryTypeOK /\ LoopInv /\ requestId \in Nat
  BY BoundsAssumption DEF DInv, IInv, DataTypeOK
<1>1. CASE UNCHANGED deliveryAll
  BY <1>1, QueueKept DEF deliveryAll, queueVars, loopVars
<1>2. CASE \E c \in Checksums : LoadSave(c)
  BY <1>0, <1>2, QueueGrows, EventTypes DEF LoadSave, loopVars
<1>3. CASE \E c \in Checksums : SaveGame(c)
  BY <1>0, <1>3, QueueGrows, EventTypes DEF SaveGame, loopVars
<1>4. CASE RunItem
  BY <1>0, <1>4, RunItemSteps
<1>5. CASE NewGame \/ FinishLoading \/ GainControl \/ LoseControl \/ QuitToMenu \/ RunReset
  <2>1. UNCHANGED <<batch, events>>
    BY <1>5 DEF NewGame, FinishLoading, GainControl, LoseControl, QuitToMenu, RunReset,
                loopVars, queueVars
  <2> QED BY <1>5, <2>1, QueueKept
<1>6. CASE ReadContext \/ DrainQueue
  BY <1>0, <1>6, QueueKept DEF ReadContext, queueVars
<1>7. CASE ProcessEvent
  BY <1>7, EventSteps
<1>8. CASE UpdateWorld
  <2>1. UNCHANGED <<batch, events>>
    BY <1>8 DEF UpdateWorld
  <2> QED BY <1>8, <2>1, QueueKept, WorldSteps
<1>9. CASE AskForRequest \/ RequestPending \/ NoMoreLines \/ HandleLine
  <2>1. UNCHANGED <<batch, events>>
    BY <1>9 DEF AskForRequest, RequestPending, NoMoreLines, HandleLine, queueVars
  <2>2. QuietTurn \/ EmptyReplay \/ ResetHanded \/ ReplayHanded \/ PoliciesHanded
        \/ ItemHanded \/ CursorGiven
    BY <1>9, AskSteps, LineSteps
  <2> QED BY <2>1, <2>2, QueueKept
<1>10. CASE StartInstall \/ StartReset
  <2>1. UNCHANGED <<batch, events>>
    BY <1>10 DEF StartInstall, StartReset, queueVars
  <2> QED BY <1>10, <2>1, QueueKept, StartSteps
<1>11. CASE StartItem
  BY <1>11, StartItemSteps
<1>12. CASE Crash
  BY <1>12, QueueLemma DEF Crash, Q
<1> QED BY <1>1, <1>2, <1>3, <1>4, <1>5, <1>6, <1>7, <1>8, <1>9, <1>10, <1>11, <1>12
        DEF DNext, GameThread, PluginThread

LEMMA PendingTaskType ==
  ASSUME DInv, IsWork(pending)
  PROVE  PendingTask \in Tasks
<1>0. pending.kind \in {"Item", "Replay"} /\ requestId \in Nat /\ observed \in Nat
  BY BoundsAssumption DEF DInv, DeliveryTypeOK, IInv, DataTypeOK, IsWork
<1>1. /\ pending.kind = "Item" => pending.index \in Indices /\ pending.name = Inventory[pending.index]
      /\ pending.kind = "Replay" => pending.index = 0 /\ pending.name \in restore.items
      /\ restore.items \subseteq Items
  BY DEF DInv, ItemsInv, IInv, RequestInv, RequestMatchesRestore, DataTypeOK
<1>2. pending.index \in Indices /\ pending.name \in Items
  BY <1>0, <1>1, SlotAssumption, DeliveryAssumption DEF Indices
<1> QED BY <1>0, <1>2 DEF PendingTask, Tasks

LEMMA DeliveryTypeStep ==
  ASSUME DInv, [DNext]_deliveryAll
  PROVE  DeliveryTypeOK'
<1>0. /\ mode \in Modes /\ seen \in Modes
      /\ world \in Worlds /\ saves \in [Checksums -> Worlds \cup {None}]
      /\ held \subseteq Items /\ recorded \subseteq Checksums
      /\ menuPolled \in {"No", "Read", "Yes"}
      /\ live \in Nat /\ observed \in Nat
      /\ events \in Seq(Events) /\ batch \in Seq(Events) /\ tasks \in Seq(Tasks)
      /\ pc \in {"Read", "Drain", "Events", "Poll", "Start"}
      /\ requestId \in Nat
  BY BoundsAssumption DEF DInv, DeliveryTypeOK, IInv, DataTypeOK
<1> USE DEF gameVars, queueVars, loopVars
<1>1. CASE UNCHANGED deliveryAll
  BY <1>0, <1>1 DEF deliveryAll, DeliveryTypeOK
<1>2. ASSUME NEW c \in Checksums, LoadSave(c) PROVE DeliveryTypeOK'
  <2>1. saves[c] \in Worlds
    BY <1>0, <1>2 DEF LoadSave
  <2>2. world' \in Worlds
    BY <1>2, <2>1, LoadedFactsOfWorld DEF LoadSave
  <2>3. events' \in Seq(Events)
    BY <1>0, <1>2, EventTypes, AppendLemma DEF LoadSave
  <2> QED BY <1>0, <1>2, <2>2, <2>3 DEF LoadSave, DeliveryTypeOK, Modes
<1>3. ASSUME NEW c \in Checksums, SaveGame(c) PROVE DeliveryTypeOK'
  <2>1. saves' \in [Checksums -> Worlds \cup {None}]
    BY <1>0, <1>3 DEF SaveGame
  <2>2. events' \in Seq(Events)
    BY <1>0, <1>3, EventTypes, AppendLemma DEF SaveGame
  <2> QED BY <1>0, <1>3, <2>1, <2>2 DEF SaveGame, DeliveryTypeOK
<1>4. ASSUME NEW task \in Tasks, TaskApplied(task) PROVE DeliveryTypeOK'
  <2>1. task.name \in Items \cup {None} /\ task.id \in Nat /\ tasks' \in Seq(Tasks)
    BY <1>0, <1>4, TailLemma DEF TaskApplied, Tasks
  <2>2. world' \in Worlds
    BY <1>0, <1>4, AppliedFacts DEF TaskApplied
  <2>3. held' \subseteq Items
    BY <1>0, <1>4, SlotAssumption DEF TaskApplied
  <2>4. events' \in Seq(Events)
    BY <1>0, <1>4, <2>1, EventTypes, AppendLemma DEF TaskApplied
  <2> QED BY <1>0, <1>4, <2>1, <2>2, <2>3, <2>4 DEF TaskApplied, DeliveryTypeOK
<1>5. ASSUME NEW task \in Tasks, TaskDropped(task) PROVE DeliveryTypeOK'
  <2>1. task.id \in Nat /\ tasks' \in Seq(Tasks)
    BY <1>0, <1>5, TailLemma DEF TaskDropped, Tasks
  <2>2. events' \in Seq(Events)
    BY <1>0, <1>5, <2>1, EventTypes, AppendLemma DEF TaskDropped
  <2> QED BY <1>0, <1>5, <2>1, <2>2 DEF TaskDropped, DeliveryTypeOK
<1>6. CASE NewGame
  <2>1. world' \in Worlds
    BY <1>6, NewWorldFacts DEF NewGame
  <2> QED BY <1>0, <1>6, <2>1 DEF NewGame, DeliveryTypeOK, Modes
<1>7. CASE QuitToMenu \/ FinishLoading \/ GainControl \/ LoseControl
  BY <1>0, <1>7, NoWorldFacts
     DEF QuitToMenu, FinishLoading, GainControl, LoseControl, DeliveryTypeOK, Modes
<1>8. CASE RunReset
  <2>1. tasks' \in Seq(Tasks)
    BY <1>0, <1>8, TailLemma DEF RunReset
  <2> QED BY <1>0, <1>8, <2>1 DEF RunReset, DeliveryTypeOK
<1>9. CASE ReadContext \/ DrainQueue
  <2>1. CASE ReadContext
    BY <1>0, <2>1 DEF ReadContext, DeliveryTypeOK
  <2>2. CASE DrainQueue
    <3>1. events' \in Seq(Events)
      BY <2>2 DEF DrainQueue
    <3> QED BY <1>0, <2>2, <3>1 DEF DrainQueue, DeliveryTypeOK
  <2> QED BY <1>9, <2>1, <2>2
<1>10. CASE ProcessEvent
  <2>1. batch' \in Seq(Events) /\ UNCHANGED <<gameVars, queueVars, pc, seen>>
    BY <1>0, <1>10, TailLemma DEF ProcessEvent
  <2>2. recorded' \subseteq Checksums
    BY <1>0, <1>10, EventSteps DEF LoadHeard, WriteHeard, EventIgnored, ItemAnswered,
                                   ReplayAnswered
  <2> QED BY <1>0, <2>1, <2>2 DEF DeliveryTypeOK
<1>11. CASE UpdateWorld
  BY <1>0, <1>11 DEF UpdateWorld, DeliveryTypeOK
<1>12. CASE AskForRequest \/ RequestPending \/ NoMoreLines \/ HandleLine \/ StartInstall
  BY <1>0, <1>12 DEF AskForRequest, RequestPending, NoMoreLines, HandleLine, StartInstall,
                     DeliveryTypeOK
<1>13. CASE StartReset
  <2>1. ResetTask \in Tasks
    BY SlotAssumption DEF ResetTask, Tasks, Indices
  <2>2. tasks' \in Seq(Tasks)
    BY <1>0, <1>13, <2>1, AppendLemma DEF StartReset, ResetTask
  <2> QED BY <1>0, <1>13, <2>2 DEF StartReset, DeliveryTypeOK
<1>14. CASE StartItem
  <2>3. PendingTask \in Tasks
    BY <1>14, PendingTaskType DEF StartItem, IsWork
  <2>4. tasks' \in Seq(Tasks) /\ events' \in Seq(Events)
    <3>1. PICK e \in Events : e = CompletedEvent(requestId, FALSE)
      BY <1>0, EventTypes
    <3>2. \/ tasks' = Append(tasks, PendingTask) /\ events' = events
          \/ tasks' = tasks /\ events' = Append(events, CompletedEvent(requestId, FALSE))
      BY <1>14 DEF StartItem, PendingTask, EpochOfCompletion
    <3>3. Append(tasks, PendingTask) \in Seq(Tasks)
      BY <1>0, <2>3
    <3>4. Append(events, e) \in Seq(Events)
      BY <1>0, AppendLemma
    <3> QED BY <1>0, <3>1, <3>2, <3>3, <3>4
  <2> QED BY <1>0, <1>14, <2>4 DEF StartItem, DeliveryTypeOK
<1>15. CASE Crash
  BY <1>0, <1>15, NoWorldFacts DEF Crash, DeliveryTypeOK, Modes
<1> QED BY <1>1, <1>2, <1>3, <1>4, <1>5, <1>6, <1>7, <1>8, <1>9, <1>10, <1>11, <1>12,
           <1>13, <1>14, <1>15, RunItemSteps DEF DNext, GameThread, PluginThread, DInv
-----------------------------------------------------------------------------
\* FitInv: no step puts a tracked world out of step with the cursor.

LEMMA CursorKept ==
  ASSUME Q \in Seq(Events), Q' = Q, NEW k \in 1..(Len(Q) + 1), nextIndex' = nextIndex,
         \/ UNCHANGED <<pending, requestId>>
         \/ /\ ~(pending.kind = "Item" /\ Carried)
            /\ ~(pending'.kind = "Item" /\ Carried')
  PROVE  CursorAt(k)' = CursorAt(k)
<1>1. CASE UNCHANGED <<pending, requestId>>
  BY <1>1 DEF CursorAt, Answered, Answer
<1>2. CASE /\ ~(pending.kind = "Item" /\ Carried)
           /\ ~(pending'.kind = "Item" /\ Carried')
  <2>1. Before(Q, k, Answer) => Carried
    BY DEF Before, Carried
  <2>2. Before(Q', k, Answer') => Carried'
    BY DEF Before, Carried
  <2>3. ~Answered(k) /\ ~Answered(k)'
    BY <1>2, <2>1, <2>2 DEF Answered
  <2> QED BY <2>3 DEF CursorAt
<1> QED BY <1>1, <1>2

LEMMA FitSame ==
  ASSUME Q \in Seq(Events), FitInv, Q' = Q, nextIndex' = nextIndex,
         UNCHANGED <<world, saves, recorded>>,
         \/ UNCHANGED <<context, checksum>>
         \/ context # "AwaitingCursor" /\ context' # "AwaitingCursor",
         \/ UNCHANGED <<pending, requestId>>
         \/ /\ ~(pending.kind = "Item" /\ Carried)
            /\ ~(pending'.kind = "Item" /\ Carried')
  PROVE  FitInv'
<1> SUFFICES ASSUME NEW k, Point(k)' PROVE Fits(k)'
  BY DEF FitInv
<1>1. Point(k) /\ k \in 1..(Len(Q) + 1) /\ WorldAt(k)' = WorldAt(k)
  BY PointsSame DEF WorldAt
<1>2. CursorAt(k)' = CursorAt(k)
  BY <1>1, CursorKept
<1>3. Fits(k)
  BY <1>1 DEF FitInv
<1>4. PICK w : w = WorldAt(k)
  OBVIOUS
<1>5. /\ \A m \in DOMAIN Q : LastLoad(Q, m, k) => MadeFrom(w, Q[m].checksum, saves)
      /\ NoLoadBefore(Q, k) /\ context' = "AwaitingCursor" => MadeFrom(w, checksum', saves)
      /\ NoLoadBefore(Q, k) /\ context' # "AwaitingCursor" /\ (w.fresh \/ w.from \in recorded)
           => w.applied = First(CursorAt(k))
  BY <1>3, <1>4 DEF Fits, Known
<1> QED BY <1>1, <1>2, <1>4, <1>5 DEF Fits, Known
LEMMA CursorInAppend ==
  ASSUME Q \in Seq(Events), NEW e \in Events, Q' = Append(Q, e), NEW n, n = Len(Q) + 1,
         UNCHANGED <<pending, requestId, nextIndex>>
  PROVE  /\ \A k \in 1..n : CursorAt(k)' = CursorAt(k)
         /\ pending.kind # "Item" \/ e # Answer => CursorAt(n + 1)' = CursorAt(n)
         /\ pending.kind = "Item" /\ e = Answer => CursorAt(n + 1)' = nextIndex + 1
<1>1. Answer' = Answer
  BY DEF Answer
<1>2. /\ \A k \in 1..n : Before(Q', k, Answer) <=> Before(Q, k, Answer)
      /\ Before(Q', n + 1, Answer) <=> Before(Q, n, Answer) \/ e = Answer
  <2>1. Len(Q) + 2 = n + 1
    OBVIOUS
  <2> QED BY <2>1, BeforeInAppend
<1>3. ASSUME NEW k \in 1..n PROVE CursorAt(k)' = CursorAt(k)
  BY <1>1, <1>2 DEF CursorAt, Answered
<1>4. pending.kind # "Item" \/ e # Answer => CursorAt(n + 1)' = CursorAt(n)
  BY <1>1, <1>2 DEF CursorAt, Answered
<1>5. pending.kind = "Item" /\ e = Answer => CursorAt(n + 1)' = nextIndex + 1
  BY <1>1, <1>2 DEF CursorAt, Answered
<1> QED BY <1>3, <1>4, <1>5

\* A new save changes nothing for the worlds of the others.
SavesKept == \A c \in Checksums : saves[c] # None => saves'[c] = saves[c]

LEMMA MadeFromKept ==
  ASSUME SavesKept, NEW w \in Worlds, w.from # None => saves[w.from] # None, NEW c,
         MadeFrom(w, c, saves)
  PROVE  MadeFrom(w, c, saves')
<1>1. w.from \in Checksums \cup {None}
  BY DEF Worlds
<1> QED BY <1>1 DEF MadeFrom, SavesKept

LEMMA PointWorld ==
  ASSUME DeliveryTypeOK, ExistInv, NEW k, Point(k)
  PROVE  /\ WorldAt(k) \in Worlds
         /\ WorldAt(k).from # None => saves[WorldAt(k).from] # None
         /\ k \in DOMAIN Q => Q[k].checksum \in Checksums /\ saves[Q[k].checksum] # None
<1>1. CASE k \in DOMAIN Q
  <2>1. Q[k] \in Events /\ IsWritten(Q[k])
    BY <1>1, QueueType DEF Point
  <2>2. Q[k].checksum \in Checksums
    BY <2>1, EventCases
  <2>3. saves[Q[k].checksum] # None /\ saves[Q[k].checksum] \in Worlds
    BY <1>1, <2>1, <2>2 DEF ExistInv, DeliveryTypeOK
  <2> QED BY <1>1, <2>2, <2>3 DEF WorldAt, ExistInv
<1>2. CASE k \notin DOMAIN Q
  BY <1>2 DEF WorldAt, ExistInv, DeliveryTypeOK
<1> QED BY <1>1, <1>2

LEMMA FitAppend ==
  ASSUME DeliveryTypeOK, ExistInv, FitInv, NEW e \in Events, Q' = Append(Q, e),
         NEW n, n = Len(Q) + 1,
         UNCHANGED <<recorded, context, checksum, nextIndex, pending, requestId>>,
         SavesKept, IsWritten(e) => saves'[e.checksum] = world,
         Fits(n + 1)'
  PROVE  FitInv'
<1> SUFFICES ASSUME NEW k, Point(k)', k # n + 1 PROVE Fits(k)'
  BY DEF FitInv
<1>0. Q \in Seq(Events) /\ n \in Nat /\ DOMAIN Q = 1..(n - 1) /\ n \notin DOMAIN Q
  BY QueueType
<1>1. k \in 1..n /\ Point(k) /\ WorldAt(k)' = WorldAt(k)
  <2>1. CASE k = Len(Q) + 1 /\ IsWritten(e) /\ WorldAt(k)' = saves'[e.checksum]
    BY <1>0, <2>1 DEF Point, WorldAt
  <2>2. CASE /\ Point(k) /\ k \in DOMAIN Q /\ k \in 1..(Len(Q) + 1)
             /\ WorldAt(k)' = saves'[Q[k].checksum]
    <3>1. Q[k].checksum \in Checksums /\ saves[Q[k].checksum] # None
      BY <2>2, PointWorld
    <3> QED BY <2>2, <3>1 DEF SavesKept, WorldAt
  <2> QED BY <1>0, <2>1, <2>2, PointsAppend
<1>2. PICK w \in Worlds : w = WorldAt(k) /\ (w.from # None => saves[w.from] # None)
  BY <1>1, PointWorld
<1>3. CursorAt(k)' = CursorAt(k)
  BY <1>0, <1>1, CursorInAppend
<1>4. /\ NoLoadBefore(Q', k) <=> NoLoadBefore(Q, k)
      /\ \A m \in DOMAIN Q' : LastLoad(Q', m, k) <=> LastLoad(Q, m, k)
  BY <1>0, <1>1, LoadsInAppend
<1>5. Fits(k)
  BY <1>1 DEF FitInv
<1>6. ASSUME NEW m \in DOMAIN Q', LastLoad(Q', m, k)
      PROVE  MadeFrom(w, Q'[m].checksum, saves')
  <2>1. LastLoad(Q, m, k) /\ m \in DOMAIN Q /\ Q'[m] = Q[m]
    BY <1>0, <1>4, <1>6, AppendLemma DEF LastLoad
  <2>2. MadeFrom(w, Q[m].checksum, saves)
    BY <1>2, <1>5, <2>1 DEF Fits
  <2> QED BY <1>2, <2>1, <2>2, MadeFromKept
<1>7. ASSUME NoLoadBefore(Q', k), context = "AwaitingCursor" PROVE MadeFrom(w, checksum, saves')
  <2>1. MadeFrom(w, checksum, saves)
    BY <1>2, <1>4, <1>5, <1>7 DEF Fits
  <2> QED BY <1>2, <2>1, MadeFromKept
<1>8. NoLoadBefore(Q', k) /\ context # "AwaitingCursor" /\ (w.fresh \/ w.from \in recorded)
        => w.applied = First(CursorAt(k))
  BY <1>2, <1>4, <1>5 DEF Fits, Known
<1> QED BY <1>1, <1>2, <1>3, <1>6, <1>7, <1>8 DEF Fits, Known

\* The loaded world behind an event that is neither a load nor the answer.
LEMMA FitEnd ==
  ASSUME DeliveryTypeOK, ExistInv, FitInv, NEW e \in Events, Q' = Append(Q, e),
         NEW n, n = Len(Q) + 1,
         UNCHANGED <<world, recorded, context, checksum, nextIndex, pending, requestId>>,
         SavesKept, ~IsLoad(e), pending.kind # "Item" \/ e # Answer
  PROVE  Fits(n + 1)'
<1>0. Q \in Seq(Events) /\ n \in Nat /\ DOMAIN Q = 1..(n - 1) /\ n \notin DOMAIN Q
  BY QueueType
<1>1. Point(n) /\ WorldAt(n) = world /\ WorldAt(n + 1)' = world /\ n \in 1..n
  BY <1>0, AppendLemma DEF Point, WorldAt
<1>2. PICK w \in Worlds : w = world /\ (w.from # None => saves[w.from] # None)
  BY DEF DeliveryTypeOK, ExistInv
<1>3. CursorAt(n + 1)' = CursorAt(n)
  BY <1>0, CursorInAppend
<1>4. /\ NoLoadBefore(Q', n + 1) <=> NoLoadBefore(Q, n)
      /\ \A m \in DOMAIN Q' : LastLoad(Q', m, n + 1) => LastLoad(Q, m, n)
  <2>1. Len(Q) + 2 = n + 1
    BY <1>0
  <2> QED BY <1>0, <2>1, LoadsInAppend
<1>5. Fits(n)
  BY <1>1 DEF FitInv
<1>6. ASSUME NEW m \in DOMAIN Q', LastLoad(Q', m, n + 1)
      PROVE  MadeFrom(w, Q'[m].checksum, saves')
  <2>1. LastLoad(Q, m, n) /\ m \in DOMAIN Q /\ Q'[m] = Q[m]
    BY <1>0, <1>4, <1>6, AppendLemma DEF LastLoad
  <2>2. MadeFrom(w, Q[m].checksum, saves)
    BY <1>1, <1>2, <1>5, <2>1 DEF Fits
  <2> QED BY <1>2, <2>1, <2>2, MadeFromKept
<1>7. ASSUME NoLoadBefore(Q', n + 1), context = "AwaitingCursor"
      PROVE  MadeFrom(w, checksum, saves')
  <2>1. MadeFrom(w, checksum, saves)
    BY <1>1, <1>2, <1>4, <1>5, <1>7 DEF Fits
  <2> QED BY <1>2, <2>1, MadeFromKept
<1>8. NoLoadBefore(Q', n + 1) /\ context # "AwaitingCursor" /\ (w.fresh \/ w.from \in recorded)
        => w.applied = First(CursorAt(n))
  BY <1>1, <1>2, <1>4, <1>5 DEF Fits, Known
<1> QED BY <1>1, <1>2, <1>3, <1>6, <1>7, <1>8 DEF Fits, Known
LEMMA CursorInTail ==
  ASSUME Q \in Seq(Events), Q # <<>>, Q' = Tail(Q), NEW k \in 1..Len(Q),
         UNCHANGED <<pending, requestId, nextIndex>>,
         pending.kind # "Item" \/ Q[1] # Answer
  PROVE  CursorAt(k)' = CursorAt(k + 1)
<1>1. Answer' = Answer
  BY DEF Answer
<1>2. Before(Q, k + 1, Answer) <=> Before(Q', k, Answer) \/ Q[1] = Answer
  BY BeforeInTail
<1> QED BY <1>1, <1>2 DEF CursorAt, Answered

LEMMA FitTail ==
  ASSUME DeliveryTypeOK, FitInv, Q # <<>>, Q' = Tail(Q), UNCHANGED <<world, saves>>,
         \A k \in 1..Len(Q) : Point(k + 1) /\ NoLoadBefore(Q', k) =>
           /\ context' = "AwaitingCursor" => MadeFrom(WorldAt(k + 1), checksum', saves)
           /\ context' # "AwaitingCursor"
                /\ (WorldAt(k + 1).fresh \/ WorldAt(k + 1).from \in recorded')
              => WorldAt(k + 1).applied = First(CursorAt(k)')
  PROVE  FitInv'
<1> SUFFICES ASSUME NEW k, Point(k)' PROVE Fits(k)'
  BY DEF FitInv
<1>0. Q \in Seq(Events)
  BY QueueType
<1>1. /\ k \in 1..Len(Q) /\ k + 1 \in 1..(Len(Q) + 1) /\ Point(k + 1)
      /\ WorldAt(k)' = WorldAt(k + 1)
  BY <1>0, PointsTail
<1>2. PICK w : w = WorldAt(k + 1)
  OBVIOUS
<1>3. Fits(k + 1)
  BY <1>1 DEF FitInv
<1>4. ASSUME NEW m \in DOMAIN Q', LastLoad(Q', m, k)
      PROVE  MadeFrom(w, Q'[m].checksum, saves')
  <2>1. m + 1 \in DOMAIN Q /\ Q'[m] = Q[m + 1] /\ LastLoad(Q, m + 1, k + 1)
    <3>1. \A i \in 1..Len(Q), j \in DOMAIN Q' :
            LastLoad(Q', j, i) => /\ j + 1 \in DOMAIN Q /\ Q'[j] = Q[j + 1]
                                  /\ LastLoad(Q, j + 1, i + 1)
      <4>1. PICK q \in Seq(Events), r \in Seq(Events) :
                 q = Q /\ r = Q' /\ q # <<>> /\ r = Tail(q)
        BY <1>0, TailLemma
      <4>2. \A i \in 1..Len(q), j \in DOMAIN r :
              LastLoad(r, j, i) => /\ j + 1 \in DOMAIN q /\ r[j] = q[j + 1]
                                   /\ LastLoad(q, j + 1, i + 1)
        BY <4>1, LoadsInTail
      <4> QED BY <4>1, <4>2
    <3> QED BY <1>1, <1>4, <3>1
  <2> QED BY <1>2, <1>3, <2>1 DEF Fits
<1>5. NoLoadBefore(Q', k) /\ context' = "AwaitingCursor" => MadeFrom(w, checksum', saves')
  BY <1>1, <1>2
<1>6. NoLoadBefore(Q', k) /\ context' # "AwaitingCursor" /\ (w.fresh \/ w.from \in recorded')
        => w.applied = First(CursorAt(k)')
  BY <1>1, <1>2
<1> QED BY <1>1, <1>2, <1>4, <1>5, <1>6 DEF Fits, Known

\* The worlds that a load event separated become the loaded save's.
LEMMA FitLoadHeard ==
  ASSUME DInv, NEW c \in Checksums, LoadHeard(c)
  PROVE  FitInv'
<1>0. DeliveryTypeOK /\ FitInv /\ Q \in Seq(Events)
  BY QueueType DEF DInv
<1>1. /\ Q # <<>> /\ Q' = Tail(Q) /\ UNCHANGED <<world, saves>>
      /\ context' = "AwaitingCursor" /\ checksum' = c /\ Q[1] = LoadedEvent(c)
  BY DEF LoadHeard, EventTurn, gameVars
<1>2. IsLoad(Q[1]) /\ Q[1].checksum = c
  BY <1>1, LoadedFacts
<1>3. ASSUME NEW k \in 1..Len(Q), Point(k + 1), NoLoadBefore(Q', k)
      PROVE  MadeFrom(WorldAt(k + 1), c, saves)
  <2>1. LastLoad(Q, 1, k + 1)
    BY <1>0, <1>1, <1>2, <1>3, LoadsInTail
  <2>2. Fits(k + 1)
    BY <1>0, <1>3 DEF FitInv, Point
  <2> QED BY <1>2, <2>1, <2>2 DEF Fits, LastLoad
<1> QED BY <1>0, <1>1, <1>3, FitTail

\* Hearing of any other event.
LEMMA FitEventHeard ==
  ASSUME DInv, EventTurn, ~IsLoad(Q[1]),
         \/ UNCHANGED <<context, checksum>>
         \/ context # "AwaitingCursor" /\ context' # "AwaitingCursor",
         \/ recorded' = recorded
         \/ recorded' = recorded \cup {Q[1].checksum} /\ IsWritten(Q[1]),
         \A k \in 1..Len(Q) : CursorAt(k)' = CursorAt(k + 1)
  PROVE  FitInv'
<1>0. DeliveryTypeOK /\ FitInv /\ NewInv /\ Q \in Seq(Events)
  BY QueueType DEF DInv
<1>1. Q # <<>> /\ Q' = Tail(Q) /\ UNCHANGED <<world, saves>>
  BY DEF EventTurn, gameVars
<1>2. ASSUME NEW k \in 1..Len(Q), Point(k + 1), NoLoadBefore(Q', k)
      PROVE  /\ context' = "AwaitingCursor" => MadeFrom(WorldAt(k + 1), checksum', saves)
             /\ context' # "AwaitingCursor"
                  /\ (WorldAt(k + 1).fresh \/ WorldAt(k + 1).from \in recorded')
                => WorldAt(k + 1).applied = First(CursorAt(k)')
  <2>1. NoLoadBefore(Q, k + 1)
    BY <1>0, <1>1, <1>2, LoadsInTail
  <2>2. Fits(k + 1)
    BY <1>0, <1>2 DEF FitInv, Point
  <2>3. PICK w : w = WorldAt(k + 1)
    OBVIOUS
  <2>4. w.from \in recorded' => w.from \in recorded
    <3>1. ASSUME IsWritten(Q[1]), w.from = Q[1].checksum PROVE FALSE
      <4>1. 1 \in DOMAIN Q /\ k + 1 \in 1..(Len(Q) + 1)
        BY <1>0, <1>1, <1>2, TailLemma
      <4>2. NewTo(1)
        BY <1>0, <3>1, <4>1 DEF NewInv
      <4> QED BY <1>2, <2>1, <2>3, <3>1, <4>1, <4>2 DEF NewTo
    <3> QED BY <3>1
  <2>5. context' = "AwaitingCursor" => MadeFrom(w, checksum', saves)
    BY <2>1, <2>2, <2>3 DEF Fits
  <2>6. context' # "AwaitingCursor" /\ (w.fresh \/ w.from \in recorded')
          => w.applied = First(CursorAt(k)')
    BY <2>1, <2>2, <2>3, <2>4, <1>2 DEF Fits, Known
  <2> QED BY <2>3, <2>5, <2>6
<1> QED BY <1>0, <1>1, <1>2, FitTail

LEMMA FitWriteHeard ==
  ASSUME DInv, NEW c \in Checksums, WriteHeard(c)
  PROVE  FitInv'
<1>0. Q \in Seq(Events)
  BY QueueType DEF DInv
<1>1. /\ EventTurn /\ Q # <<>> /\ Q' = Tail(Q) /\ Q[1] = WrittenEvent(c)
      /\ context # "AwaitingCursor" /\ context' # "AwaitingCursor"
      /\ UNCHANGED <<pending, requestId, nextIndex>>
      /\ recorded' = recorded \/ recorded' = recorded \cup {c}
  BY DEF WriteHeard, EventTurn, Ready
<1>2. ~IsLoad(Q[1]) /\ IsWritten(Q[1]) /\ Q[1].checksum = c
  BY <1>1, WrittenFacts
<1>3. Q[1] # Answer
  BY <1>2, CompletedFacts DEF Answer
<1>4. \A k \in 1..Len(Q) : CursorAt(k)' = CursorAt(k + 1)
  BY <1>0, <1>1, <1>3, CursorInTail
<1> QED BY <1>1, <1>2, <1>4, FitEventHeard

LEMMA FitEventIgnored ==
  ASSUME DInv, EventIgnored
  PROVE  FitInv'
<1>0. Q \in Seq(Events)
  BY QueueType DEF DInv
<1>1. /\ EventTurn /\ Q # <<>> /\ Q' = Tail(Q)
      /\ UNCHANGED <<pending, requestId, nextIndex, context, checksum, recorded>>
  BY DEF EventIgnored, EventTurn, Still
<1>2. ~IsLoad(Q[1]) /\ (pending.kind # "Item" \/ Q[1] # Answer)
  <2>1. CASE IsWritten(Q[1])
    BY <2>1, CompletedFacts DEF Answer, IsLoad, IsWritten
  <2>2. CASE IsCompletion(Q[1]) /\ ~(IsWork(pending) /\ Q[1].id = requestId)
    <3>1. Answer.id = requestId
      BY CompletedFacts DEF Answer
    <3> QED BY <2>2, <3>1 DEF IsCompletion, IsLoad, IsWork
  <2> QED BY <2>1, <2>2 DEF EventIgnored
<1>3. \A k \in 1..Len(Q) : CursorAt(k)' = CursorAt(k + 1)
  BY <1>0, <1>1, <1>2, CursorInTail
<1> QED BY <1>1, <1>2, <1>3, FitEventHeard

\* The answer moves the cursor as the worlds behind it were counted on.
LEMMA FitItemAnswered ==
  ASSUME DInv, ItemAnswered
  PROVE  FitInv'
<1>0. Q \in Seq(Events) /\ IdInv
  BY QueueType DEF DInv
<1>1. /\ EventTurn /\ Q # <<>> /\ Q' = Tail(Q)
      /\ UNCHANGED <<requestId, context, checksum, recorded>>
      /\ pending.kind = "Item" /\ pending'.kind = "None"
  BY DEF ItemAnswered, EventTurn, NoRequest
<1>2. ~IsLoad(Q[1])
  BY CompletedFacts DEF ItemAnswered
<1>3. \A k \in 1..Len(Q) : CursorAt(k)' = nextIndex'
  BY <1>1 DEF CursorAt, Answered
<1>4. ASSUME Q[1] = CompletedEvent(requestId, TRUE), nextIndex' = nextIndex + 1,
             NEW k \in 1..Len(Q)
      PROVE  CursorAt(k + 1) = nextIndex'
  <2>1. Before(Q, k + 1, Answer)
    BY <1>0, <1>1, <1>4, BeforeInTail DEF Answer
  <2> QED BY <1>1, <1>4, <2>1 DEF CursorAt, Answered
<1>5. ASSUME Q[1] = CompletedEvent(requestId, FALSE), nextIndex' = nextIndex,
             NEW k \in 1..Len(Q)
      PROVE  CursorAt(k + 1) = nextIndex'
  <2>1. ASSUME NEW i \in DOMAIN Q, Q[i] = Answer PROVE FALSE
    <3>1. IsCompletion(Q[i]) /\ Q[i].id = requestId
      BY <2>1, CompletedFacts DEF Answer
    <3>2. IsCompletion(Q[1]) /\ Q[1].id = requestId
      BY <1>5, CompletedFacts
    <3>a. 1 \in DOMAIN Q
      BY <1>0, <1>1, TailLemma
    <3>3. i = 1
      BY <1>0, <3>1, <3>2, <3>a DEF IdInv, IdsFit
    <3> QED BY <1>5, <2>1, <3>3, AppliedFact DEF Answer
  <2> QED BY <1>5, <2>1 DEF CursorAt, Answered, Before
<1>6. \A k \in 1..Len(Q) : CursorAt(k)' = CursorAt(k + 1)
  BY <1>3, <1>4, <1>5 DEF ItemAnswered
<1> QED BY <1>1, <1>2, <1>6, FitEventHeard

LEMMA FitReplayAnswered ==
  ASSUME DInv, ReplayAnswered
  PROVE  FitInv'
<1>1. /\ EventTurn /\ UNCHANGED <<context, checksum, recorded, nextIndex>>
      /\ pending.kind = "Replay" /\ pending'.kind = "None"
  BY DEF ReplayAnswered, EventTurn, NoRequest
<1>2. ~IsLoad(Q[1])
  BY CompletedFacts DEF ReplayAnswered
<1>3. \A k \in 1..Len(Q) : CursorAt(k)' = CursorAt(k + 1)
  BY <1>1 DEF CursorAt, Answered
<1> QED BY <1>1, <1>2, <1>3, FitEventHeard
-----------------------------------------------------------------------------
\* The smaller invariants.

\* The steps that the runtime takes part in.
LEMMA RuntimeCases ==
  ASSUME DInv, [DNext]_deliveryAll
  PROVE  \/ UNCHANGED vars
         \/ \E c \in Checksums : LoadHeard(c) \/ WriteHeard(c)
         \/ EventIgnored \/ ItemAnswered \/ ReplayAnswered
         \/ WorldLeft \/ WorldEntered \/ WorldKept
         \/ QuietTurn \/ EmptyReplay
         \/ PoliciesHanded \/ ResetHanded \/ ReplayHanded \/ ItemHanded
         \/ CursorGiven \/ Installed \/ ResetStarted \/ Crash
<1>1. \/ \E c \in Checksums : LoadSave(c) \/ SaveGame(c)
      \/ \E task \in Tasks : TaskApplied(task) \/ TaskDropped(task)
      \/ NewGame \/ QuitToMenu \/ FinishLoading \/ GainControl \/ LoseControl \/ RunReset
      \/ ReadContext \/ DrainQueue \/ TaskQueued \/ StartRefused \/ UNCHANGED deliveryAll
      => UNCHANGED vars
  BY DEF LoadSave, SaveGame, TaskApplied, TaskDropped, NewGame, QuitToMenu, FinishLoading,
         GainControl, LoseControl, RunReset, ReadContext, DrainQueue, TaskQueued,
         StartRefused, deliveryAll
<1> QED BY <1>1, StepCases

LEMMA SlotStep ==
  ASSUME DInv, [DNext]_deliveryAll
  PROVE  SlotInv'
<1>0. SlotInv
  BY DEF DInv
<1>1. CASE UNCHANGED vars
  BY <1>0, <1>1 DEF SlotInv, vars, sessionVars, requestVars
<1>2. CASE \E c \in Checksums : LoadHeard(c) \/ WriteHeard(c)
  BY <1>0, <1>2 DEF SlotInv, LoadHeard, WriteHeard, EventTurn, CancelGameplayRequest, NoRequest
<1>3. CASE EventIgnored \/ ItemAnswered \/ ReplayAnswered
  <2>1. session' = session /\ (pending' = pending \/ pending' = NoRequest)
    BY <1>3 DEF EventIgnored, ItemAnswered, ReplayAnswered, EventTurn, Still
  <2> QED BY <1>0, <2>1 DEF SlotInv, NoRequest
<1>4. CASE WorldLeft \/ WorldEntered \/ WorldKept
  BY <1>0, <1>4 DEF SlotInv, WorldLeft, WorldEntered, WorldKept, WorldTurn,
                    CancelGameplayRequest, NoRequest
<1>5. CASE QuietTurn \/ EmptyReplay \/ CursorGiven
  BY <1>0, <1>5 DEF SlotInv, QuietTurn, Still, EmptyReplay, CursorGiven
<1>6. CASE PoliciesHanded \/ ResetHanded \/ ReplayHanded \/ ItemHanded
  BY <1>0, <1>6 DEF SlotInv, PoliciesHanded, ResetHanded, ReplayHanded, ItemHanded, Handed
<1>7. CASE Installed \/ ResetStarted
  BY <1>0, <1>7 DEF SlotInv, Installed, ResetStarted, NoRequest
<1>8. CASE Crash
  BY <1>8 DEF SlotInv, Crash, Restart, NoRequest
<1> QED BY <1>1, <1>2, <1>3, <1>4, <1>5, <1>6, <1>7, <1>8, RuntimeCases

LEMMA LoopStep ==
  ASSUME DInv, [DNext]_deliveryAll
  PROVE  LoopInv'
<1>0. LoopInv /\ DeliveryTypeOK /\ (draining => pending.kind = "None")
  BY DEF DInv, IInv, RequestInv, NoRequest
<1> USE <1>0 DEF LoopInv
<1>1. CASE \/ \E c \in Checksums : LoadSave(c) \/ SaveGame(c)
           \/ \E task \in Tasks : TaskApplied(task) \/ TaskDropped(task)
           \/ NewGame \/ QuitToMenu \/ FinishLoading \/ GainControl \/ LoseControl \/ RunReset
           \/ UNCHANGED deliveryAll
  <2>1. UNCHANGED <<vars, loopVars>>
    BY <1>1 DEF LoadSave, SaveGame, TaskApplied, TaskDropped, NewGame, QuitToMenu,
                FinishLoading, GainControl, LoseControl, RunReset, deliveryAll
  <2> QED BY <2>1 DEF vars, loopVars, requestVars
<1>2. CASE ReadContext \/ DrainQueue \/ TaskQueued \/ StartRefused
  <2>1. /\ UNCHANGED <<draining, pending, gameplayLoaded>>
        /\ \/ pc = "Read" /\ pc' = "Drain" /\ batch' = batch
           \/ pc = "Drain" /\ pc' = "Events"
           \/ pc = "Start" /\ pc' = "Poll" /\ IsWork(pending) /\ UNCHANGED <<seen, batch>>
    BY <1>2 DEF ReadContext, DrainQueue, TaskQueued, StartRefused, vars, requestVars
  <2> QED BY <2>1 DEF IsWork, IsLoaded
<1>3. CASE ProcessEvent
  <2>1. /\ pc = "Events" /\ pc' = "Events" /\ UNCHANGED seen /\ ~draining
        /\ ~draining'
    BY <1>3, EventSteps
       DEF ProcessEvent, SaveLoaded, SaveWritten, IgnoreSaveWritten, CompleteRequest,
           IgnoreCompletion, ReportResult, requestVars
  <2>2. pending' = pending \/ pending' = CancelGameplayRequest(pending) \/ pending' = NoRequest
    BY <1>3, EventSteps DEF LoadHeard, WriteHeard, EventIgnored, ItemAnswered, ReplayAnswered,
                            Still
  <2> QED BY <2>1, <2>2 DEF CancelGameplayRequest, NoRequest
<1>4. CASE UpdateWorld
  <2>1. /\ pc = "Events" /\ pc' = "Poll" /\ batch' = <<>> /\ UNCHANGED seen
        /\ (gameplayLoaded' <=> IsLoaded(seen'))
        /\ pending' = pending \/ pending' = CancelGameplayRequest(pending)
    BY <1>4, WorldSteps DEF WorldLeft, WorldEntered, WorldKept, WorldTurn, IsLoaded
  <2> QED BY <2>1 DEF CancelGameplayRequest, NoRequest
<1>5. CASE QuietTurn \/ EmptyReplay \/ CursorGiven
  BY <1>5 DEF QuietTurn, Still, EmptyReplay, CursorGiven, NetworkTurn, NoRequest
<1>6. CASE PoliciesHanded \/ ResetHanded \/ ReplayHanded \/ ItemHanded
  BY <1>6 DEF PoliciesHanded, ResetHanded, ReplayHanded, ItemHanded, Handed, NetworkTurn
<1>7. CASE StartInstall \/ StartReset
  <2>1. ~draining'
    BY <1>7 DEF StartInstall, StartReset, ReportResult
  <2> QED BY <1>7, <2>1, StartSteps DEF Installed, ResetStarted, NoRequest
<1>8. CASE Crash
  BY <1>8 DEF Crash, Restart, NoRequest
<1>9. StartItem => TaskQueued \/ StartRefused
  BY StartItemSteps
<1> QED BY <1>1, <1>2, <1>3, <1>4, <1>5, <1>6, <1>7, <1>8, <1>9, RunItemSteps, AskSteps, LineSteps
        DEF DNext, GameThread, PluginThread, DInv
\* An event that is not a load joins the queue.
LEMMA SentLoads ==
  ASSUME DeliveryTypeOK, NEW e \in Events, events' = Append(events, e), Q' = Append(Q, e),
         ~IsLoad(e)
  PROVE  (LoadIn(Q') <=> LoadIn(Q)) /\ (LoadIn(events') <=> LoadIn(events))
<1>1. LoadIn(Q') <=> LoadIn(Q)
  BY QueueType, LoadsInAppend
<1>2. LoadIn(events') <=> LoadIn(events)
  BY LoadsInAppend DEF DeliveryTypeOK
<1> QED BY <1>1, <1>2

LEMMA SentEvent ==
  ASSUME DInv,
         \/ \E c \in Checksums : SaveGame(c) /\ Q' = Append(Q, WrittenEvent(c))
         \/ \E task \in Tasks : TaskApplied(task) \/ TaskDropped(task)
         \/ StartRefused
  PROVE  \E e \in Events : events' = Append(events, e) /\ Q' = Append(Q, e) /\ ~IsLoad(e)
<1>1. ASSUME NEW c \in Checksums, SaveGame(c), Q' = Append(Q, WrittenEvent(c))
      PROVE  \E e \in Events : events' = Append(events, e) /\ Q' = Append(Q, e) /\ ~IsLoad(e)
  BY <1>1, EventTypes, WrittenFacts DEF SaveGame
<1>2. ASSUME NEW task \in Tasks, TaskApplied(task)
      PROVE  \E e \in Events : events' = Append(events, e) /\ Q' = Append(Q, e) /\ ~IsLoad(e)
  <2>1. PICK e \in Events : e = CompletedEvent(task.id, TRUE)
    BY EventTypes DEF Tasks
  <2> QED BY <1>2, <2>1, CompletedFacts DEF TaskApplied
<1>3. ASSUME NEW task \in Tasks, TaskDropped(task)
      PROVE  \E e \in Events : events' = Append(events, e) /\ Q' = Append(Q, e) /\ ~IsLoad(e)
  <2>1. PICK e \in Events : e = CompletedEvent(task.id, FALSE)
    BY EventTypes DEF Tasks
  <2> QED BY <1>3, <2>1, CompletedFacts DEF TaskDropped
<1>4. ASSUME StartRefused
      PROVE  \E e \in Events : events' = Append(events, e) /\ Q' = Append(Q, e) /\ ~IsLoad(e)
  <2>0. requestId \in Nat
    BY BoundsAssumption DEF DInv, IInv, DataTypeOK
  <2>1. PICK e \in Events : e = CompletedEvent(requestId, FALSE)
    BY <2>0, EventTypes
  <2> QED BY <1>4, <2>1, CompletedFacts DEF StartRefused
<1> QED BY <1>1, <1>2, <1>3, <1>4

LEMMA MenuStep ==
  ASSUME DInv, [DNext]_deliveryAll
  PROVE  MenuInv'
<1>0. MenuInv /\ LoopInv /\ DeliveryTypeOK /\ Q \in Seq(Events) /\ world \in Worlds
  BY QueueType DEF DInv, DeliveryTypeOK
<1> USE <1>0 DEF MenuInv
<1>1. ASSUME NEW c \in Checksums, LoadSave(c) PROVE MenuInv'
  <2>1. ~world'.fresh
    BY <1>1, LoadedFactsOfWorld DEF LoadSave, DeliveryTypeOK
  <2> QED BY <1>1, <2>1 DEF LoadSave, vars, deliveryVars, restoreVars
<1>2. CASE \/ \E c \in Checksums : SaveGame(c) /\ Q' = Append(Q, WrittenEvent(c))
           \/ \E task \in Tasks : TaskApplied(task) \/ TaskDropped(task)
           \/ StartRefused
  <2>1. (LoadIn(Q') <=> LoadIn(Q)) /\ (LoadIn(events') <=> LoadIn(events))
    BY <1>2, SentEvent, SentLoads
  <2>2. world'.from = world.from /\ (world'.fresh <=> world.fresh)
    BY <1>2, AppliedFacts DEF SaveGame, TaskApplied, TaskDropped, StartRefused, gameVars
  <2>3. /\ UNCHANGED <<mode, menuPolled, context, saveLoadPending>>
        /\ pc' = pc \/ pc = "Start"
    BY <1>2 DEF SaveGame, TaskApplied, TaskDropped, StartRefused, gameVars, loopVars, vars,
                deliveryVars, restoreVars
  <2> QED BY <2>1, <2>2, <2>3
<1>3. CASE NewGame /\ Q' = Q
  <2>1. world'.from = None
    BY <1>3, NewWorldFacts DEF NewGame
  <2> QED BY <1>3, <2>1 DEF NewGame, vars, deliveryVars, restoreVars, loopVars, queueVars
<1>4. CASE QuitToMenu /\ Q' = Q
  BY <1>4, NoWorldFacts DEF QuitToMenu, vars, deliveryVars, restoreVars, loopVars, queueVars
<1>5. CASE \/ (FinishLoading \/ GainControl \/ LoseControl \/ RunReset) /\ Q' = Q
           \/ UNCHANGED deliveryAll /\ Q' = Q
  BY <1>5 DEF FinishLoading, GainControl, LoseControl, RunReset, deliveryAll, gameVars, vars,
              deliveryVars, restoreVars, loopVars, queueVars
<1>6. CASE (ReadContext \/ DrainQueue) /\ Q' = Q
  <2>1. CASE ReadContext
    BY <1>6, <2>1 DEF ReadContext, vars, deliveryVars, restoreVars
  <2>2. CASE DrainQueue
    BY <1>6, <2>2, LoadsAtEnd DEF DrainQueue, gameVars, vars, deliveryVars, restoreVars
  <2> QED BY <1>6, <2>1, <2>2
<1>7. CASE \/ \E c \in Checksums : LoadHeard(c) \/ WriteHeard(c)
           \/ EventIgnored \/ ItemAnswered \/ ReplayAnswered
  <2>1. /\ Q # <<>> /\ Q' = Tail(Q) /\ pc' = "Events" /\ pc = "Events"
        /\ UNCHANGED <<mode, world, menuPolled, events>>
    BY <1>7 DEF LoadHeard, WriteHeard, EventIgnored, ItemAnswered, ReplayAnswered, EventTurn,
                gameVars, queueVars
  <2>2. LoadIn(Q') => LoadIn(Q)
    BY <2>1, LoadsInTail
  <2>3. context' = "AwaitingCursor" => saveLoadPending'
    BY <1>7 DEF LoadHeard, WriteHeard, EventIgnored, ItemAnswered, ReplayAnswered, Still
  <2> QED BY <2>1, <2>2, <2>3
<1>8. CASE (WorldLeft \/ WorldEntered \/ WorldKept) /\ Q' = Q
  <2>1. /\ pc = "Events" /\ pc' = "Poll" /\ batch = <<>> /\ UNCHANGED <<mode, world, events>>
        /\ menuPolled' = IF menuPolled = "Read" THEN "Yes" ELSE menuPolled
        /\ context' = "AwaitingCursor" => saveLoadPending'
    BY <1>8 DEF WorldLeft, WorldEntered, WorldKept, WorldTurn
  <2>2. Q = events
    BY <2>1, QueueLemma, EventTypes DEF Q, DeliveryTypeOK
  <2> QED BY <1>8, <2>1, <2>2
<1>9. CASE \/ (QuietTurn \/ EmptyReplay \/ CursorGiven) /\ Q' = Q
           \/ (PoliciesHanded \/ ResetHanded \/ ReplayHanded \/ ItemHanded) /\ Q' = Q
           \/ (Installed \/ ResetStarted \/ TaskQueued) /\ Q' = Q
  <2>1. /\ pc \in {"Poll", "Start"} /\ UNCHANGED <<mode, world, menuPolled, events>>
        /\ context' = "AwaitingCursor" => UNCHANGED <<context, saveLoadPending>>
    BY <1>9 DEF QuietTurn, EmptyReplay, CursorGiven, PoliciesHanded, ResetHanded, ReplayHanded,
                ItemHanded, Handed, Installed, ResetStarted, TaskQueued, NetworkTurn, Still,
                gameVars, queueVars, vars, deliveryVars, restoreVars
  <2> QED BY <1>9, <2>1
<1>10. CASE Crash /\ Q' = <<>>
  BY <1>10, NoWorldFacts, LoadsAtEnd DEF Crash, Restart
<1> QED BY <1>1, <1>2, <1>3, <1>4, <1>5, <1>6, <1>7, <1>8, <1>9, <1>10, StepCases

LEMMA EpochStep ==
  ASSUME DInv, [DNext]_deliveryAll
  PROVE  EpochInv'
<1>0. /\ EpochInv /\ DeliveryTypeOK /\ LoopInv /\ live \in Nat /\ observed \in Nat
      /\ Q \in Seq(Events)
  BY QueueType DEF DInv, DeliveryTypeOK
<1> USE <1>0 DEF EpochInv
<1>1. ASSUME NEW c \in Checksums, LoadSave(c) PROVE EpochInv'
  BY <1>1 DEF LoadSave
<1>2. CASE \/ \E c \in Checksums : SaveGame(c) /\ Q' = Append(Q, WrittenEvent(c))
           \/ \E task \in Tasks : TaskApplied(task) \/ TaskDropped(task)
           \/ StartRefused
  <2>1. LoadIn(events') <=> LoadIn(events)
    BY <1>2, SentEvent, SentLoads
  <2>2. /\ UNCHANGED <<live, observed, gameplayLoaded>>
        /\ pc' = pc \/ pc' = "Poll"
    BY <1>2 DEF SaveGame, TaskApplied, TaskDropped, StartRefused, loopVars, vars
  <2> QED BY <2>1, <2>2
<1>3. CASE \/ NewGame \/ QuitToMenu \/ FinishLoading \/ GainControl \/ LoseControl \/ RunReset
           \/ ReadContext \/ UNCHANGED deliveryAll
  <2>1. UNCHANGED <<live, observed, gameplayLoaded, events>> /\ (pc' = pc \/ pc' = "Drain")
    BY <1>3 DEF NewGame, QuitToMenu, FinishLoading, GainControl, LoseControl, RunReset,
                ReadContext, deliveryAll, queueVars, loopVars, vars
  <2> QED BY <2>1
<1>4. CASE DrainQueue
  BY <1>4, LoadsAtEnd DEF DrainQueue
<1>5. CASE \/ \E c \in Checksums : LoadHeard(c) \/ WriteHeard(c)
           \/ EventIgnored \/ ItemAnswered \/ ReplayAnswered
  <2>1. UNCHANGED <<live, observed, gameplayLoaded, events, pc>>
    BY <1>5 DEF LoadHeard, WriteHeard, EventIgnored, ItemAnswered, ReplayAnswered, EventTurn,
                queueVars
  <2> QED BY <2>1
<1>6. CASE WorldLeft \/ WorldEntered \/ WorldKept
  <2>1. WorldTurn
    BY <1>6 DEF WorldLeft, WorldEntered, WorldKept
  <2> QED BY <2>1 DEF WorldTurn
<1>7. CASE \/ QuietTurn \/ EmptyReplay \/ CursorGiven
           \/ PoliciesHanded \/ ResetHanded \/ ReplayHanded \/ ItemHanded
           \/ Installed \/ ResetStarted \/ TaskQueued
  <2>1. UNCHANGED <<live, observed, gameplayLoaded, events>> /\ pc' # "Events"
    BY <1>7 DEF QuietTurn, EmptyReplay, CursorGiven, PoliciesHanded, ResetHanded, ReplayHanded,
                ItemHanded, Handed, Installed, ResetStarted, TaskQueued, NetworkTurn, Still,
                queueVars, vars
  <2> QED BY <2>1
<1>8. CASE Crash
  BY <1>8, LoadsAtEnd DEF Crash
<1> QED BY <1>1, <1>2, <1>3, <1>4, <1>5, <1>6, <1>7, <1>8, StepCases
LEMMA WorldApplied ==
  ASSUME world \in Worlds, NEW task \in Tasks, TaskApplied(task)
  PROVE  /\ world' \in Worlds
         /\ world'.from = world.from /\ (world'.fresh <=> world.fresh)
         /\ task.kind # "Item" => world' = world
         /\ task.kind = "Item" => world'.applied = [world.applied EXCEPT ![task.index] = @ + 1]
<1>1. PICK v \in Worlds, w \in {Applied(world, task)} : v = world /\ w = world'
  BY DEF TaskApplied
<1>2. w = Applied(v, task) /\ v.applied[task.index] < 2
  BY <1>1 DEF TaskApplied
<1> QED BY <1>1, <1>2, AppliedFacts

\* No step changes a save that exists.
LEMMA SavesStep ==
  ASSUME DInv, [DNext]_deliveryAll
  PROVE  /\ SavesKept
         /\ \A c \in Checksums : saves[c] # None => saves'[c] # None
         /\ \/ saves' = saves
            \/ \E c \in Checksums : SaveGame(c) /\ Q' = Append(Q, WrittenEvent(c))
<1>1. \/ saves' = saves
      \/ \E c \in Checksums : SaveGame(c) /\ Q' = Append(Q, WrittenEvent(c))
  BY StepCases DEF LoadSave, TaskApplied, TaskDropped, NewGame, QuitToMenu, FinishLoading,
     GainControl, LoseControl, RunReset, ReadContext, DrainQueue, LoadHeard, WriteHeard,
     EventIgnored, ItemAnswered, ReplayAnswered, EventTurn, WorldLeft, WorldEntered, WorldKept,
     WorldTurn, QuietTurn, EmptyReplay, PoliciesHanded, ResetHanded, ReplayHanded, ItemHanded,
     Handed, CursorGiven, NetworkTurn, Installed, ResetStarted, TaskQueued, StartRefused, Crash,
     deliveryAll, gameVars
<1>2. saves \in [Checksums -> Worlds \cup {None}]
  BY DEF DInv, DeliveryTypeOK
<1>3. ASSUME NEW c \in Checksums, SaveGame(c), NEW x \in Checksums, saves[x] # None
      PROVE  saves'[x] = saves[x]
  BY <1>2, <1>3 DEF SaveGame
<1>4. SavesKept
  BY <1>1, <1>3 DEF SavesKept
<1> QED BY <1>1, <1>4 DEF SavesKept

\* A task or a request that could not be started leaves an answer in the queue.
LEMMA AnswerQueued ==
  ASSUME DInv,
         \/ \E task \in Tasks : TaskApplied(task) \/ TaskDropped(task)
         \/ StartRefused
  PROVE  \E e \in Events : Q' = Append(Q, e) /\ IsCompletion(e)
<1>1. ASSUME NEW id \in Nat, Q' = Append(Q, CompletedEvent(id, TRUE))
      PROVE  \E e \in Events : Q' = Append(Q, e) /\ IsCompletion(e)
  <2>1. PICK e \in Events : e = CompletedEvent(id, TRUE)
    BY EventTypes
  <2> QED BY <1>1, <2>1, CompletedFacts
<1>2. ASSUME NEW id \in Nat, Q' = Append(Q, CompletedEvent(id, FALSE))
      PROVE  \E e \in Events : Q' = Append(Q, e) /\ IsCompletion(e)
  <2>1. PICK e \in Events : e = CompletedEvent(id, FALSE)
    BY EventTypes
  <2> QED BY <1>2, <2>1, CompletedFacts
<1>3. requestId \in Nat /\ \A task \in Tasks : task.id \in Nat
  BY BoundsAssumption DEF DInv, IInv, DataTypeOK, Tasks
<1> QED BY <1>1, <1>2, <1>3 DEF TaskApplied, TaskDropped, StartRefused

LEMMA ExistAppend ==
  ASSUME DInv, NEW e \in Events, Q' = Append(Q, e),
         \A c \in Checksums : saves[c] # None => saves'[c] # None,
         IsLoad(e) \/ IsWritten(e) => saves'[e.checksum] # None,
         NEW i \in DOMAIN Q', IsLoad(Q'[i]) \/ IsWritten(Q'[i])
  PROVE  saves'[Q'[i].checksum] # None
<1>1. /\ Q \in Seq(Events) /\ ExistInv /\ DOMAIN Q' = 1..(Len(Q) + 1) /\ DOMAIN Q = 1..Len(Q)
      /\ Len(Q) \in Nat /\ \A j \in 1..Len(Q) : Q'[j] = Q[j]
      /\ Q'[Len(Q) + 1] = e
  BY QueueType, AppendLemma DEF DInv
<1>2. CASE i = Len(Q) + 1
  BY <1>1, <1>2
<1>3. CASE i # Len(Q) + 1
  <2>1. i \in DOMAIN Q /\ Q'[i] = Q[i] /\ Q[i] \in Events
    BY <1>1, <1>3
  <2>2. Q[i].checksum \in Checksums /\ saves[Q[i].checksum] # None
    BY <1>1, <2>1, EventCases DEF ExistInv
  <2> QED BY <2>1, <2>2
<1> QED BY <1>2, <1>3

LEMMA ExistStep ==
  ASSUME DInv, [DNext]_deliveryAll
  PROVE  ExistInv'
<1>0. /\ ExistInv /\ DeliveryTypeOK /\ Q \in Seq(Events) /\ world \in Worlds
      /\ saves \in [Checksums -> Worlds \cup {None}] /\ None \notin Worlds
      /\ DOMAIN Q = 1..Len(Q) /\ Len(Q) \in Nat
      /\ world.from \in Checksums \cup {None}
  BY QueueType, NoSaveAssumption DEF DInv, DeliveryTypeOK, Worlds
<1>1. /\ SavesKept /\ \A c \in Checksums : saves[c] # None => saves'[c] # None
      /\ \/ saves' = saves
         \/ \E c \in Checksums : SaveGame(c) /\ Q' = Append(Q, WrittenEvent(c))
  BY SavesStep
<1>2. ASSUME NEW c \in Checksums, saves'[c] # None, saves'[c].from # None
      PROVE  saves'[saves'[c].from] # None
  <2>1. CASE saves[c] # None
    <3>1. PICK w \in Worlds : w = saves[c] /\ w = saves'[c]
      BY <1>0, <1>1, <2>1 DEF SavesKept
    <3>2. w.from \in Checksums \cup {None}
      BY DEF Worlds
    <3>3. w.from # None => saves[w.from] # None
      BY <1>0, <2>1, <3>1 DEF ExistInv
    <3> QED BY <1>1, <1>2, <3>1, <3>2, <3>3
  <2>2. CASE saves[c] = None
    <3>1. PICK d \in Checksums : SaveGame(d)
      BY <1>1, <1>2, <2>2
    <3>2. saves'[c] = world
      BY <1>0, <1>2, <2>2, <3>1 DEF SaveGame
    <3> QED BY <1>0, <1>1, <1>2, <3>2 DEF ExistInv
  <2> QED BY <2>1, <2>2
<1>3. \/ world' = NoWorld \/ NewGame
      \/ \E c \in Checksums : LoadSave(c)
      \/ world'.from = world.from
  <2>1. ASSUME NEW task \in Tasks, TaskApplied(task) PROVE world'.from = world.from
    BY <2>1, WorldApplied DEF DInv, DeliveryTypeOK
  <2> QED BY <2>1, StepCases
     DEF SaveGame, TaskDropped, QuitToMenu, FinishLoading,
     GainControl, LoseControl, RunReset, ReadContext, DrainQueue, LoadHeard, WriteHeard,
     EventIgnored, ItemAnswered, ReplayAnswered, EventTurn, WorldLeft, WorldEntered, WorldKept,
     WorldTurn, QuietTurn, EmptyReplay, PoliciesHanded, ResetHanded, ReplayHanded, ItemHanded,
     Handed, CursorGiven, NetworkTurn, Installed, ResetStarted, TaskQueued, StartRefused, Crash,
     deliveryAll, gameVars
<1>4. world'.from # None => saves'[world'.from] # None
  <2>1. CASE world' = NoWorld \/ NewGame
    BY <2>1, NoWorldFacts, NewWorldFacts DEF NewGame
  <2>2. ASSUME NEW c \in Checksums, LoadSave(c) PROVE saves'[world'.from] # None
    <3>1. saves[c] \in Worlds /\ saves[c] # None
          /\ world' = [applied |-> saves[c].applied, from |-> c, fresh |-> FALSE]
      BY <1>0, <2>2 DEF LoadSave
    <3>2. world'.from = c
      BY <3>1, LoadedFactsOfWorld
    <3> QED BY <1>1, <3>1, <3>2
  <2>3. CASE world'.from = world.from
    BY <1>0, <1>1, <2>3 DEF ExistInv
  <2> QED BY <1>3, <2>1, <2>2, <2>3
<1>5. ASSUME NEW i \in DOMAIN Q', IsLoad(Q'[i]) \/ IsWritten(Q'[i])
      PROVE  saves'[Q'[i].checksum] # None
  <2>1. ASSUME NEW c \in Checksums, LoadSave(c), Q' = Append(Q, LoadedEvent(c))
        PROVE  saves'[Q'[i].checksum] # None
    <3>1. PICK e \in Events : e = LoadedEvent(c)
      BY EventTypes
    <3>2. e.checksum = c /\ saves[c] # None
      BY <2>1, <3>1, LoadedFacts DEF LoadSave
    <3> QED BY <1>1, <1>5, <2>1, <3>1, <3>2, ExistAppend
  <2>2. ASSUME NEW c \in Checksums, SaveGame(c), Q' = Append(Q, WrittenEvent(c))
        PROVE  saves'[Q'[i].checksum] # None
    <3>1. PICK e \in Events : e = WrittenEvent(c)
      BY EventTypes
    <3>2. e.checksum = c /\ saves'[c] = world
      BY <1>0, <2>2, <3>1, WrittenFacts DEF SaveGame
    <3> QED BY <1>0, <1>1, <1>5, <2>2, <3>1, <3>2, ExistAppend
  <2>3. CASE \/ \E task \in Tasks : TaskApplied(task) \/ TaskDropped(task)
             \/ StartRefused
    <3>1. PICK e \in Events : Q' = Append(Q, e) /\ IsCompletion(e)
      BY <2>3, AnswerQueued
    <3>2. ~IsLoad(e) /\ ~IsWritten(e)
      BY <3>1 DEF IsCompletion, IsLoad, IsWritten
    <3> QED BY <1>1, <1>5, <3>1, <3>2, ExistAppend
  <2>4. CASE Q' = Q /\ saves' = saves
    BY <1>0, <1>5, <2>4 DEF ExistInv
  <2>5. CASE Q # <<>> /\ Q' = Tail(Q) /\ saves' = saves
    <3>1. i + 1 \in DOMAIN Q /\ Q'[i] = Q[i + 1]
      BY <1>0, <2>5, TailLemma
    <3> QED BY <1>0, <1>5, <2>5, <3>1 DEF ExistInv
  <2>6. CASE Q' = <<>>
    BY <2>6
  <2>7. \/ \E c \in Checksums : SaveGame(c) /\ Q' = Append(Q, WrittenEvent(c))
        \/ saves' = saves
    BY <1>1
  <2> QED BY <2>1, <2>2, <2>3, <2>4, <2>5, <2>6, <2>7, StepCases
       DEF LoadHeard, WriteHeard, EventIgnored, ItemAnswered, ReplayAnswered, EventTurn, gameVars
<1>6. context' = "AwaitingCursor" => checksum' \in Checksums /\ saves'[checksum'] # None
  <2>1. ASSUME NEW c \in Checksums, LoadHeard(c)
        PROVE  checksum' = c /\ saves'[c] # None
    <3>1. /\ Q[1] = LoadedEvent(c) /\ 1 \in DOMAIN Q /\ checksum' = c
      BY <1>0, <2>1, TailLemma DEF LoadHeard, EventTurn
    <3>2. IsLoad(Q[1]) /\ Q[1].checksum = c
      BY <3>1, LoadedFacts
    <3> QED BY <1>0, <1>1, <3>1, <3>2 DEF ExistInv
  <2>2. \/ \E c \in Checksums : LoadHeard(c)
        \/ context' = "AwaitingCursor" => context = "AwaitingCursor" /\ checksum' = checksum
    BY RuntimeCases
       DEF WriteHeard, EventIgnored, ItemAnswered, ReplayAnswered, WorldLeft, WorldEntered,
       WorldKept, QuietTurn, Still, EmptyReplay, PoliciesHanded, ResetHanded, ReplayHanded,
       ItemHanded, Handed, CursorGiven, Installed, ResetStarted, Crash, Restart, vars,
       deliveryVars
  <2> QED BY <1>0, <1>1, <2>1, <2>2 DEF ExistInv
<1> QED BY <1>2, <1>4, <1>5, <1>6 DEF ExistInv
LEMMA QueueParts ==
  ASSUME DeliveryTypeOK
  PROVE  /\ Q \in Seq(Events) /\ Len(Q) \in Nat /\ DOMAIN Q = 1..Len(Q)
         /\ Len(batch) \in Nat /\ Len(batch) <= Len(Q)
         /\ batch = <<>> => Q = events
BY DEF Q, DeliveryTypeOK

LEMMA GoneSame ==
  ASSUME DInv, Q' = Q, saves' = saves, Ending' => Ending,
         (~world'.fresh /\ world'.from = None) \/ UNCHANGED world,
         \A k \in 1..(Len(Q) + 1) : Behind(k)' => Behind(k)
  PROVE  GoneInv'
<1> SUFFICES ASSUME Ending', NEW k, k \in 1..(Len(Q') + 1), Point(k)', Behind(k)' PROVE Gone(k)'
  BY DEF GoneInv
<1>0. Q \in Seq(Events) /\ GoneInv /\ DOMAIN Q = 1..Len(Q) /\ Len(Q) \in Nat
  BY QueueType DEF DInv
<1>1. /\ Point(k) /\ k \in 1..(Len(Q) + 1)
      /\ WorldAt(k)' = IF k \in DOMAIN Q THEN saves[Q[k].checksum] ELSE world'
  BY <1>0, PointsSame
<1>2. Gone(k)
  BY <1>0, <1>1 DEF GoneInv
<1>3. PICK w : w = WorldAt(k)'
  OBVIOUS
<1>4. NoLoadBefore(Q', k) => ~w.fresh /\ w.from = None
  BY <1>1, <1>2, <1>3 DEF Gone, WorldAt
<1> QED BY <1>3, <1>4 DEF Gone

LEMMA GoneAppend ==
  ASSUME DInv, NEW e \in Events, Q' = Append(Q, e), SavesKept,
         UNCHANGED <<batch, pc, seen, context, saveLoadPending>>,
         IsLoad(e) \/ (world'.from = world.from /\ (world'.fresh <=> world.fresh)),
         IsWritten(e) => saves'[e.checksum] = world
  PROVE  GoneInv'
<1> SUFFICES ASSUME Ending', NEW k, k \in 1..(Len(Q') + 1), Point(k)', Behind(k)' PROVE Gone(k)'
  BY DEF GoneInv
<1>1. PICK n : n = Len(Q) + 1
  OBVIOUS
<1>0. /\ Q \in Seq(Events) /\ GoneInv /\ DOMAIN Q = 1..(n - 1) /\ n \in Nat /\ n \notin DOMAIN Q
      /\ DeliveryTypeOK /\ ExistInv
      /\ Len(Q') = n /\ Len(batch) \in Nat /\ Len(batch) < n
  BY <1>1, QueueParts, AppendLemma DEF DInv
<1>2. Ending /\ n \in 1..(Len(Q) + 1) /\ Point(n) /\ WorldAt(n) = world
  BY <1>0, <1>1 DEF Ending, Point, WorldAt
<1>3. PICK w : w = WorldAt(k)'
  OBVIOUS
<1>4. CASE /\ Point(k) /\ k \in DOMAIN Q /\ k \in 1..n /\ w = saves'[Q[k].checksum]
  <2>1. Q[k].checksum \in Checksums /\ saves[Q[k].checksum] # None
    BY <1>0, <1>4, PointWorld
  <2>2. w = WorldAt(k)
    BY <1>4, <2>1 DEF SavesKept, WorldAt
  <2>3. Behind(k)
    BY <1>0, <1>4 DEF Behind
  <2>4. NoLoadBefore(Q', k) <=> NoLoadBefore(Q, k)
    BY <1>0, <1>1, <1>4, LoadsInAppend
  <2>5. Gone(k)
    BY <1>0, <1>1, <1>2, <1>4, <2>3 DEF GoneInv
  <2> QED BY <1>3, <2>2, <2>4, <2>5 DEF Gone
<1>5. CASE k = n /\ IsWritten(e) /\ w = saves'[e.checksum]
  <2>1. Behind(n)
    BY <1>0, <1>5 DEF Behind
  <2>2. NoLoadBefore(Q', n) <=> NoLoadBefore(Q, n)
    BY <1>0, <1>1, <1>2, LoadsInAppend
  <2>3. Gone(n)
    BY <1>0, <1>2, <2>1 DEF GoneInv
  <2> QED BY <1>2, <1>3, <1>5, <2>2, <2>3 DEF Gone
<1>6. CASE k = n + 1 /\ w = world'
  <2>1. n + 1 = Len(Q) + 2
    BY <1>0, <1>1
  <2>2. CASE IsLoad(e)
    <3>1. ~NoLoadBefore(Q', k)
      BY <1>0, <1>6, <2>1, <2>2, LoadsInAppend
    <3> QED BY <3>1 DEF Gone
  <2>3. CASE ~IsLoad(e)
    <3>1. NoLoadBefore(Q', k) <=> NoLoadBefore(Q, n)
      BY <1>0, <1>1, <1>6, <2>1, <2>3, LoadsInAppend
    <3>2. Behind(n)
      BY <1>0, <1>1 DEF Behind
    <3>3. Gone(n)
      BY <1>0, <1>2, <3>2 DEF GoneInv
    <3> QED BY <1>2, <1>3, <1>6, <2>3, <3>1, <3>3 DEF Gone
  <2> QED BY <2>2, <2>3
<1> QED BY <1>0, <1>1, <1>3, <1>4, <1>5, <1>6, PointsAppend

LEMMA GoneTail ==
  ASSUME DInv, EventTurn, ~IsLoad(Q[1]), Ending' => Ending
  PROVE  GoneInv'
<1> SUFFICES ASSUME Ending', NEW k, k \in 1..(Len(Q') + 1), Point(k)', Behind(k)' PROVE Gone(k)'
  BY DEF GoneInv
<1>0. /\ Q \in Seq(Events) /\ GoneInv /\ Len(Q) \in Nat /\ batch \in Seq(Events)
      /\ Q # <<>> /\ Q' = Tail(Q) /\ UNCHANGED <<saves, world>>
      /\ pc = "Events" /\ pc' = "Events" /\ batch # <<>> /\ batch' = Tail(batch)
  BY QueueParts DEF DInv, DeliveryTypeOK, EventTurn, gameVars
<1>1. /\ k \in 1..Len(Q) /\ k + 1 \in 1..(Len(Q) + 1) /\ Point(k + 1)
      /\ WorldAt(k)' = WorldAt(k + 1)
  BY <1>0, PointsTail
<1>2. Behind(k + 1)
  <2>1. Len(batch') < k /\ Len(batch') = Len(batch) - 1 /\ Len(batch) \in Nat
    BY <1>0, TailLemma DEF Behind
  <2> QED BY <1>0, <1>1, <2>1 DEF Behind
<1>3. NoLoadBefore(Q', k) <=> NoLoadBefore(Q, k + 1)
  BY <1>0, <1>1, LoadsInTail
<1>4. Gone(k + 1)
  BY <1>0, <1>1, <1>2 DEF GoneInv
<1>5. PICK w : w = WorldAt(k + 1)
  OBVIOUS
<1> QED BY <1>1, <1>3, <1>4, <1>5 DEF Gone

LEMMA GoneStep ==
  ASSUME DInv, [DNext]_deliveryAll
  PROVE  GoneInv'
<1>0. /\ Q \in Seq(Events) /\ DeliveryTypeOK /\ MenuInv /\ LoopInv /\ SavesKept
      /\ world \in Worlds
      /\ saves \in [Checksums -> Worlds \cup {None}]
  BY QueueType, SavesStep DEF DInv, DeliveryTypeOK
<1>1. ASSUME NEW c \in Checksums, LoadSave(c), Q' = Append(Q, LoadedEvent(c))
      PROVE  GoneInv'
  <2>1. PICK e \in Events : e = LoadedEvent(c) /\ IsLoad(e) /\ ~IsWritten(e)
    BY EventTypes, LoadedFacts
  <2>2. UNCHANGED <<batch, pc, seen, context, saveLoadPending>>
    BY <1>1 DEF LoadSave, vars, deliveryVars, restoreVars, loopVars
  <2> QED BY <1>0, <1>1, <2>1, <2>2, GoneAppend
<1>2. ASSUME NEW c \in Checksums, SaveGame(c), Q' = Append(Q, WrittenEvent(c))
      PROVE  GoneInv'
  <2>1. PICK e \in Events : e = WrittenEvent(c) /\ e.checksum = c
    BY EventTypes, WrittenFacts
  <2>2. /\ UNCHANGED <<batch, pc, seen, context, saveLoadPending, world>>
        /\ saves'[c] = world
    BY <1>0, <1>2 DEF SaveGame, vars, deliveryVars, restoreVars, loopVars
  <2> QED BY <1>0, <1>2, <2>1, <2>2, GoneAppend
<1>3. ASSUME NEW task \in Tasks, TaskApplied(task) \/ TaskDropped(task)
      PROVE  GoneInv'
  <2>1. task.id \in Nat
    BY DEF Tasks
  <2>2. PICK e \in Events : ~IsLoad(e) /\ ~IsWritten(e) /\ Q' = Append(Q, e)
    <3>1. CASE TaskApplied(task)
      <4>1. PICK e \in Events : e = CompletedEvent(task.id, TRUE)
        BY <2>1, EventTypes
      <4> QED BY <3>1, <4>1, CompletedFacts DEF TaskApplied
    <3>2. CASE TaskDropped(task)
      <4>1. PICK e \in Events : e = CompletedEvent(task.id, FALSE)
        BY <2>1, EventTypes
      <4> QED BY <3>2, <4>1, CompletedFacts DEF TaskDropped
    <3> QED BY <1>3, <3>1, <3>2
  <2>3. UNCHANGED <<batch, pc, seen, context, saveLoadPending>>
    BY <1>3 DEF TaskApplied, TaskDropped, vars, deliveryVars, restoreVars, loopVars
  <2>4. world'.from = world.from /\ (world'.fresh <=> world.fresh)
    BY <1>0, <1>3, WorldApplied DEF TaskDropped
  <2> QED BY <1>0, <2>2, <2>3, <2>4, GoneAppend
<1>4. CASE (NewGame \/ QuitToMenu \/ FinishLoading \/ GainControl \/ LoseControl \/ RunReset
            \/ UNCHANGED deliveryAll) /\ Q' = Q
  <2>1. UNCHANGED <<saves, batch, pc, seen, context, saveLoadPending>>
    BY <1>4 DEF NewGame, QuitToMenu, FinishLoading, GainControl, LoseControl, RunReset,
                deliveryAll, vars, deliveryVars, restoreVars, loopVars, gameVars
  <2>2. CASE UNCHANGED world
    BY <1>4, <2>1, <2>2, GoneSame DEF Ending, Behind
  <2>3. CASE QuitToMenu
    BY <1>4, <2>1, <2>3, NoWorldFacts, GoneSame DEF Ending, Behind, QuitToMenu
  <2>4. CASE NewGame
    <3>1. world'.from = None /\ (world'.fresh <=> context = "Waiting")
      BY <2>4, NewWorldFacts DEF NewGame
    <3>2. CASE context = "Waiting"
      BY <2>1, <3>2 DEF GoneInv, Ending
    <3>3. CASE context # "Waiting"
      BY <1>4, <2>1, <3>1, <3>3, GoneSame DEF Ending, Behind
    <3> QED BY <3>2, <3>3
  <2> QED BY <1>4, <2>2, <2>3, <2>4
       DEF FinishLoading, GainControl, LoseControl, RunReset, deliveryAll, gameVars
<1>5. CASE ReadContext /\ Q' = Q
  <2> SUFFICES ASSUME Ending', NEW k, k \in 1..(Len(Q') + 1), Point(k)', Behind(k)'
               PROVE  Gone(k)'
    BY DEF GoneInv
  <2>1. UNCHANGED <<saves, world>> /\ seen' = mode /\ pc' = "Drain"
    BY <1>5 DEF ReadContext
  <2>2. mode = "MainMenu" /\ k = Len(Q) + 1
    BY <1>5, <2>1 DEF Ending, Behind
  <2>3. k \notin DOMAIN Q
    BY <1>0, <2>2, QueueType
  <2>4. WorldAt(k)' = world
    BY <1>5, <2>1, <2>3 DEF WorldAt
  <2> QED BY <1>0, <2>2, <2>4 DEF MenuInv, Gone
<1>6. CASE DrainQueue /\ Q' = Q
  <2>1. /\ UNCHANGED <<saves, world, seen, context, saveLoadPending>>
        /\ pc = "Drain" /\ pc' = "Events" /\ batch' = events /\ batch = <<>>
    BY <1>0, <1>6 DEF DrainQueue, gameVars, vars, deliveryVars, restoreVars, LoopInv
  <2>2. Q = events /\ Len(Q) \in Nat
    BY <1>0, <2>1, QueueParts
  <2>3. \A k \in 1..(Len(Q) + 1) : Behind(k)' => Behind(k)
    BY <2>1, <2>2 DEF Behind
  <2> QED BY <1>6, <2>1, <2>3, GoneSame DEF Ending
<1>7. ASSUME NEW c \in Checksums, LoadHeard(c) PROVE GoneInv'
  BY <1>7 DEF LoadHeard, GoneInv, Ending
<1>8. ASSUME NEW c \in Checksums, WriteHeard(c) PROVE GoneInv'
  <2>1. EventTurn /\ ~IsLoad(Q[1])
    BY <1>8, WrittenFacts DEF WriteHeard
  <2>2. context # "Waiting" /\ saveLoadPending' = saveLoadPending /\ seen' = seen
    BY <1>8 DEF WriteHeard, EventTurn, Ready
  <2> QED BY <2>1, <2>2, GoneTail DEF Ending
<1>9. CASE EventIgnored \/ ItemAnswered \/ ReplayAnswered
  <2>1. EventTurn /\ ~IsLoad(Q[1])
    <3>1. CASE EventIgnored
      BY <3>1 DEF EventIgnored, IsLoad, IsWritten, IsCompletion
    <3>2. CASE ItemAnswered \/ ReplayAnswered
      BY <3>2, CompletedFacts DEF ItemAnswered, ReplayAnswered
    <3> QED BY <1>9, <3>1, <3>2
  <2>2. UNCHANGED <<context, saveLoadPending, seen>>
    BY <1>9 DEF EventIgnored, ItemAnswered, ReplayAnswered, EventTurn, Still
  <2> QED BY <2>1, <2>2, GoneTail DEF Ending
<1>10. CASE \/ WorldLeft \/ WorldEntered \/ WorldKept
            \/ QuietTurn \/ EmptyReplay \/ CursorGiven
            \/ PoliciesHanded \/ ResetHanded \/ ReplayHanded \/ ItemHanded
            \/ Installed \/ ResetStarted \/ TaskQueued \/ StartRefused \/ Crash
  <2>1. pc' \notin {"Drain", "Events"}
    BY <1>10 DEF WorldLeft, WorldEntered, WorldKept, WorldTurn, QuietTurn, EmptyReplay,
                 CursorGiven, PoliciesHanded, ResetHanded, ReplayHanded, ItemHanded, Handed,
                 Installed, ResetStarted, TaskQueued, StartRefused, Crash
  <2> QED BY <2>1 DEF GoneInv, Behind
<1> QED BY <1>1, <1>2, <1>3, <1>4, <1>5, <1>6, <1>7, <1>8, <1>9, <1>10, StepCases

-----------------------------------------------------------------------------
\* RecordedInv.

\* What the journal has after a snapshot was put into it.
LEMMA SnapshotPut ==
  ASSUME NEW j \in Journals, NEW c \in Checksums, NEW n \in Cursors, NEW items \in SUBSET Items,
         NEW k, k = Record(j, Slot, c, n, items) \/ k = StoreSnapshot(j, Slot, c, n, items)
  PROVE  /\ k.snapshots[Slot][c] # None
         /\ k.snapshots[Slot][c].nextIndex = n /\ k.snapshots[Slot][c].items = items
         /\ \A d \in Checksums : d # c => k.snapshots[Slot][d] = j.snapshots[Slot][d]
<1>1. PICK snap \in Snapshots : snap = [nextIndex |-> n, items |-> items]
  BY DEF Snapshots
<1>2. snap # None /\ snap.nextIndex = n /\ snap.items = items
  BY <1>1, NoneAssumption
<1>3. Slot \in Sessions
  BY DeliveryAssumption
<1>4. /\ k.snapshots[Slot][c] = snap
      /\ \A d \in Checksums : d # c => k.snapshots[Slot][d] = j.snapshots[Slot][d]
  <2>1. CASE k = Record(j, Slot, c, n, items)
    BY <1>1, <1>3, <2>1 DEF Record, Journals
  <2>2. CASE k = StoreSnapshot(j, Slot, c, n, items)
    BY <1>1, <1>3, <2>2 DEF StoreSnapshot, Journals
  <2> QED BY <2>1, <2>2
<1> QED BY <1>2, <1>4

LEMMA RecordedFrame ==
  ASSUME DInv, SavesKept, recorded' = recorded,
         \A c \in recorded : disk'.snapshots[Slot][c] = disk.snapshots[Slot][c],
         session' # None =>
           \A c \in recorded : journal'.snapshots[Slot][c] = disk.snapshots[Slot][c]
  PROVE  RecordedInv'
<1>0. RecordedInv /\ recorded \subseteq Checksums
  BY DEF DInv, DeliveryTypeOK
<1>1. ASSUME NEW c \in recorded
      PROVE  /\ saves[c] # None /\ Known(saves[c])
             /\ disk.snapshots[Slot][c] # None
             /\ saves[c].applied = First(disk.snapshots[Slot][c].nextIndex)
             /\ saves'[c] = saves[c]
  BY <1>0 DEF RecordedInv, SavesKept
<1> QED BY <1>1 DEF RecordedInv, Known

\* A save takes its place in the file with the cursor of the world that was saved.
LEMMA RecordedWrite ==
  ASSUME DInv, NEW c \in Checksums, WriteHeard(c)
  PROVE  RecordedInv'
<1>0. /\ RecordedInv /\ recorded \subseteq Checksums /\ DeliveryTypeOK /\ NewInv /\ FitInv
      /\ ExistInv /\ Q \in Seq(Events) /\ journal \in Journals /\ nextIndex \in Cursors
      /\ persistentItems \in SUBSET Items
  BY QueueType DEF DInv, DeliveryTypeOK, IInv, DataTypeOK
<1>1. /\ Q # <<>> /\ 1 \in DOMAIN Q /\ IsWritten(Q[1]) /\ Q[1].checksum = c
      /\ saves' = saves /\ session' = session
  BY <1>0, TailLemma, WrittenFacts DEF WriteHeard, EventTurn, gameVars
<1>2. c \notin recorded /\ saves[c] # None
  BY <1>0, <1>1 DEF NewInv, NewTo, ExistInv
<1>3. CASE UNCHANGED <<journal, disk, recorded>>
  BY <1>0, <1>1, <1>3 DEF RecordedInv, Known
<1>4. CASE /\ session = Slot /\ journal = disk
           /\ journal' = Record(journal, Slot, c, nextIndex, persistentItems)
           /\ \/ disk' = disk /\ recorded' = recorded
              \/ disk' = journal' /\ recorded' = recorded
              \/ disk' = journal' /\ recorded' = recorded \cup {c} /\ Known(saves[c])
  <2>1. /\ journal'.snapshots[Slot][c] # None
        /\ journal'.snapshots[Slot][c].nextIndex = nextIndex
        /\ \A d \in recorded : journal'.snapshots[Slot][d] = disk.snapshots[Slot][d]
    BY <1>0, <1>2, <1>4, SnapshotPut
  <2>2. CASE recorded' = recorded
    BY <1>1, <1>4, <2>1, <2>2, RecordedFrame DEF SavesKept
  <2>3. CASE disk' = journal' /\ recorded' = recorded \cup {c} /\ Known(saves[c])
    <3>1. saves[c].applied = First(nextIndex)
      <4>1. Point(1) /\ WorldAt(1) = saves[c]
        BY <1>0, <1>1, QueueType DEF Point, WorldAt
      <4>2. Fits(1) /\ NoLoadBefore(Q, 1)
        BY <1>0, <4>1, LoadsAtEnd DEF FitInv, Point
      <4>3. context # "AwaitingCursor"
        BY DEF WriteHeard, Ready
      <4>4. CursorAt(1) = nextIndex
        BY <1>0, QueueType DEF CursorAt, Answered, Before
      <4> QED BY <2>3, <4>1, <4>2, <4>3, <4>4 DEF Fits
    <3>2. ASSUME NEW d \in recorded
          PROVE  /\ saves[d] # None /\ Known(saves[d]) /\ journal'.snapshots[Slot][d] # None
                 /\ saves[d].applied = First(journal'.snapshots[Slot][d].nextIndex)
      BY <1>0, <2>1 DEF RecordedInv
    <3> QED BY <1>1, <1>2, <2>1, <2>3, <3>1, <3>2 DEF RecordedInv, Known
  <2> QED BY <1>4, <2>2, <2>3
<1> QED BY <1>3, <1>4 DEF WriteHeard

LEMMA RecordedStep ==
  ASSUME DInv, [DNext]_deliveryAll
  PROVE  RecordedInv'
<1>0. /\ RecordedInv /\ recorded \subseteq Checksums /\ SavesKept /\ SlotInv
      /\ session # None => \A c \in recorded :
           journal.snapshots[Slot][c] = disk.snapshots[Slot][c]
  BY SavesStep DEF DInv, DeliveryTypeOK, RecordedInv
<1>1. CASE UNCHANGED <<session, journal, disk, recorded>>
  BY <1>0, <1>1, RecordedFrame
<1>2. ASSUME NEW c \in Checksums, WriteHeard(c) PROVE RecordedInv'
  BY <1>2, RecordedWrite
<1>3. CASE QuietTurn
  <2>1. /\ recorded' = recorded /\ session' = session
        /\ journal'.snapshots = journal.snapshots
        /\ \/ disk'.snapshots = disk.snapshots
           \/ session # None /\ disk'.snapshots = journal.snapshots
    BY <1>3 DEF QuietTurn, NetworkTurn, Still
  <2> QED BY <1>0, <2>1, RecordedFrame
<1>4. CASE CursorGiven
  <2>0. journal \in Journals /\ persistentItems' \in SUBSET Items
    BY <1>4, SlotAssumption DEF DInv, IInv, DataTypeOK, CursorGiven, PersistentBefore
  <2>1. session # None /\ session' = session /\ recorded' = recorded
    BY <1>4 DEF CursorGiven, NetworkTurn
  <2>2. \A d \in recorded : journal'.snapshots[Slot][d] = disk.snapshots[Slot][d]
                            /\ disk'.snapshots[Slot][d] = disk.snapshots[Slot][d]
    <3>1. CASE UNCHANGED <<journal, disk>>
      BY <1>0, <2>1, <3>1
    <3>2. CASE /\ journal.snapshots[Slot][checksum] = None
               /\ journal' = StoreSnapshot(journal, Slot, checksum, nextIndex', persistentItems')
               /\ disk' = journal'
      <4>1. checksum \in Checksums /\ nextIndex' \in Cursors
        BY <1>4 DEF CursorGiven
      <4>2. checksum \notin recorded
        BY <1>0, <2>1, <3>2 DEF RecordedInv
      <4>3. \A d \in Checksums : d # checksum =>
              journal'.snapshots[Slot][d] = journal.snapshots[Slot][d]
        BY <2>0, <3>2, <4>1, SnapshotPut
      <4> QED BY <1>0, <2>1, <3>2, <4>2, <4>3
    <3> QED BY <1>4, <3>1, <3>2 DEF CursorGiven
  <2> QED BY <1>0, <2>1, <2>2, RecordedFrame
<1>5. CASE Installed
  <2>1. recorded' = recorded /\ UNCHANGED <<journal, disk>> /\ session = None
        /\ (session' # None => journal = disk)
    BY <1>5 DEF Installed
  <2> QED BY <1>0, <2>1, RecordedFrame
<1>6. CASE Crash
  BY <1>0, <1>6, RecordedFrame DEF Crash, Restart
<1>7. \/ UNCHANGED <<session, journal, disk, recorded>>
      \/ \E c \in Checksums : WriteHeard(c)
      \/ QuietTurn \/ CursorGiven \/ Installed \/ Crash
  BY StepCases
     DEF LoadSave, SaveGame, TaskApplied, TaskDropped, NewGame, QuitToMenu, FinishLoading,
     GainControl, LoseControl, RunReset, ReadContext, DrainQueue, LoadHeard,
     EventIgnored, ItemAnswered, ReplayAnswered, EventTurn, Still, WorldLeft, WorldEntered,
     WorldKept, WorldTurn, EmptyReplay, PoliciesHanded, ResetHanded, ReplayHanded, ItemHanded,
     Handed, NetworkTurn, ResetStarted, TaskQueued, StartRefused,
     deliveryAll, vars, sessionVars, journalVars
<1> QED BY <1>1, <1>2, <1>3, <1>4, <1>5, <1>6, <1>7
-----------------------------------------------------------------------------
\* FitInv: the remaining steps.

LEMMA FitLoadSave ==
  ASSUME DInv, NEW c \in Checksums, LoadSave(c), Q' = Append(Q, LoadedEvent(c))
  PROVE  FitInv'
<1>0. /\ DeliveryTypeOK /\ ExistInv /\ FitInv /\ Q \in Seq(Events)
      /\ saves \in [Checksums -> Worlds \cup {None}]
  BY QueueType DEF DInv, DeliveryTypeOK
<1>1. PICK e \in Events : e = LoadedEvent(c)
  BY EventTypes
<1>2. IsLoad(e) /\ ~IsWritten(e) /\ e.checksum = c
  BY <1>1, LoadedFacts
<1>3. PICK n : n = Len(Q) + 1
  OBVIOUS
<1>4. Q' = Append(Q, e) /\ n \in Nat /\ Len(Q) + 2 = n + 1 /\ DOMAIN Q' = 1..n /\ Q'[n] = e
  BY <1>0, <1>1, <1>3, QueueType, AppendLemma
<1>5. /\ UNCHANGED <<saves, recorded, context, checksum, nextIndex, pending, requestId>>
      /\ world' = [applied |-> saves[c].applied, from |-> c, fresh |-> FALSE]
      /\ saves[c] \in Worlds
  BY <1>0 DEF LoadSave, vars, deliveryVars, requestVars
<1>6. world'.applied = saves[c].applied /\ world'.from = c /\ ~world'.fresh
  BY <1>5, LoadedFactsOfWorld
<1>7. Fits(n + 1)'
  <2>1. ~NoLoadBefore(Q', n + 1) /\ \A m \in DOMAIN Q' : LastLoad(Q', m, n + 1) => m = n
    BY <1>0, <1>2, <1>3, <1>4, LoadsInAppend
  <2>2. WorldAt(n + 1)' = world'
    BY <1>4 DEF WorldAt
  <2>3. MadeFrom(world', c, saves')
    BY <1>5, <1>6 DEF MadeFrom
  <2> QED BY <1>2, <1>4, <2>1, <2>2, <2>3 DEF Fits
<1>8. SavesKept
  BY <1>5 DEF SavesKept
<1> QED BY <1>0, <1>2, <1>3, <1>4, <1>5, <1>7, <1>8, FitAppend

LEMMA FitSaveGame ==
  ASSUME DInv, NEW c \in Checksums, SaveGame(c), Q' = Append(Q, WrittenEvent(c)), SavesKept
  PROVE  FitInv'
<1>0. /\ DeliveryTypeOK /\ ExistInv /\ FitInv
      /\ saves \in [Checksums -> Worlds \cup {None}]
  BY DEF DInv, DeliveryTypeOK
<1>1. PICK e \in Events : e = WrittenEvent(c)
  BY EventTypes
<1>2. IsWritten(e) /\ ~IsLoad(e) /\ e.checksum = c /\ e # Answer
  BY <1>1, WrittenFacts, CompletedFacts DEF Answer
<1>3. PICK n : n = Len(Q) + 1
  OBVIOUS
<1>4. /\ UNCHANGED <<world, recorded, context, checksum, nextIndex, pending, requestId>>
      /\ saves'[c] = world
  BY <1>0 DEF SaveGame, vars, deliveryVars, requestVars
<1>5. Fits(n + 1)'
  BY <1>0, <1>1, <1>2, <1>3, <1>4, FitEnd
<1> QED BY <1>0, <1>1, <1>2, <1>3, <1>4, <1>5, FitAppend

\* A dropped or refused request answers with FALSE, which counts for no world.
LEMMA FitRefused ==
  ASSUME DInv, NEW id \in Nat, Q' = Append(Q, CompletedEvent(id, FALSE)),
         UNCHANGED <<world, saves, recorded, context, checksum, nextIndex, pending, requestId>>
  PROVE  FitInv'
<1>0. DeliveryTypeOK /\ ExistInv /\ FitInv /\ SavesKept
  BY DEF DInv, SavesKept
<1>1. PICK e \in Events : e = CompletedEvent(id, FALSE)
  BY EventTypes
<1>2. ~IsLoad(e) /\ ~IsWritten(e)
  BY <1>1, CompletedFacts
<1>3. e # Answer
  BY <1>1, AppliedFact DEF Answer
<1>4. PICK n : n = Len(Q) + 1
  OBVIOUS
<1>5. Fits(n + 1)'
  BY <1>0, <1>1, <1>2, <1>3, <1>4, FitEnd
<1> QED BY <1>0, <1>1, <1>2, <1>4, <1>5, FitAppend

\* A task that is applied is the answer to the pending request.
LEMMA AppliedIsLive ==
  ASSUME DInv, NEW task \in Tasks, TaskApplied(task)
  PROVE  /\ ~LoadIn(Q) /\ gameplayLoaded
         /\ task.id = requestId /\ pending.kind = task.kind /\ pending.index = task.index
         /\ pending.name = task.name /\ IsWork(pending)
         /\ ~ResetQueued /\ ~Carried
         /\ session # None /\ context # "AwaitingCursor"
         /\ pending.kind = "Item" => /\ task.index = nextIndex /\ nextIndex \in Indices
                                     /\ restore.state = "None"
<1>0. /\ TaskInv /\ IdInv /\ tasks \in Seq(Tasks) /\ tasks # <<>> /\ tasks[1] = task
      /\ IsWork(task) /\ task.epoch = live /\ 1 \in DOMAIN tasks
      /\ IInv /\ ItemsInv
  BY TailLemma DEF DInv, DeliveryTypeOK, TaskApplied
<1>1. LiveTask(1)
  BY <1>0 DEF TaskInv
<1>2. /\ ~LoadIn(Q) /\ gameplayLoaded
      /\ task.id = requestId /\ pending.kind = task.kind /\ pending.index = task.index
      /\ pending.name = task.name /\ IsWork(pending)
      /\ \A j \in DOMAIN tasks : 1 < j => tasks[j].kind # "Reset"
  BY <1>0, <1>1 DEF LiveTask, IsWork
<1>3. ~ResetQueued
  <2>1. \A j \in DOMAIN tasks : j = 1 \/ 1 < j
    BY <1>0, TailLemma
  <2> QED BY <1>0, <1>2, <2>1 DEF ResetQueued, IsWork
<1>4. ~Carried
  <2>1. ASSUME NEW i \in DOMAIN Q, Q[i] = Answer PROVE FALSE
    <3>1. IsCompletion(Q[i]) /\ Q[i].id = requestId
      BY <2>1, CompletedFacts DEF Answer
    <3> QED BY <1>0, <1>2, <3>1 DEF IdInv, IdsFit
  <2> QED BY <2>1 DEF Carried, Before
<1>5. session # None /\ context # "AwaitingCursor"
  BY <1>0, <1>2 DEF IInv, RequestInv, PendingItemIsNext, RequestMatchesRestore, CursorInv,
                    RestoreFollowsCursor, IsWork, Ready
<1>6. ASSUME pending.kind = "Item"
      PROVE  task.index = nextIndex /\ nextIndex \in Indices /\ restore.state = "None"
  BY <1>0, <1>2, <1>6 DEF IInv, RequestInv, PendingItemIsNext, ItemsInv
<1> QED BY <1>2, <1>3, <1>4, <1>5, <1>6

LEMMA FirstNext ==
  ASSUME NEW n \in Indices
  PROVE  [First(n) EXCEPT ![n] = @ + 1] = First(n + 1)
<1>1. n \in Nat /\ \A i \in Indices : i \in Nat
  BY SlotAssumption DEF Indices
<1>2. PICK f : f = First(n)
  OBVIOUS
<1>3. f \in [Indices -> {0, 1}] /\ \A i \in Indices : f[i] = IF i < n THEN 1 ELSE 0
  BY <1>1, <1>2 DEF First
<1>4. \A i \in Indices : [f EXCEPT ![n] = @ + 1][i] = IF i < n + 1 THEN 1 ELSE 0
  BY <1>1, <1>3
<1>5. [f EXCEPT ![n] = @ + 1] = [i \in Indices |-> [f EXCEPT ![n] = @ + 1][i]]
  BY <1>3
<1>6. [f EXCEPT ![n] = @ + 1] = [i \in Indices |-> IF i < n + 1 THEN 1 ELSE 0]
  BY <1>4, <1>5
<1> QED BY <1>2, <1>6 DEF First

\* The item that the plugin waits for reaches the world.
LEMMA FitApplied ==
  ASSUME DInv, NEW task \in Tasks, TaskApplied(task)
  PROVE  FitInv'
<1>0. /\ DeliveryTypeOK /\ ExistInv /\ FitInv /\ Q \in Seq(Events) /\ world \in Worlds
      /\ task.id \in Nat
  BY QueueType DEF DInv, DeliveryTypeOK, Tasks
<1>1. /\ ~LoadIn(Q) /\ task.id = requestId /\ pending.kind = task.kind
      /\ context # "AwaitingCursor" /\ ~Carried /\ IsWork(pending)
      /\ pending.kind = "Item" => task.index = nextIndex /\ nextIndex \in Indices
  BY AppliedIsLive
<1>2. PICK e \in Events : e = CompletedEvent(task.id, TRUE)
  BY <1>0, EventTypes
<1>3. e = Answer /\ ~IsLoad(e) /\ ~IsWritten(e)
  BY <1>1, <1>2, CompletedFacts DEF Answer
<1>4. PICK n : n = Len(Q) + 1
  OBVIOUS
<1>5. /\ Q' = Append(Q, e) /\ n \in Nat /\ Len(Q) + 2 = n + 1 /\ DOMAIN Q' = 1..n
      /\ DOMAIN Q = 1..(n - 1) /\ n \notin DOMAIN Q /\ n \in 1..(Len(Q) + 1)
  BY <1>0, <1>2, <1>4, QueueType, AppendLemma DEF TaskApplied
<1>6. UNCHANGED <<saves, recorded, context, checksum, nextIndex, pending, requestId>>
  BY DEF TaskApplied, vars, deliveryVars, requestVars
<1>7. /\ world'.from = world.from /\ (world'.fresh <=> world.fresh)
      /\ task.kind # "Item" => world' = world
      /\ task.kind = "Item" => world'.applied = [world.applied EXCEPT ![task.index] = @ + 1]
  BY <1>0, WorldApplied
<1>8. Point(n) /\ WorldAt(n) = world /\ WorldAt(n + 1)' = world' /\ Fits(n)
  BY <1>0, <1>5 DEF Point, WorldAt, FitInv
<1>9. CursorAt(n) = nextIndex
  BY <1>1, <1>4 DEF CursorAt, Answered, Carried
<1>10. /\ NoLoadBefore(Q', n + 1) <=> NoLoadBefore(Q, n)
       /\ \A m \in DOMAIN Q' : ~LastLoad(Q', m, n + 1)
  <2>1. NoLoadBefore(Q', n + 1) <=> NoLoadBefore(Q, n)
    BY <1>0, <1>3, <1>4, <1>5, LoadsInAppend
  <2>2. \A m \in DOMAIN Q' : LastLoad(Q', m, n + 1) => LastLoad(Q, m, n)
    BY <1>0, <1>3, <1>4, <1>5, LoadsInAppend
  <2> QED BY <1>1, <2>1, <2>2 DEF LastLoad, LoadIn
<1>11. ASSUME NoLoadBefore(Q', n + 1), world.fresh \/ world.from \in recorded
       PROVE  world'.applied = First(CursorAt(n + 1)')
  <2>1. world.applied = First(nextIndex)
    BY <1>1, <1>8, <1>9, <1>10, <1>11 DEF Fits, Known
  <2>2. CASE pending.kind = "Item"
    <3>1. CursorAt(n + 1)' = nextIndex + 1
      BY <1>0, <1>3, <1>4, <1>5, <1>6, <2>2, CursorInAppend
    <3>2. world'.applied = [First(nextIndex) EXCEPT ![nextIndex] = @ + 1]
      BY <1>1, <1>7, <2>1, <2>2
    <3> QED BY <1>1, <2>2, <3>1, <3>2, FirstNext
  <2>3. CASE pending.kind # "Item"
    <3>1. CursorAt(n + 1)' = CursorAt(n)
      BY <1>0, <1>3, <1>4, <1>5, <1>6, <2>3, CursorInAppend
    <3> QED BY <1>1, <1>7, <1>9, <2>1, <2>3, <3>1
  <2> QED BY <2>2, <2>3
<1>12. Fits(n + 1)'
  BY <1>1, <1>6, <1>7, <1>8, <1>10, <1>11 DEF Fits, Known
<1>13. SavesKept
  BY <1>6 DEF SavesKept
<1> QED BY <1>0, <1>3, <1>4, <1>5, <1>6, <1>12, <1>13, FitAppend

\* A world of which nothing is known fits any cursor; so does a new game that
\* begins while the plugin waits for one.
LEMMA FitWorld ==
  ASSUME DInv, Q' = Q, UNCHANGED <<saves, recorded, context, checksum, nextIndex, pending, requestId>>,
         world'.from = None,
         world'.fresh => ~LoadIn(Q) /\ context = "Waiting" /\ world'.applied = First(0)
  PROVE  FitInv'
<1> SUFFICES ASSUME NEW k, Point(k)' PROVE Fits(k)'
  BY DEF FitInv
<1>0. /\ Q \in Seq(Events) /\ FitInv /\ recorded \subseteq Checksums /\ None \notin recorded
      /\ IInv
  BY QueueType, SlotAssumption DEF DInv, DeliveryTypeOK
<1>1. /\ Point(k) /\ k \in 1..(Len(Q) + 1)
      /\ WorldAt(k)' = IF k \in DOMAIN Q THEN saves[Q[k].checksum] ELSE world'
  BY <1>0, PointsSame
<1>2. Fits(k) /\ CursorAt(k)' = CursorAt(k)
  BY <1>0, <1>1, CursorKept DEF FitInv
<1>3. CASE k \in DOMAIN Q
  <2>1. PICK w : w = WorldAt(k) /\ w = WorldAt(k)'
    BY <1>1, <1>3 DEF WorldAt
  <2>2. /\ \A m \in DOMAIN Q : LastLoad(Q, m, k) => MadeFrom(w, Q[m].checksum, saves)
        /\ NoLoadBefore(Q, k) /\ context = "AwaitingCursor" => MadeFrom(w, checksum, saves)
        /\ NoLoadBefore(Q, k) /\ context # "AwaitingCursor" /\ (w.fresh \/ w.from \in recorded)
             => w.applied = First(CursorAt(k))
    BY <1>2, <2>1 DEF Fits, Known
  <2> QED BY <1>2, <2>1, <2>2 DEF Fits, Known
<1>4. CASE k \notin DOMAIN Q
  <2>1. WorldAt(k)' = world'
    BY <1>1, <1>4
  <2>2. CASE ~world'.fresh
    BY <1>0, <2>1, <2>2 DEF Fits, Known, MadeFrom
  <2>3. CASE world'.fresh
    <3>1. nextIndex = 0 /\ pending.kind # "Item"
      BY <1>0, <2>3 DEF IInv, CursorInv, RequestInv, PendingItemIsNext, Ready
    <3>2. CursorAt(k) = 0
      BY <3>1 DEF CursorAt, Answered
    <3>3. \A m \in DOMAIN Q : ~LastLoad(Q, m, k)
      BY <2>3 DEF LastLoad, LoadIn
    <3> QED BY <1>2, <2>1, <2>3, <3>2, <3>3 DEF Fits
  <2> QED BY <2>2, <2>3
<1> QED BY <1>3, <1>4

LEMMA FitCrash ==
  ASSUME DInv, Crash, Q' = <<>>
  PROVE  FitInv'
<1> SUFFICES ASSUME NEW k, Point(k)' PROVE Fits(k)'
  BY DEF FitInv
<1>1. WorldAt(k)' = NoWorld
  BY DEF WorldAt, Crash
<1>2. recorded' = recorded /\ None \notin recorded
  BY SlotAssumption DEF Crash, DInv, DeliveryTypeOK
<1> QED BY <1>1, <1>2, NoWorldFacts DEF Fits, Known, MadeFrom

\* The runtime ends its world when no world that it could take for its own is left.
LEMMA FitWorldLeft ==
  ASSUME DInv, WorldLeft, Q' = Q
  PROVE  FitInv'
<1> SUFFICES ASSUME NEW k, Point(k)' PROVE Fits(k)'
  BY DEF FitInv
<1>0. /\ Q \in Seq(Events) /\ FitInv /\ GoneInv /\ None \notin recorded
      /\ UNCHANGED <<world, saves, recorded>> /\ context' = "Waiting"
      /\ pc = "Events" /\ batch = <<>> /\ Ending
  BY QueueType, SlotAssumption DEF DInv, DeliveryTypeOK, WorldLeft, WorldTurn
<1>1. /\ Point(k) /\ k \in 1..(Len(Q) + 1) /\ k \in Nat /\ WorldAt(k)' = WorldAt(k)
  BY <1>0, PointsSame DEF WorldAt
<1>2. Behind(k)
  BY <1>0, <1>1 DEF Behind
<1>3. Gone(k) /\ Fits(k)
  BY <1>0, <1>1, <1>2 DEF GoneInv, FitInv
<1>4. PICK w : w = WorldAt(k)
  OBVIOUS
<1>5. /\ \A m \in DOMAIN Q : LastLoad(Q, m, k) => MadeFrom(w, Q[m].checksum, saves)
      /\ NoLoadBefore(Q, k) => ~w.fresh /\ w.from = None
  BY <1>3, <1>4 DEF Fits, Gone
<1> QED BY <1>0, <1>1, <1>4, <1>5 DEF Fits, Known

\* The cursor that is given for a loaded save is that of the worlds loaded from it.
LEMMA FitCursorGiven ==
  ASSUME DInv, CursorGiven, Q' = Q
  PROVE  FitInv'
<1> SUFFICES ASSUME NEW k, Point(k)' PROVE Fits(k)'
  BY DEF FitInv
<1>0. /\ Q \in Seq(Events) /\ FitInv /\ RecordedInv /\ None \notin recorded
      /\ UNCHANGED <<world, saves, recorded>> /\ context = "AwaitingCursor"
      /\ context' = "ActiveRevision" /\ session # None /\ checksum \in Checksums
  BY QueueType, SlotAssumption DEF DInv, DeliveryTypeOK, CursorGiven, NetworkTurn, gameVars
<1>1. /\ Point(k) /\ k \in 1..(Len(Q) + 1) /\ WorldAt(k)' = WorldAt(k)
  BY <1>0, PointsSame DEF WorldAt
<1>2. Fits(k)
  BY <1>0, <1>1 DEF FitInv
<1>3. PICK w : w = WorldAt(k)
  OBVIOUS
<1>4. CursorAt(k)' = nextIndex'
  <2>1. pending'.kind = "None"
    BY DEF CursorGiven, NoRequest
  <2> QED BY <2>1 DEF CursorAt, Answered
<1>5. ASSUME NoLoadBefore(Q, k), w.fresh \/ w.from \in recorded
      PROVE  w.applied = First(nextIndex')
  <2>1. MadeFrom(w, checksum, saves)
    BY <1>0, <1>2, <1>3, <1>5 DEF Fits
  <2>2. checksum \in recorded /\ w.applied = saves[checksum].applied
    BY <1>0, <1>5, <2>1 DEF MadeFrom
  <2>3. /\ w.applied = First(journal.snapshots[Slot][checksum].nextIndex)
        /\ journal.snapshots[Slot][checksum] # None
    BY <1>0, <2>2 DEF RecordedInv
  <2> QED BY <2>3 DEF CursorGiven
<1>6. \A m \in DOMAIN Q : LastLoad(Q, m, k) => MadeFrom(w, Q[m].checksum, saves)
  BY <1>2, <1>3 DEF Fits
<1> QED BY <1>0, <1>1, <1>3, <1>4, <1>5, <1>6 DEF Fits, Known

LEMMA FitStep ==
  ASSUME DInv, [DNext]_deliveryAll
  PROVE  FitInv'
<1>0. /\ Q \in Seq(Events) /\ FitInv /\ SavesKept /\ MenuInv /\ IdInv
      /\ \A task \in Tasks : task.id \in Nat
      /\ requestId \in Nat
  BY QueueType, SavesStep, BoundsAssumption DEF DInv, Tasks, IInv, DataTypeOK
<1>1. CASE \E c \in Checksums : LoadSave(c) /\ Q' = Append(Q, LoadedEvent(c))
  BY <1>1, FitLoadSave
<1>2. CASE \E c \in Checksums : SaveGame(c) /\ Q' = Append(Q, WrittenEvent(c))
  BY <1>0, <1>2, FitSaveGame
<1>3. CASE \E task \in Tasks : TaskApplied(task)
  BY <1>3, FitApplied
<1>4. ASSUME NEW task \in Tasks, TaskDropped(task) PROVE FitInv'
  BY <1>0, <1>4, FitRefused DEF TaskDropped, vars, deliveryVars, requestVars
<1>5. CASE StartRefused
  BY <1>0, <1>5, FitRefused DEF StartRefused, vars, deliveryVars, requestVars, gameVars
<1>6. CASE NewGame /\ Q' = Q
  <2>1. /\ UNCHANGED <<saves, recorded, context, checksum, nextIndex, pending, requestId>>
        /\ menuPolled = "Yes"
    BY <1>6 DEF NewGame, vars, deliveryVars, requestVars
  <2>2. world'.from = None /\ world'.applied = First(0) /\ (world'.fresh <=> context = "Waiting")
    BY <1>6, NewWorldFacts DEF NewGame
  <2> QED BY <1>0, <1>6, <2>1, <2>2, FitWorld DEF MenuInv
<1>7. CASE QuitToMenu /\ Q' = Q
  BY <1>7, NoWorldFacts, FitWorld DEF QuitToMenu, vars, deliveryVars, requestVars
<1>8. CASE Crash /\ Q' = <<>>
  BY <1>8, FitCrash
<1>9. CASE WorldLeft /\ Q' = Q
  BY <1>9, FitWorldLeft
<1>10. CASE CursorGiven /\ Q' = Q
  BY <1>10, FitCursorGiven
<1>11. CASE \/ \E c \in Checksums : LoadHeard(c) \/ WriteHeard(c)
            \/ EventIgnored \/ ItemAnswered \/ ReplayAnswered
  BY <1>11, FitLoadHeard, FitWriteHeard, FitEventIgnored, FitItemAnswered, FitReplayAnswered
<1>12. CASE \/ (FinishLoading \/ GainControl \/ LoseControl) /\ Q' = Q
            \/ (RunReset \/ ReadContext \/ DrainQueue \/ UNCHANGED deliveryAll) /\ Q' = Q
            \/ (WorldEntered \/ WorldKept \/ QuietTurn \/ EmptyReplay \/ TaskQueued) /\ Q' = Q
  <2>1. /\ nextIndex' = nextIndex /\ UNCHANGED <<world, saves, recorded, pending, requestId>>
        /\ \/ UNCHANGED <<context, checksum>>
           \/ context = "Waiting" /\ context' = "Provisional"
    BY <1>12 DEF FinishLoading, GainControl, LoseControl, RunReset, ReadContext, DrainQueue,
       deliveryAll, WorldEntered, WorldKept, WorldTurn, QuietTurn, NetworkTurn, Still,
       EmptyReplay, TaskQueued, vars, deliveryVars, requestVars, gameVars
  <2> QED BY <1>0, <1>12, <2>1, FitSame
<1>13. CASE \/ (PoliciesHanded \/ ResetHanded \/ ReplayHanded) /\ Q' = Q
            \/ (Installed \/ ResetStarted) /\ Q' = Q
  <2>1. /\ nextIndex' = nextIndex /\ UNCHANGED <<world, saves, recorded, context, checksum>>
        /\ pending.kind # "Item" /\ pending'.kind # "Item"
    BY <1>13 DEF PoliciesHanded, ResetHanded, ReplayHanded, Handed, NetworkTurn, Installed,
                 ResetStarted, NoRequest, gameVars
  <2> QED BY <1>0, <1>13, <2>1, FitSame
<1>14. CASE ItemHanded /\ Q' = Q
  <2>1. /\ nextIndex' = nextIndex /\ UNCHANGED <<world, saves, recorded, context, checksum>>
        /\ pending.kind = "None" /\ requestId' = requestId + 1
    BY <1>14 DEF ItemHanded, Handed, NetworkTurn, NoRequest, gameVars
  <2>2. ~Carried'
    <3>1. ASSUME NEW i \in DOMAIN Q, Q[i] = Answer' PROVE FALSE
      <4>1. Answer' = CompletedEvent(requestId + 1, TRUE)
        BY <2>1 DEF Answer
      <4>2. IsCompletion(Q[i]) /\ Q[i].id = requestId + 1
        BY <3>1, <4>1, CompletedFacts
      <4> QED BY <1>0, <4>2 DEF IdInv, IdsFit
    <3> QED BY <1>14, <3>1 DEF Carried, Before
  <2> QED BY <1>0, <1>14, <2>1, <2>2, FitSame
<1> QED BY <1>1, <1>2, <1>3, <1>4, <1>5, <1>6, <1>7, <1>8, <1>9, <1>10, <1>11, <1>12, <1>13,
           <1>14, StepCases
-----------------------------------------------------------------------------
\* IdInv: no request is on its way twice.

LEMMA IdsDropEvent ==
  ASSUME NEW q \in Seq(Events), NEW ts \in Seq(Tasks), NEW n \in Nat, q # <<>>,
         IdsFit(q, ts, n), NEW r, r = Tail(q)
  PROVE  IdsFit(r, ts, n) /\ \A id \in Nat : Unused(q, ts, id) => Unused(r, ts, id)
<1>1. \A i \in DOMAIN r : i + 1 \in DOMAIN q /\ r[i] = q[i + 1] /\ i \in Nat
  BY TailLemma
<1> QED BY <1>1 DEF IdsFit, Unused

LEMMA IdsDropTask ==
  ASSUME NEW q \in Seq(Events), NEW ts \in Seq(Tasks), NEW n \in Nat, ts # <<>>,
         IdsFit(q, ts, n), NEW us, us = Tail(ts)
  PROVE  /\ IdsFit(q, us, n) /\ \A id \in Nat : Unused(q, ts, id) => Unused(q, us, id)
         /\ IsWork(ts[1]) => Unused(q, us, ts[1].id)
<1>1. \A i \in DOMAIN us : i + 1 \in DOMAIN ts /\ us[i] = ts[i + 1] /\ i \in Nat /\ i + 1 # 1
  BY TailLemma
<1>2. 1 \in DOMAIN ts
  BY TailLemma
<1> QED BY <1>1, <1>2 DEF IdsFit, Unused

LEMMA IdsAddEvent ==
  ASSUME NEW q \in Seq(Events), NEW ts \in Seq(Tasks), NEW n \in Nat, NEW e \in Events,
         IdsFit(q, ts, n), IsCompletion(e) => e.id \in 0..n /\ Unused(q, ts, e.id),
         NEW r, r = Append(q, e)
  PROVE  /\ IdsFit(r, ts, n)
         /\ \A id \in Nat : Unused(q, ts, id) /\ (IsCompletion(e) => e.id # id)
                              => Unused(r, ts, id)
<1>1. \A i \in DOMAIN r : \/ i \in DOMAIN q /\ r[i] = q[i]
                          \/ i = Len(q) + 1 /\ r[i] = e
  BY AppendLemma
<1> QED BY <1>1 DEF IdsFit, Unused

LEMMA IdsAddTask ==
  ASSUME NEW q \in Seq(Events), NEW ts \in Seq(Tasks), NEW n \in Nat, NEW task \in Tasks,
         IdsFit(q, ts, n), IsWork(task) => task.id \in 0..n /\ Unused(q, ts, task.id),
         NEW us, us = Append(ts, task)
  PROVE  IdsFit(q, us, n)
<1>1. \A i \in DOMAIN us : \/ i \in DOMAIN ts /\ us[i] = ts[i]
                           \/ i = Len(ts) + 1 /\ us[i] = task
  BY AppendLemma
<1> QED BY <1>1 DEF IdsFit, Unused

LEMMA IdsGrow ==
  ASSUME NEW q \in Seq(Events), NEW ts \in Seq(Tasks), NEW n \in Nat, IdsFit(q, ts, n)
  PROVE  IdsFit(q, ts, n + 1) /\ Unused(q, ts, n + 1)
<1>1. \A x \in 0..n : x \in 0..(n + 1) /\ x # n + 1
  OBVIOUS
<1> QED BY <1>1 DEF IdsFit, Unused

\* A task that is done leaves its answer.
LEMMA IdTaskDone ==
  ASSUME DInv, NEW task \in Tasks, TaskApplied(task) \/ TaskDropped(task)
  PROVE  IdInv'
<1>0. /\ Q \in Seq(Events) /\ tasks \in Seq(Tasks) /\ requestId \in Nat /\ IdInv
      /\ tasks # <<>> /\ tasks[1] = task /\ IsWork(task) /\ tasks' = Tail(tasks)
      /\ UNCHANGED <<requestId, pc>> /\ task.id \in Nat /\ 1 \in DOMAIN tasks
  <2>1. /\ Q \in Seq(Events) /\ tasks \in Seq(Tasks) /\ requestId \in Nat /\ IdInv
        /\ task.id \in Nat
    BY QueueType, BoundsAssumption DEF DInv, DeliveryTypeOK, IInv, DataTypeOK, Tasks
  <2>2. /\ tasks # <<>> /\ tasks[1] = task /\ IsWork(task) /\ tasks' = Tail(tasks)
        /\ UNCHANGED <<requestId, pc>>
    BY DEF TaskApplied, TaskDropped, vars, requestVars, loopVars
  <2>3. 1 \in DOMAIN tasks
    BY <2>1, <2>2, TailLemma
  <2> QED BY <2>1, <2>2, <2>3
<1>1. PICK e \in Events : Q' = Append(Q, e) /\ IsCompletion(e) /\ e.id = task.id
  <2>1. CASE TaskApplied(task)
    <3>1. PICK e \in Events : e = CompletedEvent(task.id, TRUE)
      BY <1>0, EventTypes
    <3> QED BY <2>1, <3>1, CompletedFacts DEF TaskApplied
  <2>2. CASE TaskDropped(task)
    <3>1. PICK e \in Events : e = CompletedEvent(task.id, FALSE)
      BY <1>0, EventTypes
    <3> QED BY <2>2, <3>1, CompletedFacts DEF TaskDropped
  <2> QED BY <2>1, <2>2
<1>2. PICK us \in Seq(Tasks) : us = Tail(tasks)
  BY <1>0, TailLemma
<1>3. /\ IdsFit(Q, us, requestId)
      /\ \A id \in Nat : Unused(Q, tasks, id) => Unused(Q, us, id)
      /\ Unused(Q, us, task.id)
  BY <1>0, <1>2, IdsDropTask DEF IdInv
<1>4. task.id \in 0..requestId
  BY <1>0 DEF IdInv, IdsFit
<1>5. /\ IdsFit(Q', us, requestId)
      /\ Unused(Q, us, requestId) /\ e.id # requestId => Unused(Q', us, requestId)
  BY <1>0, <1>1, <1>3, <1>4, IdsAddEvent
<1>6. pc = "Start" => Unused(Q', us, requestId)
  BY <1>0, <1>1, <1>3, <1>5 DEF IdInv, Unused
<1> QED BY <1>0, <1>2, <1>5, <1>6 DEF IdInv

LEMMA IdStep ==
  ASSUME DInv, [DNext]_deliveryAll
  PROVE  IdInv'
<1>0. /\ Q \in Seq(Events) /\ tasks \in Seq(Tasks) /\ requestId \in Nat /\ IdInv
      /\ requestId \in 0..requestId
  BY QueueType, BoundsAssumption DEF DInv, DeliveryTypeOK, IInv, DataTypeOK
<1>1. ASSUME UNCHANGED <<requestId, tasks>>, NEW e \in Events, Q' = Append(Q, e),
             ~IsCompletion(e), pc' = pc
      PROVE  IdInv'
  BY <1>0, <1>1, IdsAddEvent DEF IdInv
<1>2. CASE \/ \E c \in Checksums : LoadSave(c) /\ Q' = Append(Q, LoadedEvent(c))
           \/ \E c \in Checksums : SaveGame(c) /\ Q' = Append(Q, WrittenEvent(c))
  <2>1. UNCHANGED <<requestId, tasks, pc>>
    BY <1>2 DEF LoadSave, SaveGame, vars, requestVars, loopVars
  <2>2. \E e \in Events : Q' = Append(Q, e) /\ ~IsCompletion(e)
    BY <1>2, EventTypes, LoadedFacts, WrittenFacts
  <2> QED BY <1>1, <2>1, <2>2
<1>3. CASE \E task \in Tasks : TaskApplied(task) \/ TaskDropped(task)
  BY <1>3, IdTaskDone
<1>4. CASE /\ UNCHANGED <<requestId, tasks>> /\ Q' = Q
           /\ pc' = "Start" => pc = "Start"
  BY <1>0, <1>4 DEF IdInv
<1>5. CASE RunReset /\ Q' = Q
  <2>1. tasks # <<>> /\ tasks' = Tail(tasks) /\ UNCHANGED <<requestId, pc>>
    BY <1>5 DEF RunReset, vars, requestVars, loopVars
  <2> QED BY <1>0, <1>5, <2>1, IdsDropTask DEF IdInv
<1>6. CASE \/ \E c \in Checksums : LoadHeard(c) \/ WriteHeard(c)
           \/ EventIgnored \/ ItemAnswered \/ ReplayAnswered
  <2>1. Q # <<>> /\ Q' = Tail(Q) /\ UNCHANGED <<requestId, tasks, pc>>
    BY <1>6 DEF LoadHeard, WriteHeard, EventIgnored, ItemAnswered, ReplayAnswered, EventTurn,
                queueVars
  <2> QED BY <1>0, <2>1, IdsDropEvent DEF IdInv
<1>7. CASE (PoliciesHanded \/ ResetHanded \/ ReplayHanded \/ ItemHanded) /\ Q' = Q
  <2>1. requestId' = requestId + 1 /\ tasks' = tasks
    BY <1>7 DEF PoliciesHanded, ResetHanded, ReplayHanded, ItemHanded, Handed, NetworkTurn,
                queueVars
  <2> QED BY <1>0, <1>7, <2>1, IdsGrow DEF IdInv
<1>8. CASE TaskQueued /\ Q' = Q
  <2>1. /\ pc = "Start" /\ pc' = "Poll" /\ tasks' = Append(tasks, PendingTask)
        /\ requestId' = requestId
    BY <1>8 DEF TaskQueued, vars, requestVars
  <2>2. PendingTask \in Tasks
    <3>1. IsWork(pending)
      BY <1>8 DEF TaskQueued
    <3> QED BY <3>1, PendingTaskType
  <2>3. PendingTask.id = requestId
    BY DEF PendingTask
  <2> QED BY <1>0, <1>8, <2>1, <2>2, <2>3, IdsAddTask DEF IdInv
<1>9. CASE ResetStarted /\ Q' = Q
  <2>1. /\ pc' = "Poll" /\ requestId' = requestId
        /\ tasks' = tasks \/ tasks' = Append(tasks, ResetTask)
    BY <1>9 DEF ResetStarted
  <2>2. ResetTask \in Tasks
    BY SlotAssumption DEF ResetTask, Tasks, Indices
  <2>3. ~IsWork(ResetTask)
    BY DEF ResetTask, IsWork
  <2> QED BY <1>0, <1>9, <2>1, <2>2, <2>3, IdsAddTask DEF IdInv
<1>10. CASE StartRefused
  <2>1. /\ pc = "Start" /\ pc' = "Poll" /\ UNCHANGED <<tasks, requestId>>
    BY <1>10 DEF StartRefused, vars, requestVars
  <2>2. PICK e \in Events : e = CompletedEvent(requestId, FALSE)
    BY <1>0, EventTypes
  <2>3. Q' = Append(Q, e) /\ e.id = requestId
    BY <1>10, <2>2, CompletedFacts DEF StartRefused
  <2> QED BY <1>0, <2>1, <2>3, IdsAddEvent DEF IdInv
<1>11. CASE Crash /\ Q' = <<>>
  <2>1. tasks' = <<>> /\ pc' = "Read"
    BY <1>11 DEF Crash
  <2> QED BY <1>11, <2>1 DEF IdInv, IdsFit
<1>12. CASE \/ (NewGame \/ QuitToMenu \/ FinishLoading \/ GainControl \/ LoseControl) /\ Q' = Q
            \/ (ReadContext \/ DrainQueue \/ UNCHANGED deliveryAll) /\ Q' = Q
            \/ (WorldLeft \/ WorldEntered \/ WorldKept) /\ Q' = Q
            \/ (QuietTurn \/ EmptyReplay \/ CursorGiven \/ Installed) /\ Q' = Q
  <2>1. UNCHANGED <<requestId, tasks>> /\ (pc' = "Start" => pc = "Start")
    BY <1>12 DEF NewGame, QuitToMenu, FinishLoading, GainControl, LoseControl, ReadContext,
       DrainQueue, deliveryAll, WorldLeft, WorldEntered, WorldKept, WorldTurn, QuietTurn, Still,
       EmptyReplay, CursorGiven, NetworkTurn, Installed, vars, requestVars, queueVars, loopVars
  <2> QED BY <1>4, <1>12, <2>1
<1> QED BY <1>2, <1>3, <1>5, <1>6, <1>7, <1>8, <1>9, <1>10, <1>11, <1>12, StepCases-----------------------------------------------------------------------------
\* TaskInv.

\* A request that is not with the game, or that the plugin has given up, has no task
\* that could still be applied.
LEMMA NoneLive ==
  ASSUME DInv,
         \/ ~IsWork(pending) \/ LoadIn(Q) \/ ~gameplayLoaded \/ pc = "Start"
         \/ Q # <<>> /\ IsCompletion(Q[1]) /\ Q[1].id = requestId
  PROVE  \A i \in DOMAIN tasks : IsWork(tasks[i]) => tasks[i].epoch # live
<1>0. TaskInv /\ IdInv /\ Q \in Seq(Events)
  BY QueueType DEF DInv
<1> SUFFICES ASSUME NEW i \in DOMAIN tasks, IsWork(tasks[i]), tasks[i].epoch = live
             PROVE  FALSE
  OBVIOUS
<1>1. LiveTask(i)
  BY <1>0 DEF TaskInv
<1>2. /\ ~LoadIn(Q) /\ gameplayLoaded /\ tasks[i].id = requestId
      /\ IsWork(pending)
  BY <1>1 DEF LiveTask, IsWork
<1>3. pc # "Start"
  BY <1>0, <1>2 DEF IdInv, Unused
<1>4. ~(Q # <<>> /\ IsCompletion(Q[1]) /\ Q[1].id = requestId)
  <2>1. Q # <<>> => 1 \in DOMAIN Q
    BY <1>0, TailLemma
  <2> QED BY <1>0, <1>2, <2>1 DEF IdInv, IdsFit
<1> QED BY <1>2, <1>3, <1>4

LEMMA TaskFrame ==
  ASSUME DInv, tasks' = tasks, observed' \in Nat, observed <= observed',
         \/ /\ UNCHANGED <<live, pending, requestId>>
            /\ LoadIn(Q') => LoadIn(Q)
            /\ gameplayLoaded => gameplayLoaded'
         \/ \A i \in DOMAIN tasks : IsWork(tasks[i]) => tasks[i].epoch # live'
  PROVE  TaskInv'
<1>0. /\ TaskInv /\ observed \in Nat
      /\ \A i \in DOMAIN tasks : tasks[i].epoch \in Nat
  <2>1. tasks \in Seq(Tasks) /\ observed \in Nat /\ TaskInv
    BY DEF DInv, DeliveryTypeOK
  <2>2. \A i \in DOMAIN tasks : tasks[i] \in Tasks
    BY <2>1
  <2> QED BY <2>1, <2>2 DEF Tasks
<1>1. \A i \in DOMAIN tasks' : IsWork(tasks'[i]) => tasks'[i].epoch <= observed'
  BY <1>0 DEF TaskInv
<1>2. ASSUME NEW i \in DOMAIN tasks', IsWork(tasks'[i]), tasks'[i].epoch = live'
      PROVE  LiveTask(i)'
  BY <1>0, <1>2 DEF TaskInv, LiveTask
<1> QED BY <1>1, <1>2 DEF TaskInv

LEMMA TaskTail ==
  ASSUME DInv, tasks # <<>>, tasks' = Tail(tasks), LoadIn(Q') => LoadIn(Q),
         UNCHANGED <<live, observed, pending, requestId, gameplayLoaded>>
  PROVE  TaskInv'
<1>0. TaskInv /\ tasks \in Seq(Tasks)
  BY DEF DInv, DeliveryTypeOK
<1>1. \A i \in DOMAIN tasks' : i + 1 \in DOMAIN tasks /\ tasks'[i] = tasks[i + 1] /\ i \in Nat
  BY <1>0, TailLemma
<1>2. \A i \in DOMAIN tasks' : IsWork(tasks'[i]) => tasks'[i].epoch <= observed
  BY <1>0, <1>1 DEF TaskInv
<1>3. ASSUME NEW i \in DOMAIN tasks', IsWork(tasks'[i]), tasks'[i].epoch = live
      PROVE  LiveTask(i)'
  <2>1. LiveTask(i + 1)
    BY <1>0, <1>1, <1>3 DEF TaskInv
  <2>2. \A j \in DOMAIN tasks' : i < j => tasks'[j].kind # "Reset"
    BY <1>1, <2>1 DEF LiveTask
  <2> QED BY <1>1, <2>1, <2>2 DEF LiveTask
<1> QED BY <1>2, <1>3 DEF TaskInv

LEMMA TaskJoins ==
  ASSUME DInv, TaskQueued, Q' = Q
  PROVE  TaskInv'
<1>0. /\ TaskInv /\ LoopInv /\ EpochInv /\ tasks \in Seq(Tasks) /\ DeliveryTypeOK
      /\ pc = "Start" /\ IsWork(pending) /\ PendingTask \in Tasks
      /\ UNCHANGED <<live, observed, pending, requestId, gameplayLoaded>>
  BY PendingTaskType
     DEF DInv, DeliveryTypeOK, TaskQueued, vars, requestVars
<1>1. PICK task \in Tasks : task = PendingTask
  BY <1>0
<1>2. PICK n \in Nat : n = Len(tasks)
  BY <1>0
<1>3. /\ DOMAIN tasks' = 1..(n + 1) /\ DOMAIN tasks = 1..n
      /\ \A i \in 1..n : tasks'[i] = tasks[i]
      /\ tasks'[n + 1] = task
  <2>1. tasks' = Append(tasks, task)
    BY <1>1 DEF TaskQueued
  <2> QED BY <1>0, <1>2, <2>1, AppendLemma
<1>4. /\ task.id = requestId /\ task.epoch = observed /\ task.kind = pending.kind
      /\ task.index = pending.index /\ task.name = pending.name
  BY <1>1 DEF PendingTask
<1>5. \A i \in DOMAIN tasks : IsWork(tasks[i]) => tasks[i].epoch # live
  BY <1>0, NoneLive
<1>6. observed = live => ~LoadIn(Q) /\ gameplayLoaded
  <2>1. gameplayLoaded /\ batch = <<>>
    BY <1>0 DEF LoopInv, IsWork, IsLoaded
  <2>2. Q = events
    BY <1>0, <2>1, QueueParts
  <2> QED BY <1>0, <2>1, <2>2 DEF EpochInv
<1>7. \A i \in DOMAIN tasks' : IsWork(tasks'[i]) => tasks'[i].epoch <= observed
  <2>1. observed <= observed
    BY <1>0 DEF DeliveryTypeOK
  <2> QED BY <1>0, <1>3, <1>4, <2>1 DEF TaskInv
<1>8. ASSUME NEW i \in DOMAIN tasks', IsWork(tasks'[i]), tasks'[i].epoch = live
      PROVE  LiveTask(i)'
  <2>1. i = n + 1 /\ observed = live /\ tasks'[i] = task
    BY <1>3, <1>4, <1>5, <1>8
  <2>2. \A j \in DOMAIN tasks' : ~(i < j)
    BY <1>3, <2>1
  <2> QED BY <1>0, <1>4, <1>6, <2>1, <2>2 DEF LiveTask
<1> QED BY <1>0, <1>7, <1>8 DEF TaskInv

LEMMA ResetJoins ==
  ASSUME DInv, ResetStarted
  PROVE  TaskInv'
<1>0. /\ TaskInv /\ tasks \in Seq(Tasks) /\ ResetTask \in Tasks /\ ~IsWork(ResetTask)
      /\ UNCHANGED <<live, observed>> /\ ~IsWork(pending)
      /\ tasks' = tasks \/ tasks' = Append(tasks, ResetTask)
  BY SlotAssumption
     DEF DInv, DeliveryTypeOK, ResetStarted, ResetTask, Tasks, Indices, IsWork
<1>1. \A i \in DOMAIN tasks : IsWork(tasks[i]) => tasks[i].epoch # live
  BY <1>0, NoneLive
<1>2. \A i \in DOMAIN tasks' : IsWork(tasks'[i]) => i \in DOMAIN tasks /\ tasks'[i] = tasks[i]
  <2>1. PICK task \in Tasks : task = ResetTask
    BY <1>0
  <2>2. CASE tasks' = Append(tasks, task)
    <3>1. \A i \in DOMAIN tasks' : \/ i \in DOMAIN tasks /\ tasks'[i] = tasks[i]
                                   \/ tasks'[i] = task
      BY <1>0, <2>2, AppendLemma
    <3> QED BY <1>0, <2>1, <3>1
  <2> QED BY <1>0, <2>1, <2>2
<1> QED BY <1>0, <1>1, <1>2 DEF TaskInv

LEMMA TaskStep ==
  ASSUME DInv, [DNext]_deliveryAll
  PROVE  TaskInv'
<1>0. /\ DeliveryTypeOK /\ EpochInv /\ TaskInv /\ Q \in Seq(Events)
      /\ live \in Nat /\ observed \in Nat /\ observed <= live /\ observed <= observed
      /\ \A i \in DOMAIN tasks : IsWork(tasks[i]) => tasks[i].epoch <= observed
      /\ \A i \in DOMAIN tasks : tasks[i].epoch \in Nat
  <2>1. /\ DeliveryTypeOK /\ EpochInv /\ TaskInv /\ live \in Nat /\ observed \in Nat
        /\ tasks \in Seq(Tasks)
    BY DEF DInv, DeliveryTypeOK
  <2>2. \A i \in DOMAIN tasks : tasks[i] \in Tasks
    BY <2>1
  <2>3. \A i \in DOMAIN tasks : tasks[i].epoch \in Nat
    BY <2>2 DEF Tasks
  <2> QED BY <2>1, <2>3, QueueType DEF EpochInv, TaskInv
<1>1. ASSUME live' = live + 1 PROVE \A i \in DOMAIN tasks : IsWork(tasks[i]) => tasks[i].epoch # live'
  BY <1>0, <1>1
<1>2. ASSUME NEW c \in Checksums, LoadSave(c) PROVE TaskInv'
  BY <1>0, <1>1, <1>2, TaskFrame DEF LoadSave
<1>3. CASE \/ \E c \in Checksums : SaveGame(c) /\ Q' = Append(Q, WrittenEvent(c))
           \/ StartRefused
  <2>1. LoadIn(Q') <=> LoadIn(Q)
    BY <1>0, <1>3, SentEvent, SentLoads
  <2>2. UNCHANGED <<live, observed, tasks, pending, requestId, gameplayLoaded>>
    BY <1>3 DEF SaveGame, StartRefused, vars, requestVars
  <2> QED BY <1>0, <2>1, <2>2, TaskFrame
<1>4. ASSUME NEW task \in Tasks, TaskApplied(task) \/ TaskDropped(task) PROVE TaskInv'
  <2>1. LoadIn(Q') <=> LoadIn(Q)
    BY <1>0, <1>4, SentEvent, SentLoads
  <2>2. /\ UNCHANGED <<live, observed, pending, requestId, gameplayLoaded>>
        /\ tasks # <<>> /\ tasks' = Tail(tasks)
    BY <1>4 DEF TaskApplied, TaskDropped, vars, requestVars
  <2> QED BY <2>1, <2>2, TaskTail
<1>5. CASE RunReset /\ Q' = Q
  BY <1>5, TaskTail DEF RunReset, vars, requestVars
<1>6. CASE \/ (NewGame \/ QuitToMenu \/ FinishLoading \/ GainControl \/ LoseControl) /\ Q' = Q
           \/ (ReadContext \/ DrainQueue \/ UNCHANGED deliveryAll) /\ Q' = Q
           \/ (QuietTurn \/ EmptyReplay \/ CursorGiven) /\ Q' = Q
  <2>1. /\ UNCHANGED <<live, tasks, pending, requestId, gameplayLoaded>>
        /\ observed' = observed \/ observed' = live
    BY <1>6 DEF NewGame, QuitToMenu, FinishLoading, GainControl, LoseControl, ReadContext,
       DrainQueue, deliveryAll, QuietTurn, Still, EmptyReplay, CursorGiven, NetworkTurn,
       vars, requestVars, queueVars
  <2> QED BY <1>0, <1>6, <2>1, TaskFrame
<1>7. ASSUME NEW c \in Checksums, LoadHeard(c) PROVE TaskInv'
  <2>1. LoadIn(Q) /\ UNCHANGED <<live, observed, tasks>>
    BY <1>0, <1>7, LoadedFacts, LoadsInTail DEF LoadHeard, EventTurn, queueVars
  <2> QED BY <1>0, <2>1, NoneLive, TaskFrame
<1>8. CASE EventIgnored \/ \E c \in Checksums : WriteHeard(c)
  <2>1. LoadIn(Q') => LoadIn(Q)
    <3>1. Q # <<>> /\ Q' = Tail(Q)
      BY <1>8 DEF WriteHeard, EventIgnored, EventTurn
    <3>2. PICK r \in Seq(Events) : r = Tail(Q)
      BY <1>0, <3>1
    <3> QED BY <1>0, <3>1, <3>2, LoadsInTail
  <2>2. UNCHANGED <<live, observed, tasks, pending, requestId, gameplayLoaded>>
    BY <1>8 DEF WriteHeard, EventIgnored, EventTurn, Still, queueVars
  <2> QED BY <1>0, <2>1, <2>2, TaskFrame
<1>9. CASE ItemAnswered \/ ReplayAnswered
  <2>1. UNCHANGED <<live, observed, tasks>> /\ Q # <<>>
    BY <1>9 DEF ItemAnswered, ReplayAnswered, EventTurn, queueVars
  <2>2. Q[1] = CompletedEvent(requestId, TRUE) \/ Q[1] = CompletedEvent(requestId, FALSE)
    BY <1>9 DEF ItemAnswered, ReplayAnswered
  <2>3. IsCompletion(Q[1]) /\ Q[1].id = requestId
    BY <2>2, CompletedFacts
  <2> QED BY <1>0, <2>1, <2>3, NoneLive, TaskFrame
<1>10. CASE (WorldLeft \/ WorldEntered \/ WorldKept) /\ Q' = Q
  <2>1. /\ tasks' = tasks /\ requestId' = requestId /\ (gameplayLoaded' <=> IsLoaded(seen))
        /\ \/ live' = live + 1 /\ observed' = live + 1
           \/ ~(gameplayLoaded /\ ~IsLoaded(seen)) /\ UNCHANGED <<live, observed>>
        /\ pending' = pending \/ ~IsLoaded(seen)
    BY <1>10 DEF WorldLeft, WorldEntered, WorldKept, WorldTurn, Ending, IsLoaded
  <2>2. CASE live' = live + 1 /\ observed' = live + 1
    BY <1>0, <1>1, <2>1, <2>2, TaskFrame
  <2>3. CASE ~gameplayLoaded /\ UNCHANGED <<live, observed>>
    BY <1>0, <2>1, <2>3, NoneLive, TaskFrame
  <2>4. CASE IsLoaded(seen) /\ UNCHANGED <<live, observed>>
    BY <1>0, <1>10, <2>1, <2>4, TaskFrame
  <2> QED BY <2>1, <2>2, <2>3, <2>4
<1>11. CASE PoliciesHanded \/ ResetHanded \/ ReplayHanded \/ ItemHanded \/ Installed
  <2>1. UNCHANGED <<live, observed, tasks>> /\ ~IsWork(pending)
    BY <1>11 DEF PoliciesHanded, ResetHanded, ReplayHanded, ItemHanded, Handed, Installed,
                 NetworkTurn, queueVars, NoRequest, IsWork
  <2> QED BY <1>0, <2>1, NoneLive, TaskFrame
<1>12. CASE Crash
  BY <1>12 DEF Crash, TaskInv
<1> QED BY <1>2, <1>3, <1>4, <1>5, <1>6, <1>7, <1>8, <1>9, <1>10, <1>11, <1>12, TaskJoins,
           ResetJoins, StepCases-----------------------------------------------------------------------------
\* NewInv.

LEMMA NewSame ==
  ASSUME DInv, Q' = Q, saves' = saves, recorded' = recorded,
         world' = world \/ world'.from = None,
         context' = "AwaitingCursor" => context = "AwaitingCursor" /\ checksum' = checksum
  PROVE  NewInv'
<1>0. NewInv /\ DeliveryTypeOK /\ Q \in Seq(Events)
  BY QueueType DEF DInv
<1> SUFFICES ASSUME NEW k \in DOMAIN Q, IsWritten(Q[k]) PROVE NewTo(k)'
  BY DEF NewInv
<1>1. PICK c \in Checksums : c = Q[k].checksum
  <2>1. Q[k] \in Events
    BY <1>0
  <2> QED BY <2>1, EventCases
<1>2. NewTo(k) /\ c # None
  BY <1>0, <1>1, SlotAssumption DEF NewInv
<1>3. ASSUME NEW j \in 1..(Len(Q) + 1), Point(j)', WorldAt(j)'.from = c
      PROVE  ~NoLoadBefore(Q, j)
  <2>1. Point(j) /\ WorldAt(j)' = IF j \in DOMAIN Q THEN saves'[Q[j].checksum] ELSE world'
    BY <1>0, <1>3, PointsSame
  <2>2. WorldAt(j).from = c
    BY <1>2, <1>3, <2>1 DEF WorldAt
  <2> QED BY <1>1, <1>2, <2>1, <2>2 DEF NewTo
<1>4. world'.from = c => world'.applied = saves[c].applied
  BY <1>1, <1>2 DEF NewTo
<1> QED BY <1>1, <1>2, <1>3, <1>4 DEF NewTo

\* What joins the queue takes nothing from the saves that wait there ...
LEMMA NewOthers ==
  ASSUME DInv, NEW e \in Events, Q' = Append(Q, e), SavesKept,
         UNCHANGED <<recorded, context, checksum>>,
         \/ ~IsWritten(e) /\ saves' = saves
         \/ /\ IsWritten(e) /\ saves[e.checksum] = None /\ world' = world
            /\ saves' = [saves EXCEPT ![e.checksum] = world],
         \/ world' = world
         \/ /\ IsLoad(e) /\ world'.from = e.checksum
            /\ world'.applied = saves[e.checksum].applied
         \/ ~LoadIn(Q) /\ world'.from = world.from,
         NEW k \in DOMAIN Q, IsWritten(Q[k])
  PROVE  NewTo(k)'
<1>0. /\ DeliveryTypeOK /\ ExistInv /\ Q \in Seq(Events) /\ Len(Q) \in Nat
      /\ saves \in [Checksums -> Worlds \cup {None}]
  BY QueueType DEF DInv, DeliveryTypeOK
<1>1. PICK n \in Nat : n = Len(Q) + 1
  BY <1>0
<1>2. /\ DOMAIN Q = 1..(n - 1) /\ DOMAIN Q' = 1..n /\ Len(Q') = n /\ n \notin DOMAIN Q
      /\ \A i \in DOMAIN Q : Q'[i] = Q[i] /\ i < n /\ i \in Nat
      /\ Q'[n] = e
  BY <1>0, <1>1, AppendLemma
<1>3. PICK c \in Checksums : c = Q[k].checksum /\ c = Q'[k].checksum
  <2>1. Q[k] \in Events
    BY <1>0
  <2> QED BY <1>2, <2>1, EventCases
<1>4. NewTo(k) /\ c # None /\ saves[c] # None /\ saves'[c] = saves[c]
  BY <1>0, <1>3, SlotAssumption DEF DInv, NewInv, ExistInv, SavesKept
<1>5. ASSUME NEW j \in DOMAIN Q', Q'[j].checksum = c, j # k
      PROVE  IsLoad(Q'[j]) /\ k < j
  <2>1. CASE j \in DOMAIN Q
    BY <1>2, <1>3, <1>4, <1>5, <2>1 DEF NewTo
  <2>2. CASE j = n
    <3>1. ~IsWritten(e) /\ e.checksum # None
      BY <1>2, <1>4, <1>5, <2>2
    <3> QED BY <1>2, <2>2, <3>1, EventCases
  <2> QED BY <1>2, <2>1, <2>2
<1>6. /\ Point(n) /\ WorldAt(n) = world
      /\ NoLoadBefore(Q, n) <=> ~LoadIn(Q)
  BY <1>0, <1>1, <1>2, LoadsAtEnd DEF Point, WorldAt
<1>7. world.from = c => LoadIn(Q)
  <2>1. n \in 1..(Len(Q) + 1)
    BY <1>1
  <2> QED BY <1>3, <1>4, <1>6, <2>1 DEF NewTo
<1>8. world'.from = c => world'.applied = saves'[c].applied
  BY <1>3, <1>4, <1>7 DEF NewTo
<1>9. ASSUME NEW x \in Checksums, saves'[x] # None, saves'[x].from = c
      PROVE  saves'[x].applied = saves'[c].applied
  <2>1. CASE saves[x] # None
    BY <1>3, <1>4, <1>9, <2>1 DEF NewTo, SavesKept
  <2>2. CASE saves[x] = None
    <3>1. saves'[x] = world
      BY <1>0, <1>9, <2>2
    <3> QED BY <1>3, <1>4, <1>9, <3>1 DEF NewTo
  <2> QED BY <2>1, <2>2
<1>10. ASSUME NEW j \in 1..(Len(Q') + 1), Point(j)', WorldAt(j)'.from = c
       PROVE  ~NoLoadBefore(Q', j)
  <2>0. (\A i \in 1..n : NoLoadBefore(Q', i) <=> NoLoadBefore(Q, i))
        /\ (NoLoadBefore(Q', n + 1) => ~LoadIn(Q) /\ ~IsLoad(e))
    <3>1. Len(Q) + 2 = n + 1
      BY <1>1
    <3> QED BY <1>0, <1>1, <1>6, <3>1, LoadsInAppend
  <2>1. CASE /\ Point(j) /\ j \in DOMAIN Q /\ j \in 1..(Len(Q) + 1)
             /\ Q'[j] = Q[j] /\ WorldAt(j)' = saves'[Q[j].checksum]
    <3>1. Q[j].checksum \in Checksums /\ saves[Q[j].checksum] # None
      BY <1>0, <2>1, PointWorld
    <3>2. WorldAt(j) = WorldAt(j)'
      BY <2>1, <3>1 DEF WorldAt, SavesKept
    <3>3. ~NoLoadBefore(Q, j)
      BY <1>3, <1>4, <1>10, <2>1, <3>2 DEF NewTo
    <3> QED BY <1>1, <2>0, <2>1, <3>3
  <2>2. CASE j = Len(Q) + 1 /\ Q'[j] = e /\ IsWritten(e) /\ WorldAt(j)' = saves'[e.checksum]
    <3>1. e.checksum \in Checksums
      BY <2>2, EventCases
    <3>2. saves'[e.checksum] = world
      BY <1>0, <2>2, <3>1
    <3>3. LoadIn(Q)
      BY <1>7, <1>10, <2>2, <3>2
    <3> QED BY <1>1, <1>6, <2>0, <2>2, <3>3
  <2>3. CASE j = Len(Q) + 2 /\ WorldAt(j)' = world'
    <3>1. j = n + 1
      BY <1>1, <2>3
    <3> QED BY <1>7, <1>10, <2>0, <2>3, <3>1
  <2> QED BY <1>0, <1>10, <2>1, <2>2, <2>3, PointsAppend
<1> QED BY <1>3, <1>4, <1>5, <1>8, <1>9, <1>10 DEF NewTo

\* ... and a save that joins is one that nothing names yet.
LEMMA NewSave ==
  ASSUME DInv, NEW c \in Checksums, SaveGame(c), Q' = Append(Q, WrittenEvent(c)),
         NEW n, n = Len(Q) + 1
  PROVE  NewTo(n)'
<1>0. /\ DeliveryTypeOK /\ ExistInv /\ RecordedInv /\ Q \in Seq(Events) /\ n \in Nat
      /\ saves \in [Checksums -> Worlds \cup {None}] /\ world \in Worlds
      /\ None \notin Checksums
  BY QueueType, SlotAssumption DEF DInv, DeliveryTypeOK
<1>1. PICK e \in Events : e = WrittenEvent(c)
  BY EventTypes
<1>2. /\ e.checksum = c /\ saves[c] = None /\ saves' = [saves EXCEPT ![c] = world]
      /\ UNCHANGED <<world, recorded, context, checksum>>
  BY <1>1, WrittenFacts DEF SaveGame, vars, deliveryVars
<1>3. /\ DOMAIN Q = 1..(n - 1) /\ DOMAIN Q' = 1..n /\ Len(Q') = n
      /\ \A i \in DOMAIN Q : Q'[i] = Q[i]
      /\ Q'[n] = e /\ Q'[n].checksum = c
  BY <1>0, <1>1, <1>2, AppendLemma
<1>4. ASSUME NEW w \in Worlds, w.from = c, w.from # None => saves[w.from] # None PROVE FALSE
  BY <1>0, <1>2, <1>4
<1>5. world.from # c
  BY <1>0, <1>4 DEF ExistInv
<1>6. c \notin recorded' /\ ~(context' = "AwaitingCursor" /\ checksum' = c)
  BY <1>0, <1>2 DEF RecordedInv, ExistInv
<1>7. ASSUME NEW j \in DOMAIN Q', Q'[j].checksum = c, j # n PROVE FALSE
  <2>1. j \in DOMAIN Q /\ Q[j].checksum = c /\ Q[j] \in Events
    BY <1>0, <1>3, <1>7
  <2>2. IsLoad(Q[j]) \/ IsWritten(Q[j])
    BY <1>0, <2>1, EventCases
  <2> QED BY <1>0, <1>2, <2>1, <2>2 DEF ExistInv
<1>8. ASSUME NEW j \in 1..(Len(Q') + 1), Point(j)', WorldAt(j)'.from = c PROVE FALSE
  <2>1. CASE /\ Point(j) /\ j \in DOMAIN Q /\ WorldAt(j)' = saves'[Q[j].checksum]
    <3>1. /\ WorldAt(j) \in Worlds
          /\ WorldAt(j).from # None => saves[WorldAt(j).from] # None
          /\ Q[j].checksum \in Checksums /\ saves[Q[j].checksum] # None
      BY <1>0, <2>1, PointWorld
    <3>2. WorldAt(j)' = WorldAt(j)
      BY <1>0, <1>2, <2>1, <3>1 DEF WorldAt
    <3> QED BY <1>4, <1>8, <3>1, <3>2
  <2>2. CASE IsWritten(e) /\ WorldAt(j)' = saves'[e.checksum]
    BY <1>0, <1>2, <1>5, <1>8, <2>2
  <2>3. CASE WorldAt(j)' = world'
    BY <1>2, <1>5, <1>8, <2>3
  <2> QED BY <1>0, <1>1, <1>8, <2>1, <2>2, <2>3, PointsAppend
<1>9. ASSUME NEW x \in Checksums, saves'[x] # None, saves'[x].from = c PROVE FALSE
  <2>1. CASE x = c
    BY <1>0, <1>2, <1>5, <1>9, <2>1
  <2>2. CASE x # c
    <3>1. saves[x] # None /\ saves[x].from = c
      BY <1>0, <1>2, <1>9, <2>2
    <3> QED BY <1>0, <1>2, <3>1 DEF ExistInv
  <2> QED BY <2>1, <2>2
<1> QED BY <1>2, <1>3, <1>5, <1>6, <1>7, <1>8, <1>9 DEF NewTo

\* The plugin hears of one save at a time, and of each once.
LEMMA NewTail ==
  ASSUME DInv, Q # <<>>, Q' = Tail(Q), UNCHANGED <<saves, world>>,
         recorded' \subseteq recorded \cup {Q[1].checksum},
         context' = "AwaitingCursor" =>
           \/ context = "AwaitingCursor" /\ checksum' = checksum
           \/ checksum' = Q[1].checksum
  PROVE  NewInv'
<1>0. /\ NewInv /\ FitInv /\ DeliveryTypeOK /\ Q \in Seq(Events)
      /\ DOMAIN Q = 1..Len(Q) /\ Len(Q) \in Nat /\ Len(Q) > 0 /\ 1 \in DOMAIN Q
  BY QueueType, TailLemma DEF DInv
<1>1. \A i \in DOMAIN Q' : i + 1 \in DOMAIN Q /\ Q'[i] = Q[i + 1] /\ i \in Nat
  BY <1>0, TailLemma
<1> SUFFICES ASSUME NEW k \in DOMAIN Q', IsWritten(Q'[k]) PROVE NewTo(k)'
  BY DEF NewInv
<1>2. PICK c \in Checksums : c = Q'[k].checksum /\ c = Q[k + 1].checksum
  <2>1. Q'[k] \in Events /\ Q'[k] = Q[k + 1]
    BY <1>0, <1>1
  <2> QED BY <2>1, EventCases
<1>3. NewTo(k + 1) /\ c # None
  BY <1>0, <1>1, SlotAssumption DEF NewInv
<1>4. Q[1].checksum # c
  BY <1>0, <1>1, <1>2, <1>3 DEF NewTo
<1>5. c \notin recorded' /\ ~(context' = "AwaitingCursor" /\ checksum' = c)
  BY <1>2, <1>3, <1>4 DEF NewTo
<1>6. ASSUME NEW j \in DOMAIN Q', Q'[j].checksum = c, j # k
      PROVE  IsLoad(Q'[j]) /\ k < j
  <2>1. j + 1 \in DOMAIN Q /\ Q[j + 1].checksum = c /\ j + 1 # k + 1 /\ Q'[j] = Q[j + 1]
    BY <1>1, <1>6
  <2>2. IsLoad(Q[j + 1]) /\ k + 1 < j + 1
    BY <1>2, <1>3, <2>1 DEF NewTo
  <2> QED BY <1>1, <2>1, <2>2
<1>7. ASSUME NEW j \in 1..(Len(Q') + 1), Point(j)', WorldAt(j)'.from = c, NoLoadBefore(Q', j)
      PROVE  FALSE
  <2>1. /\ j \in 1..Len(Q) /\ j + 1 \in 1..(Len(Q) + 1) /\ Point(j + 1)
        /\ WorldAt(j)' = WorldAt(j + 1)
    BY <1>0, <1>7, PointsTail
  <2>2. ~NoLoadBefore(Q, j + 1)
    BY <1>2, <1>3, <1>7, <2>1 DEF NewTo
  <2>3. LastLoad(Q, 1, j + 1)
    BY <1>0, <1>7, <2>1, <2>2, LoadsInTail
  <2>4. MadeFrom(WorldAt(j + 1), Q[1].checksum, saves)
    BY <1>0, <2>1, <2>3 DEF FitInv, Fits
  <2> QED BY <1>3, <1>4, <1>7, <2>1, <2>4 DEF MadeFrom
<1>8. /\ \A x \in Checksums : saves[x] # None /\ saves[x].from = c =>
                                saves[x].applied = saves[c].applied
      /\ world.from = c => world.applied = saves[c].applied
  BY <1>2, <1>3 DEF NewTo
<1> QED BY <1>2, <1>5, <1>6, <1>7, <1>8 DEF NewTo

LEMMA NewStep ==
  ASSUME DInv, [DNext]_deliveryAll
  PROVE  NewInv'
<1>0. /\ NewInv /\ DeliveryTypeOK /\ Q \in Seq(Events) /\ DOMAIN Q = 1..Len(Q) /\ Len(Q) \in Nat
      /\ world \in Worlds /\ saves \in [Checksums -> Worlds \cup {None}] /\ SavesKept
  BY QueueType, SavesStep DEF DInv, DeliveryTypeOK
<1>1. ASSUME NEW e \in Events, Q' = Append(Q, e), ~IsWritten(e),
             UNCHANGED <<saves, recorded, context, checksum>>,
             \/ world' = world
             \/ /\ IsLoad(e) /\ world'.from = e.checksum
                /\ world'.applied = saves[e.checksum].applied
             \/ ~LoadIn(Q) /\ world'.from = world.from
      PROVE  NewInv'
  <2>1. \A k \in DOMAIN Q' : IsWritten(Q'[k]) => k \in DOMAIN Q /\ IsWritten(Q[k])
    BY <1>0, <1>1, AppendLemma
  <2> QED BY <1>0, <1>1, <2>1, NewOthers DEF NewInv
<1>2. ASSUME NEW c \in Checksums, LoadSave(c), Q' = Append(Q, LoadedEvent(c))
      PROVE  NewInv'
  <2>1. PICK e \in Events : e = LoadedEvent(c)
    BY EventTypes
  <2>2. IsLoad(e) /\ ~IsWritten(e) /\ e.checksum = c
    BY <2>1, LoadedFacts
  <2>3. /\ UNCHANGED <<saves, recorded, context, checksum>> /\ saves[c] \in Worlds
        /\ world' = [applied |-> saves[c].applied, from |-> c, fresh |-> FALSE]
    BY <1>0, <1>2 DEF LoadSave, vars, deliveryVars
  <2>4. world'.from = c /\ world'.applied = saves[c].applied
    BY <2>3, LoadedFactsOfWorld
  <2> QED BY <1>1, <1>2, <2>1, <2>2, <2>3, <2>4
<1>3. ASSUME NEW c \in Checksums, SaveGame(c), Q' = Append(Q, WrittenEvent(c))
      PROVE  NewInv'
  <2>1. PICK e \in Events : e = WrittenEvent(c)
    BY EventTypes
  <2>2. /\ IsWritten(e) /\ e.checksum = c /\ saves[c] = None
        /\ saves' = [saves EXCEPT ![c] = world]
        /\ UNCHANGED <<world, recorded, context, checksum>>
    BY <1>3, <2>1, WrittenFacts DEF SaveGame, vars, deliveryVars
  <2>3. ASSUME NEW k \in DOMAIN Q, IsWritten(Q[k]) PROVE NewTo(k)'
    BY <1>0, <1>3, <2>1, <2>2, <2>3, NewOthers
  <2>4. PICK n \in Nat : n = Len(Q) + 1
    BY <1>0
  <2>5. NewTo(n)'
    BY <1>3, <2>4, NewSave
  <2>6. \A k \in DOMAIN Q' : k = n \/ (k \in DOMAIN Q /\ Q'[k] = Q[k])
    BY <1>0, <1>3, <2>1, <2>4, AppendLemma
  <2> QED BY <2>3, <2>5, <2>6 DEF NewInv
<1>4. CASE \/ \E task \in Tasks : TaskApplied(task) \/ TaskDropped(task)
           \/ StartRefused
  <2>1. PICK e \in Events : Q' = Append(Q, e) /\ IsCompletion(e)
    BY <1>4, AnswerQueued
  <2>2. ~IsWritten(e)
    BY <2>1 DEF IsCompletion, IsWritten
  <2>3. UNCHANGED <<saves, recorded, context, checksum>>
    BY <1>4 DEF TaskApplied, TaskDropped, StartRefused, gameVars, vars, deliveryVars
  <2>4. world' = world \/ (~LoadIn(Q) /\ world'.from = world.from)
    <3>1. ASSUME NEW task \in Tasks, TaskApplied(task)
          PROVE  ~LoadIn(Q) /\ world'.from = world.from
      BY <1>0, <3>1, AppliedIsLive, WorldApplied
    <3> QED BY <1>4, <3>1 DEF TaskDropped, StartRefused, gameVars
  <2> QED BY <1>1, <2>1, <2>2, <2>3, <2>4
<1>5. CASE \/ \E c \in Checksums : LoadHeard(c) \/ WriteHeard(c)
           \/ EventIgnored \/ ItemAnswered \/ ReplayAnswered
  <2>1. Q # <<>> /\ Q' = Tail(Q) /\ UNCHANGED <<saves, world>>
    BY <1>5 DEF LoadHeard, WriteHeard, EventIgnored, ItemAnswered, ReplayAnswered, EventTurn,
                gameVars
  <2>2. recorded' \subseteq recorded \cup {Q[1].checksum}
    BY <1>5, WrittenFacts DEF LoadHeard, WriteHeard, EventIgnored, ItemAnswered, ReplayAnswered
  <2>3. context' = "AwaitingCursor" => \/ context = "AwaitingCursor" /\ checksum' = checksum
                                       \/ checksum' = Q[1].checksum
    BY <1>5, LoadedFacts DEF LoadHeard, WriteHeard, EventIgnored, ItemAnswered, ReplayAnswered,
                             Still
  <2> QED BY <2>1, <2>2, <2>3, NewTail
<1>6. CASE /\ Q' = Q /\ saves' = saves
           /\ \/ NewGame \/ QuitToMenu \/ FinishLoading \/ GainControl \/ LoseControl
              \/ RunReset \/ ReadContext \/ DrainQueue \/ UNCHANGED deliveryAll
  <2>1. UNCHANGED <<context, checksum, recorded>>
    BY <1>6 DEF NewGame, QuitToMenu, FinishLoading, GainControl, LoseControl, RunReset,
                ReadContext, DrainQueue, deliveryAll, vars, deliveryVars
  <2>2. world' = world \/ world'.from = None
    BY <1>6, NewWorldFacts, NoWorldFacts
       DEF NewGame, QuitToMenu, FinishLoading, GainControl, LoseControl, RunReset,
           ReadContext, DrainQueue, deliveryAll, gameVars
  <2> QED BY <1>6, <2>1, <2>2, NewSame
<1>7. CASE /\ Q' = Q
           /\ \/ WorldLeft \/ WorldEntered \/ WorldKept \/ QuietTurn \/ EmptyReplay
              \/ CursorGiven \/ PoliciesHanded \/ ResetHanded \/ ReplayHanded \/ ItemHanded
              \/ Installed \/ ResetStarted \/ TaskQueued
  <2>1. /\ UNCHANGED <<world, saves, recorded>>
        /\ context' = "AwaitingCursor" => UNCHANGED <<context, checksum>>
    BY <1>7 DEF WorldLeft, WorldEntered, WorldKept, WorldTurn, QuietTurn, EmptyReplay,
                CursorGiven, PoliciesHanded, ResetHanded, ReplayHanded, ItemHanded, Handed,
                Installed, ResetStarted, TaskQueued, NetworkTurn, Still, gameVars, vars,
                deliveryVars
  <2> QED BY <1>7, <2>1, NewSame
<1>8. CASE Q' = <<>>
  BY <1>8 DEF NewInv
<1>9. saves' = saves \/ \E c \in Checksums : SaveGame(c) /\ Q' = Append(Q, WrittenEvent(c))
  BY SavesStep
<1> QED BY <1>2, <1>3, <1>4, <1>5, <1>6, <1>7, <1>8, <1>9, StepCases-----------------------------------------------------------------------------
\* ItemsInv.

LEMMA PersistentBeforeFacts ==
  /\ PersistentBefore(0) = {}
  /\ \A n \in Nat : PersistentBefore(n) \subseteq PersistentItems
                    /\ PersistentBefore(n) \in SUBSET Items
  /\ \A n \in Indices : PersistentBefore(n + 1)
                          = PersistentBefore(n) \cup ({Inventory[n]} \cap PersistentItems)
<1>1. \A i \in Indices : i \in Nat
  BY SlotAssumption DEF Indices
<1>2. PersistentBefore(0) = {}
  BY <1>1 DEF PersistentBefore
<1>3. ASSUME NEW n \in Indices
      PROVE  PersistentBefore(n + 1) = PersistentBefore(n) \cup ({Inventory[n]} \cap PersistentItems)
  <2>1. \A i \in Indices : i < n + 1 <=> i < n \/ i = n
    BY <1>1
  <2> QED BY <2>1 DEF PersistentBefore
<1> QED BY <1>2, <1>3, SlotAssumption DEF PersistentBefore

\* What a snapshot adds agrees with its cursor.
LEMMA ItemsPut ==
  ASSUME NEW j \in Journals, NEW c \in Checksums, NEW n \in Cursors, CursorItems(j.snapshots),
         NEW items, items = PersistentBefore(n),
         NEW k, k = Record(j, Slot, c, n, items) \/ k = StoreSnapshot(j, Slot, c, n, items)
  PROVE  CursorItems(k.snapshots)
<1>1. items \in SUBSET Items
  BY SlotAssumption DEF PersistentBefore
<1>2. /\ k.snapshots[Slot][c].nextIndex = n /\ k.snapshots[Slot][c].items = items
      /\ \A d \in Checksums : d # c => k.snapshots[Slot][d] = j.snapshots[Slot][d]
  BY <1>1, SnapshotPut
<1>3. ASSUME NEW d \in Checksums, k.snapshots[Slot][d] # None
      PROVE  k.snapshots[Slot][d].items = PersistentBefore(k.snapshots[Slot][d].nextIndex)
  <2>1. CASE d = c
    BY <1>2, <2>1
  <2>2. CASE d # c
    BY <1>2, <1>3, <2>2 DEF CursorItems
  <2> QED BY <2>1, <2>2
<1> QED BY <1>3 DEF CursorItems

LEMMA ItemsStep ==
  ASSUME DInv, [DNext]_deliveryAll
  PROVE  ItemsInv'
<1>0. /\ ItemsInv /\ journal \in Journals /\ disk \in Journals /\ nextIndex \in Cursors
      /\ pending.kind = "Item" => /\ pending.index = nextIndex /\ session # None
                                  /\ Ready(context)
  BY DEF DInv, IInv, DataTypeOK, RequestInv, PendingItemIsNext
<1>1. CASE UNCHANGED <<context, nextIndex, persistentItems, session, journal, disk>>
           /\ \/ pending' \in {pending, NoRequest}
              \/ pending'.kind \in {"Policies", "Reset"}
              \/ pending'.kind = "Replay" /\ pending'.index = 0
              \/ /\ pending'.kind = "Item" /\ pending'.index \in Indices
                 /\ pending'.name = Inventory[pending'.index]
  BY <1>0, <1>1 DEF ItemsInv, NoRequest
<1>2. ASSUME NEW c \in Checksums, LoadHeard(c) PROVE ItemsInv'
  <2>1. pending' \in {pending, NoRequest} /\ UNCHANGED session
    BY <1>2 DEF LoadHeard, EventTurn, CancelGameplayRequest
  <2> QED BY <1>0, <1>2, <2>1 DEF ItemsInv, LoadHeard, NoRequest
<1>3. ASSUME NEW c \in Checksums, WriteHeard(c) PROVE ItemsInv'
  <2>1. /\ UNCHANGED <<nextIndex, persistentItems, pending, session>>
        /\ context # "AwaitingCursor" /\ context' # "AwaitingCursor"
    BY <1>3 DEF WriteHeard, EventTurn, Ready
  <2>2. CursorItems(journal'.snapshots) /\ CursorItems(disk'.snapshots)
    <3>1. CASE UNCHANGED <<journal, disk>>
      BY <1>0, <3>1 DEF ItemsInv
    <3>2. CASE /\ journal = disk
               /\ journal' = Record(journal, Slot, c, nextIndex, persistentItems)
               /\ disk' = disk \/ disk' = journal'
      <4>1. CursorItems(journal'.snapshots)
        <5>1. CursorItems(journal.snapshots) /\ persistentItems = PersistentBefore(nextIndex)
          BY <1>0, <2>1 DEF ItemsInv
        <5> QED BY <1>0, <3>2, <5>1, ItemsPut
      <4> QED BY <1>0, <3>2, <4>1 DEF ItemsInv
    <3> QED BY <1>3, <3>1, <3>2 DEF WriteHeard
  <2> QED BY <1>0, <2>1, <2>2 DEF ItemsInv
<1>4. CASE EventIgnored \/ ReplayAnswered \/ WorldEntered \/ WorldKept
  <2>1. /\ UNCHANGED <<nextIndex, persistentItems, session, journal, disk>>
        /\ context' = "AwaitingCursor" <=> context = "AwaitingCursor"
        /\ pending' \in {pending, NoRequest}
    BY <1>4 DEF EventIgnored, Still, ReplayAnswered, WorldEntered, WorldKept, WorldTurn, EventTurn
  <2> QED BY <1>0, <2>1 DEF ItemsInv, NoRequest
<1>5. CASE ItemAnswered
  <2>1. /\ UNCHANGED <<context, session, journal, disk>> /\ pending' = NoRequest
        /\ session # None /\ context # "AwaitingCursor"
        /\ nextIndex \in Indices /\ pending.name = Inventory[nextIndex]
        /\ persistentItems = PersistentBefore(nextIndex)
    BY <1>0, <1>5 DEF ItemAnswered, EventTurn, ItemsInv, Ready
  <2>2. persistentItems' = PersistentBefore(nextIndex')
    <3>1. CASE /\ nextIndex' = nextIndex + 1
               /\ persistentItems' = persistentItems \cup ({pending.name} \cap PersistentItems)
      BY <2>1, <3>1, PersistentBeforeFacts
    <3>2. CASE UNCHANGED <<nextIndex, persistentItems>>
      BY <2>1, <3>2
    <3> QED BY <1>5, <3>1, <3>2 DEF ItemAnswered
  <2> QED BY <1>0, <2>1, <2>2 DEF ItemsInv, NoRequest
<1>6. CASE WorldLeft
  <2>1. /\ persistentItems' = PersistentBefore(nextIndex') /\ persistentItems' = {}
        /\ UNCHANGED <<session, journal, disk>> /\ pending' \in {pending, NoRequest}
    BY <1>6, PersistentBeforeFacts DEF WorldLeft, WorldTurn, CancelGameplayRequest
  <2> QED BY <1>0, <2>1 DEF ItemsInv, NoRequest
<1>7. CASE QuietTurn
  <2>1. /\ UNCHANGED <<context, nextIndex, persistentItems, session, pending>>
        /\ journal'.snapshots = journal.snapshots
        /\ disk'.snapshots = disk.snapshots \/ disk'.snapshots = journal.snapshots
    BY <1>7 DEF QuietTurn, Still
  <2> QED BY <1>0, <2>1 DEF ItemsInv
<1>8. CASE CursorGiven
  <2>1. /\ persistentItems' = PersistentBefore(nextIndex') /\ nextIndex' \in Cursors
        /\ session' # None /\ pending' = NoRequest /\ checksum \in Checksums
    BY <1>8 DEF CursorGiven
  <2>2. CursorItems(journal'.snapshots) /\ CursorItems(disk'.snapshots)
    <3>1. CASE UNCHANGED <<journal, disk>>
      BY <1>0, <3>1 DEF ItemsInv
    <3>2. CASE /\ journal' = StoreSnapshot(journal, Slot, checksum, nextIndex', persistentItems')
               /\ disk' = journal'
      <4>1. CursorItems(journal.snapshots)
        BY <1>0 DEF ItemsInv
      <4> QED BY <1>0, <2>1, <3>2, <4>1, ItemsPut
    <3> QED BY <1>8, <3>1, <3>2 DEF CursorGiven
  <2> QED BY <2>1, <2>2 DEF ItemsInv, NoRequest
<1>9. CASE Installed
  BY <1>0, <1>9 DEF Installed, ItemsInv, NoRequest
<1>10. CASE Crash
  <2>1. /\ nextIndex' = 0 /\ persistentItems' = {} /\ pending' = NoRequest /\ disk' = disk
        /\ journal' = disk \/ journal' = EmptyJournal
    BY <1>10 DEF Crash, Restart, LoadJournal
  <2>2. CursorItems(EmptyJournal.snapshots)
    BY DeliveryAssumption DEF CursorItems, EmptyJournal
  <2> QED BY <1>0, <2>1, <2>2, PersistentBeforeFacts DEF ItemsInv, NoRequest
<1>11. CASE \/ UNCHANGED vars \/ EmptyReplay \/ PoliciesHanded \/ ResetHanded \/ ReplayHanded
            \/ ItemHanded \/ ResetStarted
  <2>1. UNCHANGED <<context, nextIndex, persistentItems, session, journal, disk>>
    BY <1>11 DEF vars, sessionVars, deliveryVars, journalVars, restoreVars, EmptyReplay,
                 PoliciesHanded, ResetHanded, ReplayHanded, ItemHanded, Handed, ResetStarted
  <2>2. \/ pending' \in {pending, NoRequest}
        \/ pending'.kind \in {"Policies", "Reset"}
        \/ pending'.kind = "Replay" /\ pending'.index = 0
        \/ /\ pending'.kind = "Item" /\ pending'.index \in Indices
           /\ pending'.name = Inventory[pending'.index]
    BY <1>11 DEF vars, requestVars, EmptyReplay, PoliciesHanded, ResetHanded, ReplayHanded,
                 ItemHanded, Handed, ResetStarted
  <2> QED BY <1>1, <2>1, <2>2
<1> QED BY <1>2, <1>3, <1>4, <1>5, <1>6, <1>7, <1>8, <1>9, <1>10, <1>11, RuntimeCases-----------------------------------------------------------------------------
\* HeldInv.

\* The answer that moves the cursor is on its way or not.
LEMMA CarriedSteps ==
  ASSUME DeliveryTypeOK, requestId' = requestId
  PROVE  /\ Q' = Q => (Carried' <=> Carried)
         /\ \A e \in Events : Q' = Append(Q, e) => (Carried' <=> Carried \/ e = Answer)
         /\ Q # <<>> /\ Q' = Tail(Q) => (Carried <=> Carried' \/ Q[1] = Answer)
<1>0. Q \in Seq(Events) /\ Answer' = Answer
  BY QueueType DEF Answer
<1>1. ASSUME Q' = Q PROVE Carried' <=> Carried
  BY <1>0, <1>1 DEF Carried
<1>2. ASSUME NEW e \in Events, Q' = Append(Q, e) PROVE Carried' <=> Carried \/ e = Answer
  <2>1. PICK n \in Nat : n = Len(Q) + 1
    BY <1>0
  <2>2. Len(Q') + 1 = n + 1 /\ Len(Q) + 2 = n + 1
    BY <1>0, <1>2, <2>1, AppendLemma
  <2>3. Before(Q', n + 1, Answer) <=> Before(Q, n, Answer) \/ e = Answer
    BY <1>0, <1>2, <2>1, <2>2, BeforeInAppend
  <2> QED BY <1>0, <2>1, <2>2, <2>3 DEF Carried
<1>3. ASSUME Q # <<>>, Q' = Tail(Q) PROVE Carried <=> Carried' \/ Q[1] = Answer
  <2>1. PICK n \in Nat : n = Len(Q)
    BY <1>0
  <2>2. Len(Q') + 1 = n /\ n \in 1..Len(Q)
    BY <1>0, <1>3, <2>1, TailLemma
  <2>3. Before(Q, n + 1, Answer) <=> Before(Q', n, Answer) \/ Q[1] = Answer
    BY <1>0, <1>3, <2>2, BeforeInTail
  <2> QED BY <1>0, <2>1, <2>2, <2>3 DEF Carried
<1> QED BY <1>1, <1>2, <1>3

LEMMA HeldFrame ==
  ASSUME HeldInv, HeldNext' = HeldNext, ResetQueued' => ResetQueued,
         UNCHANGED <<session, persistentItems, restore, pending>>,
         IsWork(pending) => (Carried' <=> Carried),
         context' = "AwaitingCursor" => context = "AwaitingCursor",
         session = None => held' = {}
  PROVE  HeldInv'
BY DEF HeldInv, IsWork

\* The next request has a new id, so its answer cannot be on the way already.
LEMMA HandedIsNew ==
  ASSUME DInv, Q' = Q, requestId' = requestId + 1
  PROVE  ~Carried'
<1>0. Q \in Seq(Events) /\ requestId \in Nat /\ IdInv
  BY QueueType, BoundsAssumption DEF DInv, IInv, DataTypeOK
<1>1. ASSUME NEW i \in DOMAIN Q, Q[i] = Answer' PROVE FALSE
  <2>1. IsCompletion(Q[i]) /\ Q[i].id = requestId + 1
    BY <1>1, CompletedFacts DEF Answer
  <2>2. Q[i].id \in 0..requestId
    BY <1>0, <2>1 DEF IdInv, IdsFit
  <2> QED BY <1>0, <2>1, <2>2
<1> QED BY <1>1 DEF Carried, Before

\* An item that is applied is what the plugin waits for; a persistent one takes effect.
LEMMA HeldApplied ==
  ASSUME DInv, NEW task \in Tasks, TaskApplied(task)
  PROVE  HeldInv'
<1>0. /\ HeldInv /\ DeliveryTypeOK /\ task.id \in Nat /\ tasks \in Seq(Tasks)
      /\ task.id = requestId /\ pending.kind = task.kind /\ pending.name = task.name
      /\ IsWork(pending) /\ ~ResetQueued /\ ~Carried
      /\ session # None /\ context # "AwaitingCursor"
      /\ pending.kind = "Item" => restore.state = "None"
  <2>1. HeldInv /\ DeliveryTypeOK /\ task.id \in Nat /\ tasks \in Seq(Tasks)
    BY DEF DInv, DeliveryTypeOK, Tasks
  <2> QED BY <2>1, AppliedIsLive
<1>1. /\ UNCHANGED <<session, context, persistentItems, restore, pending, requestId>>
      /\ tasks # <<>> /\ tasks' = Tail(tasks)
      /\ held' = held \cup ({pending.name} \cap PersistentItems)
  <2>1. held' = IF task.name \in PersistentItems THEN held \cup {task.name} ELSE held
    BY DEF TaskApplied
  <2>2. /\ UNCHANGED <<session, context, persistentItems, restore, pending, requestId>>
        /\ tasks # <<>> /\ tasks' = Tail(tasks)
    BY DEF TaskApplied, vars, sessionVars, deliveryVars, restoreVars, requestVars
  <2> QED BY <1>0, <2>1, <2>2
<1>2. Carried'
  <2>1. PICK e \in Events : e = CompletedEvent(task.id, TRUE)
    BY <1>0, EventTypes
  <2>2. Q' = Append(Q, e) /\ e = Answer
    BY <1>0, <2>1 DEF TaskApplied, Answer
  <2> QED BY <1>0, <1>1, <2>2, CarriedSteps
<1>3. ~ResetQueued'
  <2>1. \A i \in DOMAIN tasks' : i + 1 \in DOMAIN tasks /\ tasks'[i] = tasks[i + 1]
    BY <1>0, <1>1, TailLemma
  <2> QED BY <1>0, <2>1 DEF ResetQueued
<1>4. /\ HeldNext = held
      /\ HeldNext' = held \cup ({pending.name} \cap PersistentItems)
  BY <1>0, <1>1, <1>3 DEF HeldNext
<1>5. pending.kind = "Replay" =>
        /\ restore.state = "Replaying" /\ pending.name \in restore.items
        /\ pending.name \in PersistentItems
  <2>1. pending.kind = "Replay" => restore.state = "Replaying" /\ pending.name \in restore.items
    BY DEF DInv, IInv, RequestInv, RequestMatchesRestore
  <2>2. persistentItems = PersistentBefore(nextIndex) /\ nextIndex \in Nat
    BY <1>0, SlotAssumption DEF DInv, ItemsInv, IInv, DataTypeOK, Cursors
  <2>3. persistentItems \subseteq PersistentItems
    BY <2>2, PersistentBeforeFacts
  <2> QED BY <1>0, <2>1, <2>3 DEF HeldInv
<1>6. CASE pending.kind = "Item"
  BY <1>0, <1>1, <1>2, <1>3, <1>4, <1>6 DEF HeldInv
<1>7. CASE pending.kind = "Replay"
  BY <1>0, <1>1, <1>2, <1>3, <1>4, <1>5, <1>7 DEF HeldInv
<1> QED BY <1>0, <1>6, <1>7 DEF IsWork

LEMMA HeldAnswered ==
  ASSUME DInv, ItemAnswered \/ ReplayAnswered
  PROVE  HeldInv'
<1>0. /\ HeldInv /\ DeliveryTypeOK /\ Q \in Seq(Events) /\ 1 \in DOMAIN Q /\ IdInv
      /\ Q # <<>> /\ Q' = Tail(Q) /\ pending' = NoRequest
      /\ UNCHANGED <<session, requestId, tasks, held, context>>
      /\ session # None
      /\ restore \in [state : RestoreStates, items : SUBSET Items]
  <2>1. /\ Q # <<>> /\ Q' = Tail(Q) /\ pending' = NoRequest
        /\ UNCHANGED <<session, requestId, tasks, held, context>>
        /\ pending.kind \in {"Item", "Replay"}
    BY DEF ItemAnswered, ReplayAnswered, EventTurn, queueVars, gameVars
  <2>2. Q \in Seq(Events) /\ 1 \in DOMAIN Q
    BY <2>1, QueueType, TailLemma DEF DInv
  <2> QED BY <2>1, <2>2 DEF DInv, IInv, RequestInv, PendingItemIsNext, DataTypeOK
<1>1. HeldNext' = HeldNext /\ ResetQueued' = ResetQueued
  BY <1>0 DEF HeldNext, ResetQueued
<1>2. Q[1] = Answer => Carried
  BY <1>0, CarriedSteps
<1>3. Q[1] = CompletedEvent(requestId, FALSE) => ~Carried
  <2>1. ASSUME Q[1] = CompletedEvent(requestId, FALSE), NEW i \in DOMAIN Q, Q[i] = Answer
        PROVE  FALSE
    <3>1. /\ IsCompletion(Q[1]) /\ Q[1].id = requestId
          /\ IsCompletion(Q[i]) /\ Q[i].id = requestId
      BY <2>1, CompletedFacts DEF Answer
    <3>2. i = 1
      BY <1>0, <3>1 DEF IdInv, IdsFit
    <3> QED BY <2>1, <3>2, AppliedFact DEF Answer
  <2> QED BY <2>1 DEF Carried, Before
<1>4. CASE ItemAnswered
  <2>1. /\ pending.kind = "Item" /\ restore' = restore /\ restore.state = "None"
        /\ \/ /\ Q[1] = Answer
              /\ persistentItems' = persistentItems \cup ({pending.name} \cap PersistentItems)
           \/ /\ Q[1] = CompletedEvent(requestId, FALSE)
              /\ persistentItems' = persistentItems
    BY <1>4 DEF ItemAnswered, Answer, DInv, IInv, RequestInv, PendingItemIsNext
  <2>2. HeldNext = persistentItems'
    BY <1>0, <1>2, <1>3, <2>1 DEF HeldInv
  <2> QED BY <1>0, <1>1, <2>1, <2>2 DEF HeldInv, NoRequest
<1>5. CASE ReplayAnswered
  <2>1. /\ pending.kind = "Replay" /\ restore.state = "Replaying"
        /\ persistentItems' = persistentItems
        /\ \/ /\ Q[1] = Answer
              /\ \/ restore.items \ {pending.name} = {} /\ restore' = NoRestore
                 \/ /\ restore'.state = "Replaying"
                    /\ restore'.items = restore.items \ {pending.name}
           \/ restore'.state = "Failed"
    BY <1>5 DEF ReplayAnswered, Answer
  <2>2. /\ context # "AwaitingCursor" /\ HeldNext \subseteq persistentItems
        /\ restore.items \subseteq persistentItems
        /\ persistentItems \subseteq HeldNext \cup restore.items
        /\ Q[1] = Answer => pending.name \in HeldNext
    BY <1>0, <1>2, <2>1 DEF HeldInv
  <2>3. CASE Q[1] = Answer /\ restore.items \ {pending.name} = {} /\ restore' = NoRestore
    <3>1. HeldNext = persistentItems
      BY <2>2, <2>3
    <3> QED BY <1>0, <1>1, <2>1, <2>3, <3>1 DEF HeldInv, NoRequest, NoRestore
  <2>4. CASE /\ Q[1] = Answer /\ restore'.state = "Replaying"
             /\ restore'.items = restore.items \ {pending.name}
    BY <1>0, <1>1, <2>1, <2>2, <2>4 DEF HeldInv, NoRequest
  <2>5. CASE restore'.state = "Failed"
    BY <1>0, <1>1, <2>1, <2>5 DEF HeldInv, NoRequest
  <2> QED BY <2>1, <2>3, <2>4, <2>5
<1> QED BY <1>4, <1>5

\* A reset that is done leaves what the plugin wants back to be replayed.
LEMMA HeldReset ==
  ASSUME DInv, ResetStarted
  PROVE  HeldInv'
<1>0. /\ HeldInv /\ tasks \in Seq(Tasks) /\ ResetTask \in Tasks /\ ResetTask.kind = "Reset"
      /\ session # None /\ restore.state = "NeedsReset"
      /\ pending' = NoRequest
      /\ UNCHANGED <<session, context, persistentItems, held>>
  BY SlotAssumption
     DEF DInv, DeliveryTypeOK, IInv, RequestInv, ResetStarted, ResetTask, Tasks, Indices, gameVars
<1>1. tasks' = Append(tasks, ResetTask) => HeldNext' = {}
  <2>1. PICK task \in Tasks : task = ResetTask
    BY <1>0
  <2>2. PICK n : n = Len(tasks) + 1
    OBVIOUS
  <2>3. tasks' = Append(tasks, task) => n \in DOMAIN tasks' /\ tasks'[n] = task
    BY <1>0, <2>2, AppendLemma
  <2> QED BY <1>0, <2>1, <2>3 DEF HeldNext, ResetQueued
<1>2. CASE restore' = restore
  BY <1>0, <1>2 DEF HeldInv, NoRequest
<1>3. CASE /\ tasks' = Append(tasks, ResetTask)
           /\ restore'.state = "Replaying" /\ restore'.items = restore.items
  BY <1>0, <1>1, <1>3 DEF HeldInv, NoRequest
<1> QED BY <1>2, <1>3 DEF ResetStarted

LEMMA HeldStep ==
  ASSUME DInv, [DNext]_deliveryAll
  PROVE  HeldInv'
<1>0. /\ HeldInv /\ DeliveryTypeOK /\ Q \in Seq(Events) /\ tasks \in Seq(Tasks)
      /\ requestId \in Nat /\ (session = None => held = {})
  BY QueueType, BoundsAssumption DEF DInv, DeliveryTypeOK, IInv, DataTypeOK, HeldInv
<1>a. tasks' = tasks /\ held' = held => HeldNext' = HeldNext /\ (ResetQueued' => ResetQueued)
  BY DEF HeldNext, ResetQueued
<1>1. ASSUME NEW e \in Events, Q' = Append(Q, e), e # Answer,
             UNCHANGED <<session, context, persistentItems, restore, pending, requestId,
                         tasks, held>>
      PROVE  HeldInv'
  BY <1>0, <1>a, <1>1, CarriedSteps, HeldFrame
<1>2. CASE \/ \E c \in Checksums : LoadSave(c) /\ Q' = Append(Q, LoadedEvent(c))
           \/ \E c \in Checksums : SaveGame(c) /\ Q' = Append(Q, WrittenEvent(c))
           \/ StartRefused
  <2>1. UNCHANGED <<session, context, persistentItems, restore, pending, requestId, tasks, held>>
    BY <1>2 DEF LoadSave, SaveGame, StartRefused, gameVars, vars, sessionVars, deliveryVars,
                restoreVars, requestVars
  <2>2. \E e \in Events : Q' = Append(Q, e) /\ e # Answer
    <3>1. IsCompletion(Answer)
      BY CompletedFacts DEF Answer
    <3>2. ASSUME NEW c \in Checksums
          PROVE  /\ LoadedEvent(c) \in Events /\ LoadedEvent(c) # Answer
                 /\ WrittenEvent(c) \in Events /\ WrittenEvent(c) # Answer
      BY <3>1, EventTypes, LoadedFacts, WrittenFacts
    <3>3. CompletedEvent(requestId, FALSE) \in Events /\ CompletedEvent(requestId, FALSE) # Answer
      BY <1>0, EventTypes, AppliedFact DEF Answer
    <3> QED BY <1>2, <3>2, <3>3 DEF StartRefused
  <2> QED BY <1>1, <2>1, <2>2
<1>3. ASSUME NEW task \in Tasks, TaskDropped(task) PROVE HeldInv'
  <2>1. /\ UNCHANGED <<session, context, persistentItems, restore, pending, requestId, held>>
        /\ tasks # <<>> /\ IsWork(tasks[1]) /\ tasks' = Tail(tasks)
    BY <1>3 DEF TaskDropped, vars, sessionVars, deliveryVars, restoreVars, requestVars
  <2>2. ResetQueued' <=> ResetQueued
    <3>1. \A i \in DOMAIN tasks' : i + 1 \in DOMAIN tasks /\ tasks'[i] = tasks[i + 1]
      BY <1>0, <2>1, TailLemma
    <3>2. \A i \in DOMAIN tasks : i = 1 \/ (i - 1 \in DOMAIN tasks' /\ tasks'[i - 1] = tasks[i])
      BY <1>0, <2>1, TailLemma
    <3> QED BY <2>1, <3>1, <3>2 DEF ResetQueued, IsWork
  <2>3. Carried' <=> Carried
    <3>1. task.id \in Nat
      BY DEF Tasks
    <3>2. PICK e \in Events : e = CompletedEvent(task.id, FALSE)
      BY <3>1, EventTypes
    <3>3. e # Answer /\ Q' = Append(Q, e)
      <4>1. ~e.applied /\ Answer.applied
        BY <3>2, AppliedFact DEF Answer
      <4> QED BY <1>3, <3>2, <4>1 DEF TaskDropped
    <3> QED BY <1>0, <2>1, <3>3, CarriedSteps
  <2>4. HeldNext' = HeldNext
    BY <2>1, <2>2 DEF HeldNext
  <2> QED BY <1>0, <2>1, <2>2, <2>3, <2>4, HeldFrame
<1>4. CASE RunReset /\ Q' = Q
  <2>1. /\ UNCHANGED <<session, context, persistentItems, restore, pending, requestId>>
        /\ tasks # <<>> /\ tasks[1].kind = "Reset" /\ tasks' = Tail(tasks) /\ held' = {}
    BY <1>0, <1>4 DEF RunReset, vars, sessionVars, deliveryVars, restoreVars, requestVars
  <2>2. ResetQueued
    BY <1>0, <2>1, TailLemma DEF ResetQueued
  <2>3. HeldNext' = HeldNext
    BY <2>1, <2>2 DEF HeldNext
  <2>4. Carried' <=> Carried
    BY <1>0, <1>4, <2>1, CarriedSteps
  <2> QED BY <1>0, <2>1, <2>2, <2>3, <2>4, HeldFrame
<1>5. ASSUME NEW c \in Checksums, LoadHeard(c) PROVE HeldInv'
  <2>1. /\ UNCHANGED <<session, held>> /\ restore'.state = "AwaitingSnapshot"
        /\ pending' = CancelGameplayRequest(pending)
        /\ pending.kind \in {"None", "Policies", "Item", "Reset", "Replay"}
    BY <1>5 DEF LoadHeard, EventTurn, gameVars, DInv, IInv, DataTypeOK, Requests, RequestKinds
  <2>2. pending'.kind \in {"None", "Policies"}
    BY <2>1 DEF CancelGameplayRequest, NoRequest
  <2> QED BY <1>0, <2>1, <2>2 DEF HeldInv
<1>6. CASE EventIgnored \/ \E c \in Checksums : WriteHeard(c)
  <2>1. /\ Q # <<>> /\ Q' = Tail(Q)
        /\ UNCHANGED <<session, persistentItems, restore, pending, requestId, tasks, held>>
        /\ context' = "AwaitingCursor" => context = "AwaitingCursor"
        /\ IsWritten(Q[1]) \/ ~(IsWork(pending) /\ Q[1].id = requestId)
    BY <1>6, WrittenFacts
       DEF EventIgnored, WriteHeard, EventTurn, Still, gameVars, queueVars
  <2>2. Q[1] = Answer => ~IsWritten(Q[1]) /\ Q[1].id = requestId
    BY CompletedFacts DEF Answer
  <2>3. IsWork(pending) => (Carried' <=> Carried)
    BY <1>0, <2>1, <2>2, CarriedSteps
  <2> QED BY <1>0, <1>a, <2>1, <2>3, HeldFrame
<1>7. CASE WorldLeft
  <2>1. /\ UNCHANGED <<session, held>> /\ persistentItems' = {} /\ context' = "Waiting"
        /\ \/ session # None /\ restore'.state = "NeedsReset" /\ restore'.items = {}
           \/ session = None /\ restore' = NoRestore
        /\ pending' = CancelGameplayRequest(pending)
        /\ pending.kind \in {"None", "Policies", "Item", "Reset", "Replay"}
    BY <1>7 DEF WorldLeft, WorldTurn, DInv, IInv, DataTypeOK, Requests, RequestKinds
  <2>2. pending'.kind \in {"None", "Policies"}
    BY <2>1 DEF CancelGameplayRequest, NoRequest
  <2> QED BY <1>0, <2>1, <2>2 DEF HeldInv, NoRestore
<1>8. CASE Q' = Q /\ UNCHANGED <<session, persistentItems, restore, pending, requestId, held>>
           /\ (context' = "AwaitingCursor" => context = "AwaitingCursor")
           /\ HeldNext' = HeldNext /\ (ResetQueued' => ResetQueued)
  BY <1>0, <1>8, CarriedSteps, HeldFrame
<1>9. CASE TaskQueued /\ Q' = Q
  <2>1. /\ UNCHANGED <<session, context, persistentItems, restore, pending, requestId, held>>
        /\ IsWork(pending) /\ tasks' = Append(tasks, PendingTask) /\ PendingTask \in Tasks
    BY <1>9, PendingTaskType
       DEF TaskQueued, gameVars, vars, sessionVars, deliveryVars, restoreVars, requestVars
  <2>2. PICK task \in Tasks : task = PendingTask /\ task.kind # "Reset"
    BY <2>1 DEF PendingTask, IsWork
  <2>3. /\ DOMAIN tasks' = 1..(Len(tasks) + 1) /\ DOMAIN tasks = 1..Len(tasks)
        /\ \A i \in 1..Len(tasks) : tasks'[i] = tasks[i]
        /\ tasks'[Len(tasks) + 1] = task /\ Len(tasks) \in Nat
    BY <1>0, <2>1, <2>2, AppendLemma
  <2>4. ResetQueued' <=> ResetQueued
    BY <2>2, <2>3 DEF ResetQueued
  <2> QED BY <1>8, <1>9, <2>1, <2>4 DEF HeldNext
<1>10. CASE \/ (NewGame \/ QuitToMenu \/ FinishLoading \/ GainControl \/ LoseControl) /\ Q' = Q
            \/ (ReadContext \/ DrainQueue \/ UNCHANGED deliveryAll) /\ Q' = Q
            \/ (WorldEntered \/ WorldKept \/ QuietTurn) /\ Q' = Q
  <2>1. /\ UNCHANGED <<session, persistentItems, restore, pending, requestId, held, tasks>>
        /\ context' = "AwaitingCursor" => context = "AwaitingCursor"
    BY <1>10 DEF NewGame, QuitToMenu, FinishLoading, GainControl, LoseControl, ReadContext,
       DrainQueue, deliveryAll, WorldEntered, WorldKept, WorldTurn, QuietTurn, Still,
       NetworkTurn, gameVars, queueVars, vars, sessionVars, deliveryVars, restoreVars, requestVars
  <2> QED BY <1>8, <1>10, <1>a, <2>1
<1>11. CASE EmptyReplay
  <2>1. /\ UNCHANGED <<session, context, persistentItems, pending, tasks, held>>
        /\ restore.state = "Replaying" /\ restore.items = {} /\ restore' = NoRestore
        /\ pending.kind = "None"
    BY <1>11 DEF EmptyReplay, NetworkTurn, gameVars, queueVars, NoRequest
  <2>2. session # None /\ HeldNext = persistentItems /\ HeldNext' = HeldNext
    BY <1>0, <1>a, <2>1 DEF HeldInv
  <2> QED BY <2>1, <2>2 DEF HeldInv, NoRestore
<1>12. CASE (PoliciesHanded \/ ResetHanded \/ ReplayHanded \/ ItemHanded) /\ Q' = Q
  <2>1. /\ UNCHANGED <<session, context, persistentItems, restore, tasks, held>>
        /\ pending.kind = "None" /\ requestId' = requestId + 1
        /\ \/ session = None /\ pending'.kind = "Policies"
           \/ session # None
    BY <1>12 DEF PoliciesHanded, ResetHanded, ReplayHanded, ItemHanded, Handed, NetworkTurn,
                 gameVars, queueVars, NoRequest
  <2>2. ~Carried' /\ HeldNext' = HeldNext
    BY <1>12, <1>a, <2>1, HandedIsNew
  <2> QED BY <1>0, <2>1, <2>2 DEF HeldInv
<1>13. CASE CursorGiven
  <2>1. /\ session' # None /\ context' # "AwaitingCursor" /\ pending' = NoRequest
        /\ restore'.state = "NeedsReset" /\ restore'.items = persistentItems'
    BY <1>13 DEF CursorGiven
  <2> QED BY <2>1 DEF HeldInv, NoRequest
<1>14. CASE Installed
  <2>1. /\ session = None /\ pending' = NoRequest
        /\ UNCHANGED <<context, persistentItems, restore, held, tasks>>
    BY <1>14 DEF Installed, gameVars, queueVars
  <2>2. held = {} /\ persistentItems = {} /\ restore.state \in {"None", "AwaitingSnapshot"}
    BY <1>0, <2>1 DEF HeldInv, DInv, ItemsInv
  <2>3. HeldNext' = {}
    BY <2>1, <2>2 DEF HeldNext
  <2> QED BY <2>1, <2>2, <2>3 DEF HeldInv, NoRequest
<1>15. CASE Crash
  BY <1>15 DEF Crash, Restart, HeldInv, NoRequest, NoRestore
<1> QED BY <1>2, <1>3, <1>4, <1>5, <1>6, <1>7, <1>9, <1>10, <1>11, <1>12, <1>13, <1>14, <1>15,
           HeldApplied, HeldAnswered, HeldReset, StepCases-----------------------------------------------------------------------------
\* DInv is inductive.

LEMMA DeliveryStart ==
  ASSUME DInit
  PROVE  DInv
<1>0. Q = <<>> /\ IInv
  BY InitLemma DEF DInit, Q
<1> USE DEF DInit, Init, InitVolatile, NoRequest, NoRestore
<1>1. DeliveryTypeOK
  BY NoWorldFacts DEF DeliveryTypeOK, Modes
<1>2. FitInv
  <2>1. ASSUME NEW k, Point(k) PROVE k = 1 /\ WorldAt(k) = NoWorld
    BY <1>0, <2>1 DEF Point, WorldAt
  <2>2. ~Known(NoWorld)
    BY NoWorldFacts, SlotAssumption DEF Known
  <2> QED BY <1>0, <2>1, <2>2 DEF FitInv, Fits, LastLoad
<1>3. ExistInv /\ NewInv /\ RecordedInv
  BY <1>0, NoWorldFacts DEF ExistInv, NewInv, RecordedInv
<1>4. SlotInv /\ LoopInv /\ EpochInv /\ TaskInv
  BY LoadsAtEnd DEF SlotInv, LoopInv, EpochInv, TaskInv, IsLoaded
<1>5. MenuInv /\ GoneInv
  BY <1>0, NoWorldFacts, LoadsAtEnd DEF MenuInv, GoneInv, Ending
<1>6. IdInv
  BY <1>0 DEF IdInv, IdsFit
<1>7. ItemsInv
  <2>1. CursorItems(EmptyJournal.snapshots)
    BY DeliveryAssumption DEF CursorItems, EmptyJournal
  <2> QED BY <2>1, PersistentBeforeFacts DEF ItemsInv
<1>8. HeldInv
  BY DEF HeldInv, HeldNext, ResetQueued
<1> QED BY <1>0, <1>1, <1>2, <1>3, <1>4, <1>5, <1>6, <1>7, <1>8 DEF DInv

LEMMA DeliveryStep ==
  ASSUME DInv, [DNext]_deliveryAll
  PROVE  DInv'
<1>1. IInv'
  BY DeliveryRuns, StepLemma DEF DInv
<1> QED BY <1>1, DeliveryTypeStep, FitStep, ExistStep, NewStep, RecordedStep, SlotStep, MenuStep,
           GoneStep, LoopStep, EpochStep, IdStep, TaskStep, ItemsStep, HeldStep DEF DInv

\* The invariant that everything below follows from: how the runtime, the game, the
\* events and the tasks between them fit together.
THEOREM DeliveryInvariant == DSpec => []DInv
BY DeliveryStart, DeliveryStep, PTL DEF DSpec

\* The plugin in the game does nothing that the runtime's own specification does not
\* allow, so every theorem of SessionRuntime_proofs holds for it: what the loop, the
\* game and the client pass to the runtime is within its environment.
THEOREM RuntimeOfDelivery == DSpec => Spec
<1>1. DInit => Init
  BY DEF DInit
<1>2. DInv /\ [DNext]_deliveryAll => [Next]_vars
  BY DeliveryRuns
<1> QED BY <1>1, <1>2, DeliveryInvariant, PTL DEF DSpec, Spec

\* With nothing on the way, position 1 is the loaded world.
LEMMA QuietWorld ==
  ASSUME DInv, Quiet
  PROVE  /\ Q = <<>> /\ Point(1) /\ WorldAt(1) = world /\ NoLoadBefore(Q, 1)
         /\ CursorAt(1) = nextIndex
<1>1. Q = <<>>
  BY DEF Quiet, Q
<1> QED BY <1>1 DEF Point, WorldAt, NoLoadBefore, CursorAt, Answered, Quiet

\* The cursor of a settled world is the number of its items, whatever was loaded,
\* saved, answered late or lost before.
THEOREM CursorCounts == DSpec => []CursorCountsApplied
<1>1. DInv => CursorCountsApplied
  <2> SUFFICES ASSUME DInv, Quiet, Known(world), Ready(context)
               PROVE  \A i \in Indices : world.applied[i] = (IF i < nextIndex THEN 1 ELSE 0)
    BY DEF CursorCountsApplied
  <2>1. Fits(1)
    BY QuietWorld DEF DInv, FitInv, Point
  <2>2. world.applied = First(nextIndex)
    BY <2>1, QuietWorld DEF Fits, Ready
  <2> QED BY <2>2 DEF First
<1> QED BY <1>1, DeliveryInvariant, PTL

\* The game has the persistent items of its world once the restore is over and no
\* task waits: what the world before it had is gone, and nothing is missing.
THEOREM Held == DSpec => []HeldMatchesWorld
<1>1. DInv => HeldMatchesWorld
  <2> SUFFICES ASSUME DInv, Quiet, Ready(context), tasks = <<>>, session # None,
                      restore.state = "None"
               PROVE  held = PersistentBefore(nextIndex)
    BY DEF HeldMatchesWorld, PersistentBefore
  <2>1. HeldNext = held
    BY DEF HeldNext, ResetQueued
  <2>2. held = persistentItems
    BY <2>1 DEF DInv, HeldInv, Quiet
  <2> QED BY <2>2 DEF DInv, ItemsInv, Ready
<1> QED BY <1>1, DeliveryInvariant, PTL-----------------------------------------------------------------------------
\* The refinement: what the player sees of a step is a step of OrderedDelivery.

TheWorld == IF Known(world) THEN world.applied ELSE [i \in {} |-> 0]
Tracked == {x \in Checksums : saves[x] # None /\ Known(saves[x])}
TheSaves == [c \in Tracked |-> saves[c].applied]

LEMMA OrderedWorlds ==
  /\ Ordered!Untracked = [i \in {} |-> 0]
  /\ \A n : Ordered!FirstItems(n) = First(n)
BY DEF Ordered!Untracked, Ordered!FirstItems, First, Indices

\* A tracked world is told from an untracked one, for the slot has an item.
LEMMA TrackedIsNot ==
  ASSUME NEW w \in Worlds
  PROVE  w.applied # [i \in {} |-> 0]
<1>1. 0 \in Indices
  BY SlotAssumption DEF Indices
<1>2. w.applied \in [Indices -> 0..2]
  BY DEF Worlds
<1>3. DOMAIN w.applied = Indices /\ DOMAIN [i \in {} |-> 0] = {}
  BY <1>2
<1> QED BY <1>1, <1>3

LEMMA OrderedSteps ==
  /\ UNCHANGED <<world, saves, recorded>> => UNCHANGED <<TheWorld, TheSaves>>
  /\ UNCHANGED <<TheWorld, TheSaves>> => UNCHANGED Ordered!vars
  /\ TheWorld' = First(0) /\ UNCHANGED TheSaves => Ordered!Next
  /\ TheWorld' = [i \in {} |-> 0] /\ UNCHANGED TheSaves => Ordered!Next
  /\ \A n \in Indices : TheWorld = First(n) /\ TheWorld' = First(n + 1) /\ UNCHANGED TheSaves
                          => Ordered!Next
  /\ \A c \in Tracked : TheWorld' = saves[c].applied /\ UNCHANGED TheSaves => Ordered!Next
<1> USE DEF Ordered!Next, TheWorld, TheSaves, Tracked
<1>1. UNCHANGED <<world, saves, recorded>> => UNCHANGED <<TheWorld, TheSaves>>
  BY DEF Known
<1>2. UNCHANGED <<TheWorld, TheSaves>> => UNCHANGED Ordered!vars
  BY DEF Ordered!vars
<1>3. TheWorld' = First(0) /\ UNCHANGED TheSaves => Ordered!Next
  BY OrderedWorlds DEF Ordered!NewWorld
<1>4. TheWorld' = [i \in {} |-> 0] /\ UNCHANGED TheSaves => Ordered!Next
  BY OrderedWorlds DEF Ordered!LeaveWorld
<1>5. ASSUME NEW n \in Indices, TheWorld = First(n), TheWorld' = First(n + 1), UNCHANGED TheSaves
      PROVE  Ordered!Next
  BY <1>5, OrderedWorlds DEF Ordered!Deliver, Indices
<1>6. ASSUME NEW c \in Tracked, TheWorld' = saves[c].applied, UNCHANGED TheSaves
      PROVE  Ordered!Next
  BY <1>6 DEF Ordered!Load
<1> QED BY <1>1, <1>2, <1>3, <1>4, <1>5, <1>6

\* A world that is loaded goes on from its save when the journal knows that save.
LEMMA LoadMaps ==
  ASSUME DInv, NEW c \in Checksums, LoadSave(c)
  PROVE  Ordered!Next
<1>1. /\ saves \in [Checksums -> Worlds \cup {None}] /\ saves[c] \in Worlds /\ RecordedInv
      /\ world' = [applied |-> saves[c].applied, from |-> c, fresh |-> FALSE]
      /\ UNCHANGED <<saves, recorded>>
  BY DEF DInv, DeliveryTypeOK, LoadSave
<1>2. world'.applied = saves[c].applied /\ world'.from = c /\ ~world'.fresh
  BY <1>1, LoadedFactsOfWorld
<1>3. UNCHANGED TheSaves
  BY <1>1 DEF TheSaves, Tracked, Known
<1>4. CASE c \in recorded
  <2>1. c \in Tracked
    BY <1>4, <1>1 DEF Tracked, RecordedInv
  <2>2. TheWorld' = saves[c].applied
    BY <1>1, <1>2, <1>4 DEF TheWorld, Known
  <2> QED BY <1>3, <2>1, <2>2, OrderedSteps
<1>5. CASE c \notin recorded
  <2>1. TheWorld' = [i \in {} |-> 0]
    BY <1>1, <1>2, <1>5 DEF TheWorld, Known
  <2> QED BY <1>3, <2>1, OrderedSteps
<1> QED BY <1>4, <1>5

\* A new game that the plugin was waiting for is tracked from its start.
LEMMA NewGameMaps ==
  ASSUME DInv, NewGame \/ QuitToMenu \/ Crash
  PROVE  Ordered!Next
<1>1. UNCHANGED <<saves, recorded>> /\ recorded \subseteq Checksums /\ None \notin recorded
  BY SlotAssumption DEF DInv, DeliveryTypeOK, NewGame, QuitToMenu, Crash
<1>2. UNCHANGED TheSaves
  BY <1>1 DEF TheSaves, Tracked, Known
<1>3. world'.from = None /\ world'.applied = First(0)
  BY NewWorldFacts, NoWorldFacts DEF NewGame, QuitToMenu, Crash
<1>4. TheWorld' = First(0) \/ TheWorld' = [i \in {} |-> 0]
  BY <1>3 DEF TheWorld
<1> QED BY <1>2, <1>4, OrderedSteps

\* A new save has what its world has.
LEMMA SaveMaps ==
  ASSUME DInv, NEW c \in Checksums, SaveGame(c)
  PROVE  [Ordered!Next]_(Ordered!vars)
<1>1. /\ saves \in [Checksums -> Worlds \cup {None}] /\ world \in Worlds /\ None \notin Worlds
      /\ saves' = [saves EXCEPT ![c] = world] /\ saves[c] = None
      /\ UNCHANGED <<world, recorded>>
  BY NoSaveAssumption DEF DInv, DeliveryTypeOK, SaveGame
<1>2. UNCHANGED TheWorld /\ c \notin Tracked
  BY <1>1 DEF TheWorld, Tracked, Known
<1>3. CASE ~Known(world)
  <2>1. Tracked' = Tracked /\ \A x \in Tracked : saves'[x] = saves[x]
    BY <1>1, <1>3 DEF Tracked, Known
  <2>2. UNCHANGED TheSaves
    BY <2>1 DEF TheSaves
  <2> QED BY <1>2, <2>2, OrderedSteps
<1>4. CASE Known(world)
  <2>1. Tracked' = Tracked \cup {c} /\ \A x \in Tracked : saves'[x] = saves[x]
    BY <1>1, <1>4 DEF Tracked, Known
  <2>2. TheWorld = world.applied /\ TheWorld # [i \in {} |-> 0]
    BY <1>1, <1>4, TrackedIsNot DEF TheWorld
  <2>3. TheSaves' = [x \in Tracked \cup {c} |-> IF x \in {c} THEN TheWorld ELSE TheSaves[x]]
    BY <1>1, <1>2, <2>1, <2>2 DEF TheSaves
  <2>4. TheSaves' = Ordered!Extend(TheSaves, {c}, TheWorld)
    BY <2>3 DEF Ordered!Extend, TheSaves
  <2>5. Ordered!Save(c)
    BY <1>2, <2>2, <2>4, OrderedWorlds DEF Ordered!Save, TheWorld, TheSaves, Tracked
  <2> QED BY <2>5 DEF Ordered!Next
<1> QED BY <1>3, <1>4

\* What reaches a tracked world is its next item.
LEMMA AppliedMaps ==
  ASSUME DInv, NEW task \in Tasks, TaskApplied(task)
  PROVE  [Ordered!Next]_(Ordered!vars)
<1>1. /\ world \in Worlds /\ UNCHANGED <<saves, recorded>> /\ Q \in Seq(Events)
      /\ world'.from = world.from /\ (world'.fresh <=> world.fresh)
  BY WorldApplied, QueueType DEF DInv, DeliveryTypeOK, TaskApplied
<1>2. UNCHANGED TheSaves /\ (Known(world') <=> Known(world))
  BY <1>1 DEF TheSaves, Tracked, Known
<1>3. CASE task.kind # "Item"
  <2>1. world' = world
    BY <1>1, <1>3, WorldApplied
  <2> QED BY <1>1, <2>1, OrderedSteps
<1>4. CASE ~Known(world)
  <2>1. UNCHANGED TheWorld
    BY <1>1, <1>2, <1>4 DEF TheWorld, Known
  <2> QED BY <1>2, <2>1, OrderedSteps
<1>5. CASE task.kind = "Item" /\ Known(world)
  <2>1. /\ ~LoadIn(Q) /\ ~Carried /\ context # "AwaitingCursor"
        /\ task.index = nextIndex /\ nextIndex \in Indices
    BY <1>5, AppliedIsLive
  <2>2. PICK n \in Nat : n = Len(Q) + 1
    BY <1>1
  <2>3. Point(n) /\ WorldAt(n) = world /\ NoLoadBefore(Q, n) /\ n \in 1..(Len(Q) + 1)
    BY <1>1, <2>1, <2>2, LoadsAtEnd DEF Point, WorldAt
  <2>4. CursorAt(n) = nextIndex
    BY <2>1, <2>2 DEF CursorAt, Answered, Carried
  <2>5. world.applied = First(nextIndex)
    BY <1>5, <2>1, <2>3, <2>4 DEF DInv, FitInv, Fits
  <2>6. world'.applied = First(nextIndex + 1)
    BY <1>1, <1>5, <2>1, <2>5, WorldApplied, FirstNext
  <2>7. TheWorld = First(nextIndex) /\ TheWorld' = First(nextIndex + 1)
    BY <1>1, <1>2, <1>5, <2>5, <2>6 DEF TheWorld, Known
  <2> QED BY <1>2, <2>1, <2>7, OrderedSteps
<1> QED BY <1>3, <1>4, <1>5

\* When the journal takes a save up, the world that was loaded from it meanwhile and
\* the saves made of that world have what the save has.
LEMMA RecordMaps ==
  ASSUME DInv, NEW c \in Checksums, WriteHeard(c)
  PROVE  [Ordered!Next]_(Ordered!vars)
<1>1. /\ UNCHANGED <<world, saves>> /\ Q \in Seq(Events) /\ Q # <<>> /\ 1 \in DOMAIN Q
      /\ IsWritten(Q[1]) /\ Q[1].checksum = c
      /\ recorded' = recorded \/ (recorded' = recorded \cup {c} /\ Known(saves[c]))
  BY QueueType, TailLemma, WrittenFacts DEF WriteHeard, EventTurn, gameVars, DInv
<1>2. CASE recorded' = recorded
  BY <1>1, <1>2, OrderedSteps
<1>3. CASE recorded' = recorded \cup {c} /\ Known(saves[c])
  <2>1. NewTo(1) /\ saves[c] # None /\ c \in Tracked
    BY <1>1, <1>3 DEF DInv, NewInv, ExistInv, Tracked
  <2>2. TheWorld' = TheWorld \/ (TheWorld = [i \in {} |-> 0] /\ TheWorld' = TheSaves[c])
    <3>1. CASE world.from = c
      BY <1>1, <1>3, <2>1, <3>1 DEF TheWorld, TheSaves, Known, NewTo
    <3>2. CASE world.from # c
      BY <1>1, <1>3, <3>2 DEF TheWorld, Known
    <3> QED BY <3>1, <3>2
  <2> DEFINE later == {x \in Checksums \ Tracked : saves[x] # None /\ saves[x].from = c}
  <2>3. Tracked' = Tracked \cup later
    BY <1>1, <1>3 DEF Tracked, Known
  <2>4. \A x \in later : saves[x].applied = saves[c].applied
    BY <1>1, <2>1 DEF NewTo
  <2>5. TheSaves' = [x \in Tracked \cup later |-> IF x \in later THEN TheSaves[c] ELSE TheSaves[x]]
    BY <1>1, <2>1, <2>3, <2>4 DEF TheSaves
  <2>6. TheSaves' = Ordered!Extend(TheSaves, later, TheSaves[c])
    BY <2>5 DEF Ordered!Extend, TheSaves
  <2>7. later \in SUBSET (Checksums \ DOMAIN TheSaves) /\ c \in DOMAIN TheSaves
    BY <2>1 DEF TheSaves
  <2> HIDE DEF later
  <2>8. Ordered!TakeUp(c)
    BY <2>2, <2>6, <2>7, OrderedWorlds DEF Ordered!TakeUp, TheWorld, TheSaves, Tracked
  <2> QED BY <2>8 DEF Ordered!Next
<1> QED BY <1>1, <1>2, <1>3

LEMMA StepMaps ==
  ASSUME DInv, [DNext]_deliveryAll
  PROVE  [Ordered!Next]_(Ordered!vars)
<1>1. \/ UNCHANGED <<world, saves, recorded>>
      \/ \E c \in Checksums : LoadSave(c) \/ SaveGame(c) \/ WriteHeard(c)
      \/ \E task \in Tasks : TaskApplied(task)
      \/ NewGame \/ QuitToMenu \/ Crash
  BY StepCases
     DEF TaskDropped, FinishLoading, GainControl, LoseControl, RunReset, ReadContext, DrainQueue,
     LoadHeard, EventIgnored, ItemAnswered, ReplayAnswered, EventTurn, WorldLeft, WorldEntered,
     WorldKept, WorldTurn, QuietTurn, EmptyReplay, PoliciesHanded, ResetHanded, ReplayHanded,
     ItemHanded, Handed, CursorGiven, NetworkTurn, Installed, ResetStarted, TaskQueued,
     StartRefused, deliveryAll, gameVars
<1> QED BY <1>1, OrderedSteps, LoadMaps, SaveMaps, RecordMaps, AppliedMaps, NewGameMaps

LEMMA StartMaps ==
  ASSUME DInit
  PROVE  Ordered!Init
<1>1. TheWorld = [i \in {} |-> 0]
  BY NoWorldFacts, SlotAssumption DEF DInit, TheWorld, Known
<1>2. Tracked = {}
  BY DEF DInit, Tracked
<1>3. TheSaves = [c \in {} |-> [i \in {} |-> 0]]
  BY <1>2 DEF TheSaves
<1> QED BY <1>1, <1>3, OrderedWorlds DEF Ordered!Init, TheWorld, TheSaves, Tracked

\* ItemDelivery implements OrderedDelivery: whatever is loaded, saved, retransmitted,
\* refused or lost, the player's worlds get the items in order, each once, and a save
\* loses none.
THEOREM Implements == DSpec => DeliversInOrder
<1>1. DInit => Ordered!Init
  BY StartMaps
<1>2. DInv /\ [DNext]_deliveryAll => [Ordered!Next]_(Ordered!vars)
  BY StepMaps
<1> QED BY <1>1, <1>2, DeliveryInvariant, PTL DEF DSpec, DeliversInOrder, Ordered!Spec
-----------------------------------------------------------------------------
\* What the refinement means for the player, in the terms of ItemDelivery.

\* The saves and the world that the journal knows have the first items, each once, in
\* every state: also while events and answers are on their way, and between a save and
\* its record.
HasFirstItems(w) == \E n \in 0..MaxIndex : w.applied = First(n)
PlayerHasFirstItems ==
  /\ Known(world) => HasFirstItems(world)
  /\ \A c \in Checksums : saves[c] # None /\ Known(saves[c]) => HasFirstItems(saves[c])

Promised ==
  INSTANCE OrderedDelivery_proofs WITH
    Saves <- Checksums, Items <- MaxIndex, delivered <- TheWorld, saved <- TheSaves

LEMMA PromisedWorlds ==
  ASSUME DeliveryTypeOK, Promised!Prefixes
  PROVE  PlayerHasFirstItems
<1>1. Promised!Untracked = [i \in {} |-> 0] /\ \A n : Promised!FirstItems(n) = First(n)
  BY DEF Promised!Untracked, Promised!FirstItems, First, Indices
<1>2. ASSUME NEW w \in Worlds, w.applied \in Promised!TrackedWorlds \cup {Promised!Untracked}
      PROVE  HasFirstItems(w)
  BY <1>1, <1>2, TrackedIsNot DEF Promised!TrackedWorlds, HasFirstItems
<1>3. Known(world) => HasFirstItems(world)
  BY <1>2 DEF Promised!Prefixes, TheWorld, DeliveryTypeOK
<1>4. ASSUME NEW c \in Checksums, saves[c] # None, Known(saves[c])
      PROVE  HasFirstItems(saves[c])
  <2>1. c \in Tracked /\ c \in DOMAIN TheSaves /\ TheSaves[c] = saves[c].applied
    BY <1>4 DEF Tracked, TheSaves
  <2> QED BY <1>2, <1>4, <2>1 DEF Promised!Prefixes, DeliveryTypeOK
<1> QED BY <1>3, <1>4 DEF PlayerHasFirstItems

\* What OrderedDelivery_proofs shows of a tracked world holds for the player's.
THEOREM FirstItemsOnly == DSpec => []PlayerHasFirstItems
<1>1. DInit => Promised!Prefixes
  <2>1. Ordered!Init => Promised!Init
    BY DEF Ordered!Init, Promised!Init, Ordered!Untracked, Promised!Untracked,
       TheWorld, TheSaves, Tracked
  <2> QED BY <2>1, StartMaps, Promised!InitPrefixes
<1>2. DInv /\ Promised!Prefixes /\ [DNext]_deliveryAll => Promised!Prefixes'
  <2>1. [Ordered!Next]_(Ordered!vars) => [Promised!Next]_(Promised!vars)
    BY DEF Ordered!Next, Promised!Next, Ordered!vars, Promised!vars,
       Ordered!NewWorld, Ordered!Deliver, Ordered!LeaveWorld, Ordered!Save, Ordered!Load,
       Ordered!TakeUp, Ordered!Extend, Ordered!FirstItems, Ordered!Untracked,
       Promised!NewWorld, Promised!Deliver, Promised!LeaveWorld, Promised!Save, Promised!Load,
       Promised!TakeUp, Promised!Extend, Promised!FirstItems, Promised!Untracked,
       TheWorld, TheSaves, Tracked
  <2>2. MaxIndex \in Nat
    BY SlotAssumption
  <2> QED BY <2>1, <2>2, StepMaps, Promised!StepPrefixes
<1>3. DInv /\ Promised!Prefixes => PlayerHasFirstItems
  BY PromisedWorlds DEF DInv
<1> QED BY <1>1, <1>2, <1>3, DeliveryInvariant, PTL DEF DSpec
=============================================================================
