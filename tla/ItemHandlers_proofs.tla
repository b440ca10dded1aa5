------------------------ MODULE ItemHandlers_proofs ------------------------
(***************************************************************************)
(* Proofs about ItemHandlers, for every slot, any number of items, worlds  *)
(* and rewards, and any order of frames, loads, restarts and removals.     *)
(*                                                                         *)
(* An item that is not answered yet is in one place: the task queue, the   *)
(* batch of a frame, the backlog or the list of unlocks the game has still *)
(* to process (Custody).  A completion tells the truth because the place   *)
(* gives it up when it reports; the allowances count one of the places.    *)
(***************************************************************************)
EXTENDS ItemHandlers, FiniteSetTheorems, FunctionTheorems, WellFoundedInduction, TLAPS

USE DEF worldVars, levelVars, respectVars, weatherVars, taskVars, managerVars, luaVars,
        unlockVars

\* TypeOK in parts that suit the provers, with what it leaves open of the records.
AllItems == UNION {ItemsOf(handler) : handler \in Handlers}
Outcomes == {"Held", "True", "False", "Dropped"}
RequestRecords == [handler : Handlers, item : AllItems, epoch : 0..MaxWorld,
                   outcome : Outcomes, effect : Nat]
Kinds == {"Item", "Release", "Flush", "Reset", "Reapply"}
TaskRecords == {task \in [kind : Kinds, id : Nat, stage : Stages, frames : 0..MaxFrames] :
                  task.kind # "Item" => task.id = 0}
GameOK ==
  /\ configured \in Configurations
  /\ mode \in {"MainMenu", "Loading", "Ready", "Interactive"}
  /\ live \in 0..MaxWorld /\ observed \in 0..live /\ resetEpoch \in 0..observed
  /\ respectDue \in {"No", "Permitted", "Unwatched"}
  /\ bars \in 0..MaxBars /\ expected \in 0..MaxBars
  /\ checkpoint \in [bars : 0..MaxBars, unlocked : SUBSET LuaItems]
  /\ unlocked \subseteq LuaItems /\ appliedItems \subseteq LuaItems
  /\ rewards \in 0..MaxRewards
  /\ bashStage \in Stages /\ shownStage \in Stages
  /\ handlers \in {"No", "Yes", "Removing", "Gone"}
FlagOK ==
  /\ permitted \in BOOLEAN /\ checkpointRestored \in BOOLEAN
  /\ flushQueued \in BOOLEAN /\ stray \in BOOLEAN /\ lateInstall \in BOOLEAN
QueueOK ==
  /\ requests \in Seq(RequestRecords) /\ Len(requests) <= MaxRequests
  /\ pendingTasks \in Seq(TaskRecords) /\ batch \in Seq(TaskRecords)
  /\ backlog \in Seq(Ids) /\ outstanding \in Seq(Ids)
  /\ nativeQueue \in Seq(Unlocks) /\ Len(nativeQueue) <= NativeRoom
  /\ allowances \in [Unlocks -> Nat]

\* What an item is, and that it is of a world the session has reset.
RequestInv ==
  /\ \A id \in Ids : /\ requests[id].handler \in configured
                     /\ requests[id].item \in ItemsOf(requests[id].handler)
                     /\ requests[id].epoch \in 1..observed
                     /\ handlers = "Yes" /\ requests[id].epoch = observed =>
                          resetEpoch = observed
  /\ handlers = "No" => requests = <<>>

\* The places of items that are not answered yet.
ItemTasks(q) == {i \in DOMAIN q : q[i].kind = "Item"}
IdsOf(q) == {q[i].id : i \in ItemTasks(q)}
Apart(q) == \A i, j \in ItemTasks(q) : q[i].id = q[j].id => i = j
Once(s) == \A i, j \in DOMAIN s : s[i] = s[j] => i = j
Held(id) == id \in Ids /\ requests[id].outcome = "Held"
Listed == ToSet(backlog) \cup ToSet(outstanding)
Custody ==
  /\ Apart(batch) /\ Apart(pendingTasks) /\ Once(backlog) /\ Once(outstanding)
  /\ IdsOf(batch) \cap IdsOf(pendingTasks) = {}
  /\ (IdsOf(batch) \cup IdsOf(pendingTasks)) \cap Listed = {}
  /\ ToSet(backlog) \cap ToSet(outstanding) = {}
  /\ \A id \in IdsOf(batch) \cup IdsOf(pendingTasks) \cup Listed : Held(id)
  /\ \A id \in Listed : requests[id].handler = "Unlockable"

\* The handlers' lifetime.
OnlyRelease(q) == \A i \in DOMAIN q : q[i].kind = "Release"
LifetimeInv ==
  /\ handlers # "Yes" => OnlyRelease(pendingTasks)
  /\ handlers \in {"No", "Gone"} =>
       /\ OnlyRelease(batch) /\ backlog = <<>> /\ outstanding = <<>>
       /\ ~permitted /\ ~checkpointRestored

\* The unlocks that are under way are of one world, and the game's queue is empty
\* until those of the world before are dropped.
WorldInv ==
  LET entries == Listed IN
  IF mode \in {"Ready", "Interactive"}
  THEN respectDue = "No" /\ \A id \in entries : IsCurrent(id)
  ELSE nativeQueue = <<>> /\ \A id \in entries : ~IsCurrent(id)

\* While a reset is on its way nothing of this world has been applied.
LuaApplied(id) == requests[id].handler = "Lua" /\ requests[id].outcome = "True" /\ IsCurrent(id)
Resets(q) == {i \in DOMAIN q : q[i].kind = "Reset"}
Current(q) == {i \in ItemTasks(q) : IsCurrent(q[i].id)}
ResetInv ==
  /\ \A i \in Resets(batch) : \A j \in Current(batch) : i < j
  /\ \A i \in Resets(pendingTasks) : \A j \in Current(pendingTasks) : i < j
  /\ Resets(pendingTasks) # {} => Current(batch) = {}
  /\ Resets(batch) # {} \/ Resets(pendingTasks) # {} => \A id \in Ids : ~LuaApplied(id)

\* What was applied in this world is known, and unlocked unless it is to be again.
LuaInv ==
  /\ Installed => \A id \in Ids : LuaApplied(id) => requests[id].item \in appliedItems
  /\ handlers = "Yes" /\ ~Reapplying =>
       \A id \in Ids : LuaApplied(id) => requests[id].item \in unlocked

\* The permission to write the respect is there for the load it was given for.
RespectInv ==
  /\ respectDue = "No" /\ ~lateInstall => bars = expected
  /\ permitted <=> Has("Respect") /\ respectDue = "Permitted"
  /\ handlers = "No" => respectDue # "Permitted"

IInv ==
  /\ GameOK /\ FlagOK /\ QueueOK /\ RequestInv /\ TruthfulCompletions /\ Custody
  /\ LifetimeInv /\ WorldInv /\ AllowancesArePaidFor /\ ResetInv /\ LuaInv /\ RespectInv

-----------------------------------------------------------------------------
\* Numbers, sequences and tasks.

LEMMA LeastNumber ==
  ASSUME NEW T, T \subseteq Nat, T # {}
  PROVE  \E x \in T : \A y \in T : x <= y
<1>1. \E x \in T : \A y \in T : ~ (<<y, x>> \in OpToRel(<,Nat))
  BY NatLessThanWellFounded, WFMin
<1>2. \A x, y \in Nat : <<y, x>> \notin OpToRel(<,Nat) => x <= y
  BY DEF OpToRel
<1> QED BY <1>1, <1>2

LEMMA MinIsLeast ==
  ASSUME NEW T, T \subseteq Nat, T # {}
  PROVE  Min(T) \in T /\ \A y \in T : Min(T) <= y
BY LeastNumber DEF Min

LEMMA Joined ==
  ASSUME NEW S, NEW a \in Seq(S), NEW b \in Seq(S)
  PROVE  /\ a \o b \in Seq(S) /\ Len(a \o b) = Len(a) + Len(b)
         /\ \A i \in 1..(Len(a) + Len(b)) : (a \o b)[i] = IF i <= Len(a) THEN a[i] ELSE b[i - Len(a)]
OBVIOUS

\* What RemoveAt leaves.
LEMMA RemoveAtLemma ==
  ASSUME NEW S, NEW s \in Seq(S), NEW i \in 1..Len(s)
  PROVE  /\ RemoveAt(s, i) \in Seq(S)
         /\ Len(RemoveAt(s, i)) = Len(s) - 1
         /\ \A j \in 1..(Len(s) - 1) :
              RemoveAt(s, i)[j] = IF j < i THEN s[j] ELSE s[j + 1]
<1> DEFINE left == SubSeq(s, 1, i - 1)
           right == SubSeq(s, i + 1, Len(s))
<1>1. left \in Seq(S) /\ Len(left) = i - 1 /\ \A j \in 1..(i - 1) : left[j] = s[j]
  OBVIOUS
<1>2. /\ right \in Seq(S) /\ Len(right) = Len(s) - i
      /\ \A j \in 1..(Len(s) - i) : right[j] = s[i + j]
  OBVIOUS
<1>3. RemoveAt(s, i) = left \o right
  BY DEF RemoveAt
<1> HIDE DEF left, right
<1>4. left \o right \in Seq(S) /\ Len(left \o right) = Len(s) - 1
  <2>1. left \o right \in Seq(S) /\ Len(left \o right) = Len(left) + Len(right)
    BY <1>1, <1>2, Joined
  <2>2. (i - 1) + (Len(s) - i) = Len(s) - 1
    OBVIOUS
  <2> QED BY <1>1, <1>2, <2>1, <2>2
<1>5. ASSUME NEW j \in 1..(Len(s) - 1)
      PROVE  (left \o right)[j] = IF j < i THEN s[j] ELSE s[j + 1]
  <2>1. CASE j < i
    BY <1>1, <1>2, <2>1
  <2>2. CASE j >= i
    <3>1. j - (i - 1) \in 1..(Len(s) - i) /\ i + (j - (i - 1)) = j + 1
      BY <2>2
    <3>2. (left \o right)[j] = right[j - (i - 1)]
      BY <1>1, <1>2, <2>2
    <3>3. right[j - (i - 1)] = s[i + (j - (i - 1))]
      BY <1>2, <3>1
    <3>4. s[i + (j - (i - 1))] = s[j + 1]
      BY <3>1
    <3>5. (left \o right)[j] = s[j + 1]
      BY <3>2, <3>3, <3>4
    <3>6. ~(j < i)
      BY <2>2
    <3> QED BY <3>5, <3>6
  <2>3. j < i \/ j >= i
    OBVIOUS
  <2> QED BY <2>1, <2>2, <2>3
<1> QED BY <1>3, <1>4, <1>5

\* Tasks that are taken and added, and the items among them.
LEMMA TakeTask ==
  ASSUME NEW q \in Seq(TaskRecords), q # <<>>
  PROVE  /\ Head(q) \in TaskRecords /\ Head(q) = q[1] /\ 1 \in DOMAIN q
         /\ Tail(q) \in Seq(TaskRecords)
         /\ \A i \in DOMAIN Tail(q) :
              i \in Nat /\ i # 0 /\ i + 1 \in DOMAIN q /\ Tail(q)[i] = q[i + 1]
         /\ \A i \in DOMAIN q : i = 1 \/ (i - 1 \in DOMAIN Tail(q) /\ i = (i - 1) + 1)
OBVIOUS

LEMMA AddTask ==
  ASSUME NEW q \in Seq(TaskRecords), NEW t \in TaskRecords
  PROVE  /\ Append(q, t) \in Seq(TaskRecords)
         /\ DOMAIN Append(q, t) = DOMAIN q \cup {Len(q) + 1}
         /\ \A i \in DOMAIN q : i \in Nat /\ i < Len(q) + 1 /\ Append(q, t)[i] = q[i]
         /\ Append(q, t)[Len(q) + 1] = t
OBVIOUS

LEMMA TakeIds ==
  ASSUME NEW q \in Seq(TaskRecords), q # <<>>, Apart(q)
  PROVE  /\ Apart(Tail(q))
         /\ IdsOf(Tail(q)) \subseteq IdsOf(q)
         /\ Head(q).kind = "Item" => Head(q).id \in IdsOf(q) /\ Head(q).id \notin IdsOf(Tail(q))
<1>1. \A i \in ItemTasks(Tail(q)) : i \in Nat /\ i # 0 /\ i + 1 \in ItemTasks(q) /\ Tail(q)[i] = q[i + 1]
  BY TakeTask DEF ItemTasks
<1>2. Apart(Tail(q))
  <2> SUFFICES ASSUME NEW i \in ItemTasks(Tail(q)), NEW j \in ItemTasks(Tail(q)),
                      Tail(q)[i].id = Tail(q)[j].id
               PROVE  i = j
    BY DEF Apart
  <2>1. i + 1 = j + 1
    BY <1>1 DEF Apart
  <2> QED BY <1>1, <2>1
<1>3. IdsOf(Tail(q)) \subseteq IdsOf(q)
  BY <1>1 DEF IdsOf
<1>4. ASSUME Head(q).kind = "Item"
      PROVE  Head(q).id \in IdsOf(q) /\ Head(q).id \notin IdsOf(Tail(q))
  <2>1. 1 \in ItemTasks(q) /\ Head(q) = q[1]
    BY <1>4, TakeTask DEF ItemTasks
  <2>2. ASSUME NEW j \in ItemTasks(Tail(q)), Tail(q)[j].id = Head(q).id
        PROVE  FALSE
    <3>1. j + 1 = 1
      BY <1>1, <2>1, <2>2 DEF Apart
    <3> QED BY <1>1, <3>1
  <2> QED BY <2>1, <2>2 DEF IdsOf
<1> QED BY <1>2, <1>3, <1>4

LEMMA ImageOfOneMore ==
  ASSUME NEW q, NEW r, NEW T, NEW n, \A i \in T : r[i] = q[i]
  PROVE  {r[i].id : i \in T \cup {n}} = {q[i].id : i \in T} \cup {r[n].id}
OBVIOUS

LEMMA AddIds ==
  ASSUME NEW q \in Seq(TaskRecords), NEW t \in TaskRecords, Apart(q),
         t.kind = "Item" => t.id \notin IdsOf(q)
  PROVE  /\ Apart(Append(q, t))
         /\ IdsOf(Append(q, t)) = IdsOf(q) \cup (IF t.kind = "Item" THEN {t.id} ELSE {})
<1>1. CASE t.kind = "Item"
  <2>1. /\ ItemTasks(Append(q, t)) = ItemTasks(q) \cup {Len(q) + 1}
        /\ \A i \in ItemTasks(q) : Append(q, t)[i] = q[i]
        /\ Append(q, t)[Len(q) + 1] = t
    BY <1>1, AddTask DEF ItemTasks
  <2>2. IdsOf(Append(q, t)) = IdsOf(q) \cup {t.id}
    <3> DEFINE r == Append(q, t)
               n == Len(q) + 1
    <3>1. \A i \in ItemTasks(q) : r[i] = q[i]
      BY <2>1
    <3> HIDE DEF r, n
    <3>2. {r[i].id : i \in ItemTasks(q) \cup {n}} = {q[i].id : i \in ItemTasks(q)} \cup {r[n].id}
      BY <3>1, ImageOfOneMore
    <3>3. IdsOf(r) = {r[i].id : i \in ItemTasks(q) \cup {n}} /\ r[n].id = t.id
      BY <2>1 DEF r, n, IdsOf
    <3> QED BY <3>2, <3>3 DEF IdsOf, r
  <2>3. \A i \in ItemTasks(q) : q[i].id # t.id
    BY <1>1 DEF IdsOf
  <2>4. Apart(Append(q, t))
    BY <2>1, <2>3 DEF Apart
  <2> QED BY <1>1, <2>2, <2>4
<1>2. CASE t.kind # "Item"
  <2>1. ItemTasks(Append(q, t)) = ItemTasks(q) /\ \A i \in ItemTasks(q) : Append(q, t)[i] = q[i]
    BY <1>2, AddTask DEF ItemTasks
  <2> QED BY <1>2, <2>1 DEF Apart, IdsOf
<1> QED BY <1>1, <1>2

\* Lists of items, when one is added at the end.
LEMMA AddEntry ==
  ASSUME NEW S, NEW s \in Seq(S), NEW x \in S, Once(s), x \notin ToSet(s)
  PROVE  /\ Append(s, x) \in Seq(S) /\ Once(Append(s, x))
         /\ ToSet(Append(s, x)) = ToSet(s) \cup {x}
<1>1. /\ Append(s, x) \in Seq(S) /\ DOMAIN Append(s, x) = DOMAIN s \cup {Len(s) + 1}
      /\ \A i \in DOMAIN s : Append(s, x)[i] = s[i]
      /\ Append(s, x)[Len(s) + 1] = x
  OBVIOUS
<1> QED BY <1>1 DEF Once, ToSet

\* ... when one is taken out ...
LEMMA RemoveEntry ==
  ASSUME NEW S, NEW s \in Seq(S), Once(s), NEW i \in 1..Len(s)
  PROVE  /\ RemoveAt(s, i) \in Seq(S) /\ Once(RemoveAt(s, i))
         /\ ToSet(RemoveAt(s, i)) \subseteq ToSet(s) \ {s[i]}
<1> DEFINE r == RemoveAt(s, i)
<1>1. r \in Seq(S) /\ DOMAIN r = 1..(Len(s) - 1)
  BY RemoveAtLemma
<1>2. \A j \in DOMAIN r : r[j] = IF j < i THEN s[j] ELSE s[j + 1]
  BY <1>1, RemoveAtLemma
<1>3. DOMAIN s = 1..Len(s)
  OBVIOUS
<1> HIDE DEF r
<1>4. Once(r)
  BY <1>1, <1>2, <1>3 DEF Once
<1>5. \A j \in DOMAIN r : r[j] \in ToSet(s) \ {s[i]}
  BY <1>1, <1>2, <1>3 DEF Once, ToSet
<1>6. ToSet(r) \subseteq ToSet(s) \ {s[i]}
  BY <1>5 DEF ToSet
<1> QED BY <1>1, <1>4, <1>6 DEF r

-----------------------------------------------------------------------------
\* The items and what is reported of them.

\* What every change of an item keeps.
SameItems(r) ==
  /\ r \in Seq(RequestRecords) /\ Len(r) = Len(requests)
  /\ \A id \in Ids : /\ r[id].handler = requests[id].handler
                     /\ r[id].item = requests[id].item
                     /\ r[id].epoch = requests[id].epoch

LEMMA OutcomeUpdate ==
  ASSUME NEW r \in RequestRecords, NEW o \in Outcomes
  PROVE  /\ [r EXCEPT !.outcome = o] \in RequestRecords
         /\ [r EXCEPT !.outcome = o].handler = r.handler
         /\ [r EXCEPT !.outcome = o].item = r.item
         /\ [r EXCEPT !.outcome = o].epoch = r.epoch
         /\ [r EXCEPT !.outcome = o].effect = r.effect
         /\ [r EXCEPT !.outcome = o].outcome = o
BY DEF RequestRecords

LEMMA EffectUpdate ==
  ASSUME NEW r \in RequestRecords, NEW n \in Nat
  PROVE  /\ [r EXCEPT !.effect = n] \in RequestRecords
         /\ [r EXCEPT !.effect = n].handler = r.handler
         /\ [r EXCEPT !.effect = n].item = r.item
         /\ [r EXCEPT !.effect = n].epoch = r.epoch
         /\ [r EXCEPT !.effect = n].effect = n
BY DEF RequestRecords

\* A report changes the outcome of items that have none, and nothing else.
LEMMA ReportLemma ==
  ASSUME QueueOK, NEW ids, NEW outcome \in Outcomes
  PROVE  /\ SameItems(Report(ids, outcome))
         /\ \A id \in Ids : Report(ids, outcome)[id].effect = requests[id].effect
         /\ \A id \in Ids :
              Report(ids, outcome)[id].outcome =
                IF id \in ids /\ requests[id].outcome = "Held" THEN outcome
                ELSE requests[id].outcome
<1> DEFINE r == Report(ids, outcome)
<1>1. \A id \in Ids : requests[id] \in RequestRecords
  BY DEF QueueOK, Ids
<1>2. /\ DOMAIN r = 1..Len(requests) /\ Len(requests) \in Nat
      /\ \A id \in Ids : r[id] = IF id \in ids /\ requests[id].outcome = "Held"
                                 THEN [requests[id] EXCEPT !.outcome = outcome] ELSE requests[id]
  BY DEF Report, Ids, QueueOK
<1>3. \A id \in Ids : /\ r[id] \in RequestRecords
                      /\ r[id].handler = requests[id].handler /\ r[id].item = requests[id].item
                      /\ r[id].epoch = requests[id].epoch /\ r[id].effect = requests[id].effect
                      /\ r[id].outcome = IF id \in ids /\ requests[id].outcome = "Held"
                                         THEN outcome ELSE requests[id].outcome
  <2> SUFFICES ASSUME NEW id \in Ids
               PROVE  /\ r[id] \in RequestRecords
                      /\ r[id].handler = requests[id].handler /\ r[id].item = requests[id].item
                      /\ r[id].epoch = requests[id].epoch /\ r[id].effect = requests[id].effect
                      /\ r[id].outcome = IF id \in ids /\ requests[id].outcome = "Held"
                                         THEN outcome ELSE requests[id].outcome
    OBVIOUS
  <2> HIDE DEF r
  <2>1. CASE id \in ids /\ requests[id].outcome = "Held"
    <3>1. r[id] = [requests[id] EXCEPT !.outcome = outcome] /\ requests[id] \in RequestRecords
      BY <1>1, <1>2, <2>1
    <3> QED BY <2>1, <3>1, OutcomeUpdate
  <2>2. CASE ~(id \in ids /\ requests[id].outcome = "Held")
    BY <1>1, <1>2, <2>2
  <2> QED BY <2>1, <2>2
<1>4. r = [id \in 1..Len(requests) |-> r[id]]
  BY DEF Report, Ids
<1>5. r \in Seq(RequestRecords) /\ Len(r) = Len(requests)
  BY <1>2, <1>3, <1>4 DEF Ids
<1> HIDE DEF r
<1>6. SameItems(r)
  BY <1>3, <1>5 DEF SameItems
<1> QED BY <1>3, <1>6 DEF r

\* An item that takes effect.
LEMMA EffectLemma ==
  ASSUME QueueOK, NEW id \in Ids
  PROVE  /\ SameItems(Effect(id))
         /\ Effect(id)[id].effect = requests[id].effect + 1 /\ Effect(id)[id].outcome = "True"
         /\ \A other \in Ids : other # id => Effect(id)[other] = requests[other]
<1>1. requests[id] \in RequestRecords /\ requests[id].effect + 1 \in Nat
  <2>1. requests[id] \in RequestRecords
    BY DEF QueueOK, Ids
  <2> QED BY <2>1 DEF RequestRecords
<1> DEFINE one == [requests[id] EXCEPT !.effect = requests[id].effect + 1]
           both == [one EXCEPT !.outcome = "True"]
<1>2. one \in RequestRecords /\ one.handler = requests[id].handler /\ one.item = requests[id].item
      /\ one.epoch = requests[id].epoch /\ one.effect = requests[id].effect + 1
  BY <1>1, EffectUpdate DEF Outcomes
<1> HIDE DEF one
<1>3. both \in RequestRecords /\ both.handler = requests[id].handler
      /\ both.item = requests[id].item /\ both.epoch = requests[id].epoch
      /\ both.effect = requests[id].effect + 1 /\ both.outcome = "True"
  BY <1>2, OutcomeUpdate DEF Outcomes
<1>4. Effect(id) = [requests EXCEPT ![id] = both]
  BY DEF Effect, one, QueueOK, Ids
<1> HIDE DEF both
<1>5. /\ Effect(id) \in Seq(RequestRecords) /\ Len(Effect(id)) = Len(requests)
      /\ Effect(id)[id] = both /\ \A other \in Ids : other # id => Effect(id)[other] = requests[other]
  BY <1>3, <1>4 DEF QueueOK, Ids
<1> QED BY <1>3, <1>5 DEF SameItems

-----------------------------------------------------------------------------
\* Counting entries.

Places(s, P) == {i \in DOMAIN s : s[i] \in P}

LEMMA PlacesFinite ==
  ASSUME NEW S, NEW s \in Seq(S), NEW P
  PROVE  IsFiniteSet(Places(s, P)) /\ Cardinality(Places(s, P)) \in Nat
<1>1. IsFiniteSet(1..Len(s))
  BY FS_Interval
<1>2. Places(s, P) \in SUBSET (1..Len(s))
  BY DEF Places
<1>3. IsFiniteSet(Places(s, P))
  BY <1>1, <1>2, FS_Subset
<1> QED BY <1>3, FS_CardinalityType

LEMMA SameSize ==
  ASSUME NEW S, NEW T, IsFiniteSet(S), NEW f \in [S -> T],
         \A a, b \in S : f[a] = f[b] => a = b, \A t \in T : \E s \in S : f[s] = t
  PROVE  Cardinality(T) = Cardinality(S)
<1>1. f \in Bijection(S, T)
  BY Fun_IsBij
<1> QED BY <1>1, FS_Bijection DEF ExistsBijection

\* Entries that are appended are counted with those that were there.
LEMMA JoinCount ==
  ASSUME NEW S, NEW s \in Seq(S), NEW t \in Seq(S), NEW P
  PROVE  Cardinality(Places(s \o t, P)) = Cardinality(Places(s, P)) + Cardinality(Places(t, P))
<1> DEFINE moved == {i \in DOMAIN (s \o t) : i > Len(s) /\ (s \o t)[i] \in P}
           f == [i \in Places(t, P) |-> Len(s) + i]
<1>1. /\ Len(s) \in Nat /\ Len(t) \in Nat /\ DOMAIN s = 1..Len(s) /\ DOMAIN t = 1..Len(t)
      /\ DOMAIN (s \o t) = 1..(Len(s) + Len(t))
      /\ \A i \in 1..(Len(s) + Len(t)) : (s \o t)[i] = IF i <= Len(s) THEN s[i] ELSE t[i - Len(s)]
  OBVIOUS
<1>2. Places(s \o t, P) = Places(s, P) \cup moved /\ Places(s, P) \cap moved = {}
  BY <1>1 DEF Places
<1>3. moved \subseteq Places(s \o t, P) /\ IsFiniteSet(Places(s \o t, P))
  BY <1>2, PlacesFinite, Joined
<1>4. IsFiniteSet(moved)
  BY <1>3, FS_Subset
<1>5. Cardinality(moved) = Cardinality(Places(t, P))
  <2>1. f \in [Places(t, P) -> moved]
    <3>1. ASSUME NEW i \in Places(t, P)
          PROVE  Len(s) + i \in moved
      <4>1. i \in 1..Len(t) /\ t[i] \in P
        BY <1>1 DEF Places
      <4>2. /\ Len(s) + i \in 1..(Len(s) + Len(t)) /\ Len(s) + i > Len(s)
            /\ ~(Len(s) + i <= Len(s)) /\ (Len(s) + i) - Len(s) = i
        BY <1>1, <4>1
      <4>3. (s \o t)[Len(s) + i] = t[i]
        BY <1>1, <4>2
      <4> QED BY <1>1, <4>1, <4>2, <4>3
    <3> QED BY <3>1
  <2>2. \A a, b \in Places(t, P) : f[a] = f[b] => a = b
    BY <1>1 DEF Places
  <2>3. ASSUME NEW i \in moved
        PROVE  \E j \in Places(t, P) : f[j] = i
    <3>1. i - Len(s) \in 1..Len(t) /\ (s \o t)[i] = t[i - Len(s)] /\ Len(s) + (i - Len(s)) = i
      BY <1>1
    <3>2. i - Len(s) \in Places(t, P)
      BY <1>1, <3>1 DEF Places
    <3> QED BY <3>1, <3>2
  <2>4. IsFiniteSet(Places(t, P))
    BY PlacesFinite
  <2> HIDE DEF f, moved
  <2> QED BY <2>1, <2>2, <2>3, <2>4, SameSize
<1> HIDE DEF moved
<1>6. IsFiniteSet(Places(s, P)) /\ Cardinality(Places(s, P)) \in Nat
  BY PlacesFinite
<1>7. Cardinality(Places(s \o t, P)) = Cardinality(Places(s, P)) + Cardinality(moved) - 0
  BY <1>2, <1>4, <1>6, FS_Union, FS_EmptySet
<1>8. Cardinality(moved) \in Nat
  BY <1>4, FS_CardinalityType
<1> QED BY <1>5, <1>6, <1>7, <1>8

\* An entry that is taken out is no longer counted.
LEMMA RemoveCount ==
  ASSUME NEW S, NEW s \in Seq(S), NEW n \in 1..Len(s), NEW P
  PROVE  Cardinality(Places(RemoveAt(s, n), P)) =
           IF s[n] \in P THEN Cardinality(Places(s, P)) - 1 ELSE Cardinality(Places(s, P))
<1> DEFINE r == RemoveAt(s, n)
           left == Places(s, P) \ {n}
           f == [i \in Places(r, P) |-> IF i < n THEN i ELSE i + 1]
<1>1. /\ Len(s) \in Nat /\ DOMAIN s = 1..Len(s) /\ n \in Nat
      /\ r \in Seq(S) /\ DOMAIN r = 1..(Len(s) - 1)
      /\ \A i \in 1..(Len(s) - 1) : r[i] = IF i < n THEN s[i] ELSE s[i + 1]
  <2>1. Len(s) \in Nat /\ DOMAIN s = 1..Len(s) /\ n \in Nat
    OBVIOUS
  <2>2. r \in Seq(S) /\ Len(r) = Len(s) - 1
        /\ \A i \in 1..(Len(s) - 1) : r[i] = IF i < n THEN s[i] ELSE s[i + 1]
    BY RemoveAtLemma
  <2> HIDE DEF r
  <2>3. DOMAIN r = 1..Len(r)
    BY <2>2
  <2> QED BY <2>1, <2>2, <2>3
<1> HIDE DEF r
<1>2. Cardinality(left) = Cardinality(Places(r, P))
  <2>1. f \in [Places(r, P) -> left]
    BY <1>1 DEF Places
  <2>2. \A a, b \in Places(r, P) : f[a] = f[b] => a = b
    BY <1>1 DEF Places
  <2>3. ASSUME NEW i \in left
        PROVE  \E j \in Places(r, P) : f[j] = i
    <3>1. i \in 1..Len(s) /\ i # n /\ s[i] \in P
      BY <1>1 DEF Places
    <3>2. CASE i < n
      <4>1. i \in 1..(Len(s) - 1) /\ r[i] = s[i]
        BY <1>1, <3>1, <3>2
      <4>2. i \in Places(r, P)
        BY <1>1, <3>1, <4>1 DEF Places
      <4> QED BY <3>2, <4>2
    <3>3. CASE i > n
      <4>1. i - 1 \in 1..(Len(s) - 1) /\ ~(i - 1 < n) /\ (i - 1) + 1 = i
        BY <1>1, <3>1, <3>3
      <4>2. i - 1 \in Places(r, P)
        BY <1>1, <3>1, <4>1 DEF Places
      <4> QED BY <4>1, <4>2
    <3> QED BY <1>1, <3>1, <3>2, <3>3
  <2>4. IsFiniteSet(Places(r, P))
    BY <1>1, PlacesFinite
  <2> HIDE DEF f, left
  <2> QED BY <2>1, <2>2, <2>3, <2>4, SameSize
<1>3. IsFiniteSet(Places(s, P))
  BY PlacesFinite
<1>4. n \in Places(s, P) <=> s[n] \in P
  BY <1>1 DEF Places
<1> QED BY <1>2, <1>3, <1>4, FS_RemoveElement DEF r

\* Entries that differ are no more than what they can be.
LEMMA CountBound ==
  ASSUME NEW n \in Nat, NEW s \in Seq(1..n), Once(s), NEW P
  PROVE  Cardinality(Places(s, P)) <= n
<1> DEFINE f == [i \in Places(s, P) |-> s[i]]
<1>1. f \in [Places(s, P) -> 1..n] /\ \A a, b \in Places(s, P) : f[a] = f[b] => a = b
  BY DEF Places, Once
<1>2. f \in Injection(Places(s, P), 1..n)
  BY <1>1, Fun_IsInj
<1>3. IsFiniteSet(1..n) /\ Cardinality(1..n) = n
  BY FS_Interval
<1> HIDE DEF f
<1> QED BY <1>2, <1>3, FS_Injection

-----------------------------------------------------------------------------
\* What a flush does.

\* Nothing leaves a list whose entries are of this world, nothing stays of another.
LEMMA KeepsCurrent ==
  ASSUME NEW s \in Seq(Ids), \A id \in ToSet(s) : IsCurrent(id)
  PROVE  OfThisWorld(s) = s /\ Stale(s) = {}
<1> DEFINE current == DOMAIN s \ Stale(s)
           Place(n) == CHOOSE i \in current : Cardinality(current \cap 1..i) = n
<1>1. Stale(s) = {} /\ current = 1..Len(s) /\ Len(s) \in Nat
  BY DEF Stale, ToSet
<1>2. \A i \in 1..Len(s) : Cardinality(current \cap 1..i) = i
  <2> SUFFICES ASSUME NEW i \in 1..Len(s) PROVE Cardinality(current \cap 1..i) = i
    OBVIOUS
  <2>1. current \cap 1..i = 1..i
    BY <1>1
  <2>2. Cardinality(1..i) = i
    BY FS_Interval
  <2> QED BY <2>1, <2>2
<1>3. Cardinality(current) = Len(s)
  BY <1>1, FS_Interval
<1> HIDE DEF current
<1>4. \A n \in 1..Len(s) : Place(n) = n
  BY <1>1, <1>2
<1>5. OfThisWorld(s) = [n \in 1..Cardinality(current) |-> s[Place(n)]]
  BY DEF OfThisWorld, current
<1> HIDE DEF Place
<1>6. OfThisWorld(s) = [n \in 1..Len(s) |-> s[n]]
  BY <1>3, <1>4, <1>5
<1> QED BY <1>1, <1>6

LEMMA DropsStale ==
  ASSUME NEW s \in Seq(Ids), \A id \in ToSet(s) : ~IsCurrent(id)
  PROVE  OfThisWorld(s) = <<>> /\ Stale(s) = DOMAIN s
<1>1. Stale(s) = DOMAIN s
  BY DEF Stale, ToSet
<1>2. Cardinality(DOMAIN s \ Stale(s)) = 0
  BY <1>1, FS_EmptySet
<1> DEFINE Place(n) == CHOOSE i \in DOMAIN s \ Stale(s) :
                         Cardinality((DOMAIN s \ Stale(s)) \cap 1..i) = n
<1>3. OfThisWorld(s) = [n \in 1..Cardinality(DOMAIN s \ Stale(s)) |-> s[Place(n)]]
  BY DEF OfThisWorld
<1> HIDE DEF Place
<1>4. OfThisWorld(s) = [n \in 1..0 |-> s[Place(n)]]
  BY <1>2, <1>3
<1> QED BY <1>1, <1>4

\* The entries of a list that carry out one unlock.
Carrying(hash) == {id \in Ids : requests[id].item = hash}
CountOf(hash, s) == Cardinality({i \in DOMAIN s : requests[s[i]].item = hash})

LEMMA CountedPlaces ==
  ASSUME NEW s \in Seq(Ids), NEW hash
  PROVE  /\ {i \in DOMAIN s : requests[s[i]].item = hash} = Places(s, Carrying(hash))
         /\ CountOf(hash, s) = Cardinality(Places(s, Carrying(hash)))
<1>1. \A i \in DOMAIN s : s[i] \in Ids
  OBVIOUS
<1>2. {i \in DOMAIN s : requests[s[i]].item = hash} = Places(s, Carrying(hash))
  BY <1>1 DEF Places, Carrying
<1> QED BY <1>2 DEF CountOf

\* What a list holds, in two parts.
LEMMA SplitOnce ==
  ASSUME NEW S, NEW s \in Seq(S), NEW m \in 0..Len(s), Once(s)
  PROVE  LET a == SubSeq(s, 1, m)
             b == SubSeq(s, m + 1, Len(s))
         IN  /\ a \in Seq(S) /\ b \in Seq(S) /\ Len(a) = m
             /\ Once(a) /\ Once(b)
             /\ ToSet(a) \subseteq ToSet(s) /\ ToSet(b) \subseteq ToSet(s)
             /\ ToSet(a) \cap ToSet(b) = {}
<1> DEFINE a == SubSeq(s, 1, m)
           b == SubSeq(s, m + 1, Len(s))
<1>1. a \in Seq(S) /\ Len(a) = m /\ DOMAIN a = 1..m /\ \A i \in 1..m : a[i] = s[i]
  OBVIOUS
<1>2. /\ b \in Seq(S) /\ DOMAIN b = 1..(Len(s) - m)
      /\ \A i \in 1..(Len(s) - m) : b[i] = s[m + i]
  OBVIOUS
<1>3. Len(s) \in Nat /\ DOMAIN s = 1..Len(s) /\ m \in Nat
  OBVIOUS
<1> HIDE DEF a, b
<1>4. Once(a) /\ ToSet(a) \subseteq ToSet(s)
  BY <1>1, <1>3 DEF Once, ToSet
<1>5. Once(b)
  <2> SUFFICES ASSUME NEW i \in DOMAIN b, NEW j \in DOMAIN b, b[i] = b[j] PROVE i = j
    BY DEF Once
  <2>1. m + i \in 1..Len(s) /\ m + j \in 1..Len(s) /\ s[m + i] = s[m + j]
    BY <1>2, <1>3
  <2>2. m + i = m + j
    BY <1>3, <2>1 DEF Once
  <2> QED BY <1>2, <1>3, <2>2
<1>6. \A x \in ToSet(b) : x \in ToSet(s) /\ x \notin ToSet(a)
  <2> SUFFICES ASSUME NEW j \in DOMAIN b PROVE b[j] \in ToSet(s) /\ b[j] \notin ToSet(a)
    BY DEF ToSet
  <2>1. m + j \in 1..Len(s) /\ b[j] = s[m + j]
    BY <1>2, <1>3
  <2>2. ASSUME NEW i \in DOMAIN a, a[i] = b[j] PROVE FALSE
    <3>1. i = m + j
      BY <1>1, <1>3, <2>1, <2>2 DEF Once
    <3> QED BY <1>1, <1>2, <1>3, <3>1
  <2> QED BY <1>3, <2>1, <2>2 DEF ToSet
<1> QED BY <1>1, <1>2, <1>4, <1>5, <1>6 DEF a, b

LEMMA JoinOnce ==
  ASSUME NEW S, NEW s \in Seq(S), NEW t \in Seq(S), Once(s), Once(t),
         ToSet(s) \cap ToSet(t) = {}
  PROVE  Once(s \o t) /\ ToSet(s \o t) \subseteq ToSet(s) \cup ToSet(t)
<1> DEFINE r == s \o t
<1>1. /\ Len(s) \in Nat /\ Len(t) \in Nat /\ DOMAIN s = 1..Len(s) /\ DOMAIN t = 1..Len(t)
      /\ DOMAIN r = 1..(Len(s) + Len(t))
      /\ \A i \in 1..(Len(s) + Len(t)) : r[i] = IF i <= Len(s) THEN s[i] ELSE t[i - Len(s)]
  OBVIOUS
<1> HIDE DEF r
<1>2. \A i \in DOMAIN r : \/ i \in DOMAIN s /\ r[i] = s[i]
                          \/ i - Len(s) \in DOMAIN t /\ r[i] = t[i - Len(s)]
  BY <1>1
<1>3. ToSet(r) \subseteq ToSet(s) \cup ToSet(t)
  BY <1>2 DEF ToSet
<1>4. Once(r)
  <2> SUFFICES ASSUME NEW i \in DOMAIN r, NEW j \in DOMAIN r, r[i] = r[j] PROVE i = j
    BY DEF Once
  <2>1. CASE i \in DOMAIN s /\ r[i] = s[i] /\ j \in DOMAIN s /\ r[j] = s[j]
    BY <2>1 DEF Once
  <2>2. CASE /\ i - Len(s) \in DOMAIN t /\ r[i] = t[i - Len(s)]
             /\ j - Len(s) \in DOMAIN t /\ r[j] = t[j - Len(s)]
    <3>1. i - Len(s) = j - Len(s)
      BY <2>2 DEF Once
    <3> QED BY <1>1, <3>1
  <2>3. ASSUME NEW k \in DOMAIN s, NEW l \in DOMAIN t PROVE s[k] # t[l]
    BY DEF ToSet
  <2> QED BY <1>2, <2>1, <2>2, <2>3
<1> QED BY <1>3, <1>4 DEF r

\* A flush of the unlocks under way and of those that wait: what is of this world is
\* kept and counted, what is of another is dropped and reported.
Playable == mode \in {"Ready", "Interactive"}
Flushable(log) ==
  /\ log \in Seq(Ids) /\ Once(log) /\ ToSet(log) \cap ToSet(outstanding) = {}
  /\ \A id \in ToSet(log) : /\ requests[id].item \in Unlocks
                            /\ IF Playable THEN IsCurrent(id) ELSE ~IsCurrent(id)
  /\ Once(outstanding)
Flushed(log) ==
  /\ backlog' \in Seq(Ids) /\ Once(backlog') /\ outstanding' \in Seq(Ids) /\ Once(outstanding')
  /\ ToSet(backlog') \cup ToSet(outstanding') \subseteq ToSet(log) \cup ToSet(outstanding)
  /\ ToSet(backlog') \cap ToSet(outstanding') = {}
  /\ ~Playable => ToSet(backlog') = {} /\ ToSet(outstanding') = {}
  /\ nativeQueue' \in Seq(Unlocks) /\ Len(nativeQueue') <= NativeRoom
  /\ ~Playable => nativeQueue' = nativeQueue
  /\ allowances' \in [Unlocks -> Nat]
  /\ \A hash \in Unlocks : allowances'[hash] = CountOf(hash, outstanding')

LEMMA FlushReports ==
  ASSUME QueueOK, NEW log, FlushBacklog(log)
  PROVE  /\ SameItems(requests')
         /\ \A id \in Ids : requests'[id].effect = requests[id].effect
         /\ \A id \in Ids :
              \/ requests'[id].outcome = requests[id].outcome
              \/ /\ id \in ToSet(log) \cup ToSet(outstanding) /\ ~IsCurrent(id)
                 /\ requests[id].outcome = "Held" /\ requests'[id].outcome = "False"
<1> DEFINE ids == {id \in ToSet(log) \cup ToSet(outstanding) : ~IsCurrent(id)}
<1>1. requests' = Report(ids, "False")
  BY DEF FlushBacklog
<1>2. "False" \in Outcomes
  BY DEF Outcomes
<1>3. \A id \in ids : id \in ToSet(log) \cup ToSet(outstanding) /\ ~IsCurrent(id)
  OBVIOUS
<1> HIDE DEF ids
<1> QED BY <1>1, <1>2, <1>3, ReportLemma

LEMMA FlushesCurrent ==
  ASSUME GameOK, QueueOK, WorldInv, AllowancesArePaidFor, NEW log, Flushable(log),
         FlushBacklog(log), Playable
  PROVE  Flushed(log)
<1> DEFINE room == IF mode = "Interactive" THEN NativeRoom - Len(nativeQueue) ELSE 0
           m == Min({room, Len(log)})
           moved == SubSeq(log, 1, m)
           rest == SubSeq(log, m + 1, Len(log))
           added == [i \in DOMAIN moved |-> requests[moved[i]].item]
<1>1. log \in Seq(Ids) /\ Once(log) /\ outstanding \in Seq(Ids) /\ Once(outstanding)
  BY DEF Flushable, QueueOK
<1>2. OfThisWorld(log) = log /\ OfThisWorld(outstanding) = outstanding /\ Stale(outstanding) = {}
  <2>1. \A id \in ToSet(log) : IsCurrent(id)
    BY DEF Flushable
  <2>2. \A id \in ToSet(outstanding) : IsCurrent(id)
    BY DEF WorldInv, Listed, Playable
  <2> QED BY <1>1, <2>1, <2>2, KeepsCurrent
<1>3. room \in Nat /\ room <= NativeRoom /\ Len(nativeQueue) + room <= NativeRoom
  BY ItemHandlersAssumption DEF QueueOK
<1>4. m \in 0..Len(log) /\ m <= room
  <2>1. {room, Len(log)} \subseteq Nat
    BY <1>1, <1>3
  <2> HIDE DEF room
  <2> QED BY <2>1, MinIsLeast
<1> HIDE DEF room, m
<1>5. /\ moved \in Seq(Ids) /\ rest \in Seq(Ids) /\ Len(moved) = m
      /\ Once(moved) /\ Once(rest)
      /\ ToSet(moved) \subseteq ToSet(log) /\ ToSet(rest) \subseteq ToSet(log)
      /\ ToSet(moved) \cap ToSet(rest) = {}
  BY <1>1, <1>4, SplitOnce
<1>6. /\ backlog' = rest /\ outstanding' = outstanding \o moved
      /\ nativeQueue' = nativeQueue \o added
      /\ allowances' = [hash \in Unlocks |-> FreeAllowances[hash] + CountOf(hash, moved)]
  <2>1. rest = SubSeq(log, Len(moved) + 1, Len(log))
    BY <1>5
  <2> QED BY <1>2, <2>1 DEF FlushBacklog, CountOf, room, m
<1> HIDE DEF rest
<1>7. ToSet(log) \cap ToSet(outstanding) = {} /\ \A id \in ToSet(log) : requests[id].item \in Unlocks
  BY DEF Flushable
<1>8. /\ Once(outstanding') /\ ToSet(outstanding') \subseteq ToSet(outstanding) \cup ToSet(moved)
      /\ outstanding' \in Seq(Ids)
  <2> HIDE DEF moved
  <2>1. ToSet(outstanding) \cap ToSet(moved) = {}
    BY <1>5, <1>7
  <2>2. Once(outstanding \o moved)
        /\ ToSet(outstanding \o moved) \subseteq ToSet(outstanding) \cup ToSet(moved)
    BY <1>1, <1>5, <2>1, JoinOnce
  <2>3. outstanding \o moved \in Seq(Ids)
    BY <1>1, <1>5, Joined
  <2> QED BY <1>6, <2>2, <2>3
<1>9. nativeQueue' \in Seq(Unlocks) /\ Len(nativeQueue') <= NativeRoom
  <2>1. \A i \in DOMAIN moved : moved[i] \in ToSet(log)
    BY <1>5 DEF ToSet
  <2>2. DOMAIN moved = 1..m /\ m \in Nat
    BY <1>4, <1>5
  <2> HIDE DEF moved
  <2>3. added \in Seq(Unlocks) /\ Len(added) = m
    BY <1>7, <2>1, <2>2
  <2> HIDE DEF added
  <2>4. nativeQueue \in Seq(Unlocks)
    BY DEF QueueOK
  <2>5. nativeQueue \o added \in Seq(Unlocks)
        /\ Len(nativeQueue \o added) = Len(nativeQueue) + Len(added)
    BY <2>3, <2>4, Joined
  <2>6. Len(nativeQueue) + m <= NativeRoom
    <3>1. Len(nativeQueue) \in Nat /\ NativeRoom \in Nat
      BY <2>4, ItemHandlersAssumption
    <3> QED BY <1>3, <1>4, <2>2, <3>1
  <2> QED BY <1>6, <2>3, <2>5, <2>6
<1>10. \A hash \in Unlocks : /\ allowances'[hash] = CountOf(hash, outstanding')
                             /\ allowances'[hash] \in Nat
  <2> SUFFICES ASSUME NEW hash \in Unlocks
               PROVE  allowances'[hash] = CountOf(hash, outstanding') /\ allowances'[hash] \in Nat
    OBVIOUS
  <2>1. allowances[hash] = CountOf(hash, outstanding)
    BY DEF AllowancesArePaidFor, For, CountOf
  <2>2. Cardinality({i \in Stale(outstanding) : requests[outstanding[i]].item = hash}) = 0
    BY <1>2, FS_EmptySet
  <2>3. CountOf(hash, outstanding) \in Nat /\ CountOf(hash, moved) \in Nat
    <3> HIDE DEF moved
    <3>1. /\ CountOf(hash, outstanding) = Cardinality(Places(outstanding, Carrying(hash)))
          /\ CountOf(hash, moved) = Cardinality(Places(moved, Carrying(hash)))
      BY <1>1, <1>5, CountedPlaces
    <3>2. /\ Cardinality(Places(outstanding, Carrying(hash))) \in Nat
          /\ Cardinality(Places(moved, Carrying(hash))) \in Nat
      BY <1>1, <1>5, PlacesFinite
    <3> QED BY <3>1, <3>2
  <2>4. FreeAllowances[hash] = CountOf(hash, outstanding)
    BY <2>1, <2>2, <2>3 DEF FreeAllowances
  <2> HIDE DEF moved
  <2>5. CountOf(hash, outstanding \o moved) = CountOf(hash, outstanding) + CountOf(hash, moved)
    <3> DEFINE both == outstanding \o moved
    <3>1. both \in Seq(Ids)
      BY <1>1, <1>5, Joined
    <3>2. Cardinality(Places(both, Carrying(hash)))
            = Cardinality(Places(outstanding, Carrying(hash)))
              + Cardinality(Places(moved, Carrying(hash)))
      BY <1>1, <1>5, JoinCount
    <3>3. /\ CountOf(hash, outstanding) = Cardinality(Places(outstanding, Carrying(hash)))
          /\ CountOf(hash, moved) = Cardinality(Places(moved, Carrying(hash)))
      BY <1>1, <1>5, CountedPlaces
    <3> HIDE DEF both
    <3>4. CountOf(hash, both) = Cardinality(Places(both, Carrying(hash)))
      BY <3>1, CountedPlaces
    <3> QED BY <3>2, <3>3, <3>4 DEF both
  <2> QED BY <1>6, <2>3, <2>4, <2>5
<1>11. allowances' \in [Unlocks -> Nat]
  BY <1>6, <1>10
<1> HIDE DEF moved
<1> QED BY <1>5, <1>6, <1>7, <1>8, <1>9, <1>10, <1>11 DEF Flushed

LEMMA FlushesStale ==
  ASSUME GameOK, QueueOK, WorldInv, AllowancesArePaidFor, NEW log, Flushable(log),
         FlushBacklog(log), ~Playable
  PROVE  Flushed(log)
<1>1. log \in Seq(Ids) /\ outstanding \in Seq(Ids) /\ mode # "Interactive"
  BY DEF Flushable, QueueOK, Playable
<1>2. OfThisWorld(log) = <<>> /\ OfThisWorld(outstanding) = <<>>
      /\ Stale(outstanding) = DOMAIN outstanding
  <2>1. \A id \in ToSet(log) : ~IsCurrent(id)
    BY DEF Flushable
  <2>2. \A id \in ToSet(outstanding) : ~IsCurrent(id)
    BY DEF WorldInv, Listed, Playable
  <2> QED BY <1>1, <2>1, <2>2, DropsStale
<1>3. Min({0, 0}) = 0
  BY MinIsLeast
<1> DEFINE room == IF mode = "Interactive" THEN NativeRoom - Len(nativeQueue) ELSE 0
           moved == SubSeq(OfThisWorld(log), 1, Min({room, Len(OfThisWorld(log))}))
           none == [i \in DOMAIN moved |-> requests[moved[i]].item]
<1>4. moved = <<>> /\ none = <<>> /\ DOMAIN moved = {}
  <2>1. room = 0 /\ Len(OfThisWorld(log)) = 0
    BY <1>1, <1>2
  <2>2. moved = SubSeq(<<>>, 1, 0)
    BY <1>2, <1>3, <2>1
  <2>3. SubSeq(<<>>, 1, 0) = <<>>
    OBVIOUS
  <2>4. moved = <<>>
    BY <2>2, <2>3
  <2> HIDE DEF moved
  <2> QED BY <2>4
<1>5. /\ backlog' = <<>> /\ outstanding' = <<>> /\ nativeQueue' = nativeQueue \o <<>>
      /\ allowances' = [hash \in Unlocks |-> FreeAllowances[hash] + CountOf(hash, <<>>)]
  <2>1. /\ backlog' = SubSeq(OfThisWorld(log), Len(moved) + 1, Len(OfThisWorld(log)))
        /\ outstanding' = OfThisWorld(outstanding) \o moved
        /\ nativeQueue' = nativeQueue \o none
        /\ allowances' = [hash \in Unlocks |-> FreeAllowances[hash] + CountOf(hash, moved)]
    BY DEF FlushBacklog, CountOf
  <2> HIDE DEF moved, none
  <2>2. SubSeq(<<>>, 1, 0) = <<>> /\ (<<>> \o <<>>) = <<>> /\ Len(<<>>) = 0
    OBVIOUS
  <2> QED BY <1>2, <1>4, <2>1, <2>2
<1> HIDE DEF moved, none
<1>6. nativeQueue' = nativeQueue /\ nativeQueue \in Seq(Unlocks) /\ Len(nativeQueue) <= NativeRoom
  BY <1>5 DEF QueueOK
<1>7. \A hash \in Unlocks : allowances'[hash] = 0 /\ CountOf(hash, <<>>) = 0
  <2> SUFFICES ASSUME NEW hash \in Unlocks PROVE allowances'[hash] = 0 /\ CountOf(hash, <<>>) = 0
    OBVIOUS
  <2>1. CountOf(hash, <<>>) = 0
    BY FS_EmptySet DEF CountOf
  <2>2. FreeAllowances[hash] = CountOf(hash, outstanding) - CountOf(hash, outstanding)
    BY <1>2 DEF FreeAllowances, AllowancesArePaidFor, For, CountOf
  <2>3. CountOf(hash, outstanding) \in Nat
    BY <1>1, CountedPlaces, PlacesFinite
  <2> QED BY <1>5, <2>1, <2>2, <2>3
<1>8. allowances' \in [Unlocks -> Nat]
  BY <1>5, <1>7
<1> QED BY <1>5, <1>6, <1>7, <1>8 DEF Flushed, Once, ToSet


-----------------------------------------------------------------------------
\* What a step makes of the items.

Reports ==
  /\ SameItems(requests')
  /\ \A id \in Ids : /\ requests'[id].effect = requests[id].effect
                     /\ \/ requests'[id].outcome = requests[id].outcome
                        \/ /\ requests[id].outcome = "Held"
                           /\ requests'[id].outcome \in {"False", "Dropped"}
Completes(id) ==
  /\ Held(id) /\ SameItems(requests')
  /\ requests'[id].effect = requests[id].effect + 1 /\ requests'[id].outcome = "True"
  /\ \A other \in Ids : other # id => requests'[other] = requests[other]
Adds ==
  /\ requests' \in Seq(RequestRecords) /\ Len(requests') = Len(requests) + 1
  /\ Len(requests) < MaxRequests
  /\ \A id \in Ids : requests'[id] = requests[id]
  /\ LET new == requests'[Len(requests) + 1] IN
       /\ new.handler \in configured /\ new.item \in ItemsOf(new.handler)
       /\ new.epoch = observed /\ observed > 0 /\ resetEpoch = observed
       /\ new.outcome \in {"Held", "False"} /\ new.effect = 0
  /\ handlers = "Yes" /\ UNCHANGED <<observed, resetEpoch, handlers>>
ItemsMove == Reports \/ (\E id \in Ids : Completes(id)) \/ Adds

LEMMA IdsFacts ==
  ASSUME QueueOK
  PROVE  Len(requests) \in Nat /\ Ids = 1..Len(requests) /\ \A id \in Ids : requests[id] \in RequestRecords
BY DEF QueueOK, Ids

\* The item a frame is about to run is in nobody else's hands.
LEMMA ItemAtHand ==
  ASSUME QueueOK, Custody, Runs("Item")
  PROVE  /\ Held(Id) /\ Id \in Ids /\ requests[Id] \in RequestRecords
         /\ Id \in IdsOf(batch) /\ Id \notin IdsOf(pendingTasks) /\ Id \notin Listed
<1>1. Id \in IdsOf(batch)
  BY TakeIds DEF QueueOK, Custody, Runs, Draining, Id
<1> QED BY <1>1, IdsFacts DEF Custody, Held

LEMMA SameOutcome ==
  ASSUME NEW r \in Seq(RequestRecords), NEW id \in 1..Len(r), r[id].outcome = "True"
  PROVE  [r EXCEPT ![id].outcome = "True"] = r
<1>1. r[id] \in RequestRecords
  OBVIOUS
<1>2. ASSUME NEW x \in RequestRecords, x.outcome = "True" PROVE [x EXCEPT !.outcome = "True"] = x
  BY <1>2 DEF RequestRecords
<1>3. [r[id] EXCEPT !.outcome = "True"] = r[id]
  BY <1>1, <1>2
<1> QED BY <1>3

LEMMA ReportReports ==
  ASSUME QueueOK, NEW ids, NEW outcome \in {"False", "Dropped"}, requests' = Report(ids, outcome)
  PROVE  Reports
<1>1. outcome \in Outcomes
  BY DEF Outcomes
<1> QED BY <1>1, ReportLemma DEF Reports

LEMMA EffectCompletes ==
  ASSUME QueueOK, NEW id, Held(id), requests' = Effect(id)
  PROVE  Completes(id)
<1>1. id \in Ids
  BY DEF Held
<1> QED BY <1>1, EffectLemma DEF Completes

LEMMA SameReports ==
  ASSUME QueueOK, requests' = requests
  PROVE  Reports
BY DEF Reports, SameItems, QueueOK

LEMMA WeaponIsGiven ==
  ASSUME QueueOK, NEW id \in Ids, NEW ammoGiven
  PROVE  [Effect(id) EXCEPT ![id].outcome = WeaponGiven(ammoGiven)] = Effect(id)
<1>1. Effect(id) \in Seq(RequestRecords) /\ id \in 1..Len(Effect(id)) /\ Effect(id)[id].outcome = "True"
  BY EffectLemma DEF SameItems, Ids
<1> QED BY <1>1, SameOutcome DEF WeaponGiven

NewRequest(handler, item, outcome) == [Request(handler, item) EXCEPT !.outcome = outcome]

LEMMA RequestIsNew ==
  ASSUME GameOK, QueueOK, NEW handler \in Handlers, NEW item \in ItemsOf(handler),
         NEW outcome \in {"Held", "False"}
  PROVE  LET new == NewRequest(handler, item, outcome) IN
           /\ new \in RequestRecords /\ new.handler = handler /\ new.item = item
           /\ new.epoch = observed /\ new.outcome = outcome /\ new.effect = 0
<1>1. item \in AllItems /\ outcome \in Outcomes /\ observed \in 0..MaxWorld
  BY ItemHandlersAssumption DEF AllItems, Outcomes, GameOK
<1>2. NewRequest(handler, item, outcome)
        = [handler |-> handler, item |-> item, epoch |-> observed, outcome |-> outcome, effect |-> 0]
  BY DEF Request, NewRequest
<1> QED BY <1>1, <1>2 DEF RequestRecords

LEMMA HandleAdds ==
  ASSUME GameOK, QueueOK, NEW handler \in configured, NEW item \in ItemsOf(handler),
         Handle(handler, item)
  PROVE  /\ Adds /\ requests'[Len(requests) + 1].handler = handler
         /\ \/ /\ pendingTasks' = Append(pendingTasks, ItemTask(Len(requests) + 1))
               /\ requests'[Len(requests) + 1].outcome = "Held"
            \/ pendingTasks' = pendingTasks
<1>1. handler \in Handlers
  BY ItemHandlersAssumption DEF GameOK
<1>2. ASSUME NEW new \in RequestRecords, requests' = Append(requests, new),
             new.handler = handler, new.item = item, new.epoch = observed,
             new.outcome \in {"Held", "False"}, new.effect = 0
      PROVE  Adds /\ requests'[Len(requests) + 1] = new
  <2>1. /\ requests' \in Seq(RequestRecords) /\ Len(requests') = Len(requests) + 1
        /\ requests'[Len(requests) + 1] = new /\ \A id \in Ids : requests'[id] = requests[id]
    BY <1>2 DEF QueueOK, Ids
  <2>2. /\ Len(requests) < MaxRequests /\ observed > 0 /\ resetEpoch = observed
        /\ handlers = "Yes" /\ UNCHANGED <<observed, resetEpoch, handlers>>
    BY DEF Handle
  <2> QED BY <1>2, <2>1, <2>2 DEF Adds
<1>3. Request(handler, item) = [Request(handler, item) EXCEPT !.outcome = "Held"]
  BY DEF Request
<1>4. CASE /\ requests' = Append(requests, Request(handler, item))
           /\ Dispatch(ItemTask(Len(requests) + 1))
  <2> DEFINE new == NewRequest(handler, item, "Held")
  <2>1. /\ new \in RequestRecords /\ new.handler = handler /\ new.item = item
        /\ new.epoch = observed /\ new.outcome = "Held" /\ new.effect = 0
    BY <1>1, RequestIsNew
  <2>2. requests' = Append(requests, new)
    BY <1>3, <1>4 DEF NewRequest
  <2> HIDE DEF new
  <2> QED BY <1>2, <1>4, <2>1, <2>2 DEF Dispatch
<1>5. CASE /\ requests' = Append(requests, [Request(handler, item) EXCEPT !.outcome = "False"])
           /\ UNCHANGED pendingTasks
  <2> DEFINE new == NewRequest(handler, item, "False")
  <2>1. /\ new \in RequestRecords /\ new.handler = handler /\ new.item = item
        /\ new.epoch = observed /\ new.outcome = "False" /\ new.effect = 0
    BY <1>1, RequestIsNew
  <2>2. requests' = Append(requests, new)
    BY <1>5 DEF NewRequest
  <2> HIDE DEF new
  <2> QED BY <1>2, <1>5, <2>1, <2>2
<1> QED BY <1>4, <1>5 DEF Handle

\* The first of the unlocks under way that carry out what the game processes.
LEMMA FirstOutstanding ==
  ASSUME QueueOK, NEW hash, For(hash) # {}
  PROVE  Min(For(hash)) \in For(hash) /\ Min(For(hash)) \in 1..Len(outstanding)
<1>1. For(hash) \subseteq Nat /\ For(hash) \subseteq 1..Len(outstanding)
  BY DEF For, QueueOK
<1> QED BY <1>1, MinIsLeast

\* A paid unlock finds the item that pays for it, in the world it is for.
LEMMA PaidIsFor ==
  ASSUME QueueOK, WorldInv, AllowancesArePaidFor, nativeQueue # <<>>, NEW hash \in Unlocks,
         allowances[hash] > 0
  PROVE  /\ For(hash) # {}
         /\ \A i \in DOMAIN outstanding : outstanding[i] \in Ids /\ IsCurrent(outstanding[i])
<1>1. For(hash) # {}
  <2>1. Cardinality(For(hash)) # 0
    BY DEF AllowancesArePaidFor, QueueOK
  <2> QED BY <2>1, FS_EmptySet
<1>2. \A i \in DOMAIN outstanding : outstanding[i] \in Ids /\ outstanding[i] \in Listed
  BY DEF QueueOK, Listed, ToSet
<1> QED BY <1>1, <1>2 DEF WorldInv

Hash == Head(nativeQueue)

\* What the game's processing of an unlock does to the items.
LEMMA ProcessedUnlock ==
  ASSUME GameOK, QueueOK, Custody, WorldInv, AllowancesArePaidFor, GameProcessesUnlock
  PROVE  \/ UNCHANGED <<requests, outstanding, allowances, stray>>
         \/ /\ Hash \in Unlocks /\ allowances[Hash] > 0 /\ For(Hash) # {}
            /\ allowances' = [allowances EXCEPT ![Hash] = allowances[Hash] - 1]
            /\ Min(For(Hash)) \in For(Hash) /\ Min(For(Hash)) \in 1..Len(outstanding)
            /\ outstanding[Min(For(Hash))] \in ToSet(outstanding)
            /\ Completes(outstanding[Min(For(Hash))])
            /\ outstanding' = RemoveAt(outstanding, Min(For(Hash)))
            /\ ~stray'
<1>1. nativeQueue # <<>> /\ Hash \in Unlocks
  BY DEF GameProcessesUnlock, QueueOK, Hash
<1>2. CASE ~Paid(Hash)
  BY <1>2 DEF GameProcessesUnlock, Hash
<1>3. CASE Paid(Hash)
  <2> DEFINE first == Min(For(Hash))
  <2>1. allowances[Hash] > 0 /\ allowances[Hash] \in Nat
    BY <1>1, <1>3 DEF Paid, QueueOK
  <2>2. For(Hash) # {} /\ \A i \in DOMAIN outstanding : outstanding[i] \in Ids /\ IsCurrent(outstanding[i])
    BY <1>1, <2>1, PaidIsFor
  <2>3. first \in For(Hash) /\ first \in 1..Len(outstanding)
    BY <2>2, FirstOutstanding
  <2>4. CompleteOutstanding(Hash) /\ allowances' = ConsumeAllowance(Hash)
    BY <1>3 DEF GameProcessesUnlock, Hash
  <2>5. /\ requests' = Effect(outstanding[first]) /\ outstanding' = RemoveAt(outstanding, first)
        /\ stray' = (stray \/ For(Hash) = {} \/ ~IsCurrent(outstanding[first]))
    BY <2>2, <2>4 DEF CompleteOutstanding
  <2> HIDE DEF first
  <2>6. first \in DOMAIN outstanding /\ outstanding[first] \in ToSet(outstanding)
    BY <2>3 DEF ToSet, QueueOK
  <2>7. ~stray'
    <3>1. IsCurrent(outstanding[first]) /\ ~(For(Hash) = {})
      BY <2>2, <2>6
    <3>2. stray' = (stray \/ FALSE \/ FALSE)
      BY <2>5, <3>1
    <3>3. ~stray
      BY DEF AllowancesArePaidFor
    <3> QED BY <3>2, <3>3
  <2>8. Held(outstanding[first])
    BY <2>6 DEF Custody, Listed
  <2>9. Completes(outstanding[first])
    BY <2>5, <2>8, EffectCompletes
  <2>10. allowances' = [allowances EXCEPT ![Hash] = allowances[Hash] - 1]
    <3>1. (IF allowances[Hash] = 0 THEN 0 ELSE allowances[Hash] - 1) = allowances[Hash] - 1
      BY <2>1
    <3>2. ConsumeAllowance(Hash)
            = [allowances EXCEPT ![Hash] = IF allowances[Hash] = 0 THEN 0 ELSE allowances[Hash] - 1]
      BY Zenon DEF ConsumeAllowance
    <3> QED BY <2>4, <3>1, <3>2
  <2> QED BY <1>1, <2>1, <2>2, <2>3, <2>5, <2>6, <2>7, <2>9, <2>10 DEF first
<1> QED BY <1>2, <1>3

\* The item a frame runs takes effect, or is reported as not carried out.
LEMMA RunItem ==
  ASSUME QueueOK, Custody,
         RunStaleItem \/ RunSimpleItem \/ RunWeaponItem \/ RunRespectItem \/ RunLuaItem
         \/ RunWeatherItem
  PROVE  /\ Runs("Item") /\ SameItems(requests')
         /\ \A other \in Ids : other # Id => requests'[other] = requests[other]
         /\ \/ Reports
            \/ Completes(Id) /\ CanApply(Id) /\ ~RunStaleItem
<1>1. Runs("Item")
  BY DEF RunStaleItem, RunSimpleItem, RunWeaponItem, RunRespectItem, RunLuaItem, RunWeatherItem,
         RunsItem
<1>2. Held(Id) /\ Id \in Ids
  BY <1>1, ItemAtHand
<1>3. \/ requests' = Report({Id}, "False")
      \/ requests' = Effect(Id) /\ CanApply(Id) /\ ~RunStaleItem
  <2>1. CASE RunStaleItem BY <2>1 DEF RunStaleItem
  <2>2. CASE RunSimpleItem BY <2>2 DEF RunSimpleItem, RunsItem, RunStaleItem
  <2>3. CASE RunRespectItem BY <2>3 DEF RunRespectItem, RunsItem, RunStaleItem
  <2>4. CASE RunLuaItem BY <2>4 DEF RunLuaItem, RunsItem, RunStaleItem
  <2>5. CASE RunWeatherItem BY <2>5 DEF RunWeatherItem, RunsItem, RunStaleItem
  <2>6. CASE RunWeaponItem
    BY <1>2, <2>6, WeaponIsGiven DEF RunWeaponItem, RunsItem, RunStaleItem
  <2> QED BY <2>1, <2>2, <2>3, <2>4, <2>5, <2>6
<1>4. CASE requests' = Report({Id}, "False")
  <2>1. Reports
    BY <1>4, ReportReports
  <2>2. \A other \in Ids : other # Id => requests'[other] = requests[other]
    BY <1>4 DEF Report
  <2> QED BY <1>1, <2>1, <2>2 DEF Reports
<1>5. CASE requests' = Effect(Id) /\ CanApply(Id) /\ ~RunStaleItem
  BY <1>1, <1>2, <1>5, EffectCompletes DEF Completes
<1> QED BY <1>3, <1>4, <1>5

\* The steps that leave all items as they are.
Leaves ==
  \/ LoadSave \/ LoadWritesRespect \/ FinishLoading \/ ChangeControl \/ BeginLevel
  \/ RestartLevel \/ GameAwardsRespect \/ WeatherTick
  \/ (\E hash \in Unlocks : GameGivesReward(hash))
  \/ StartFrame \/ RunRelease \/ RunReset \/ RunReapply
  \/ Install \/ ObserveLoads \/ ResetState \/ UpdateUnlockable \/ UpdateLua
  \/ UNCHANGED vars
RunsItems ==
  RunStaleItem \/ RunSimpleItem \/ RunWeaponItem \/ RunRespectItem \/ RunLuaItem \/ RunWeatherItem
Handles == \E handler \in configured : \E item \in ItemsOf(handler) : Handle(handler, item)

LEMMA Steps ==
  [Next]_vars <=> \/ Leaves \/ RunsItems \/ GameProcessesUnlock \/ RunUnlockableItem \/ RunFlush
                  \/ Handles \/ CancelPending \/ FinishRemove
BY DEF Next, Game, RunTask, Plugin, Leaves, RunsItems, Handles

LEMMA ItemsStep ==
  ASSUME GameOK, QueueOK, Custody, WorldInv, AllowancesArePaidFor, [Next]_vars
  PROVE  ItemsMove
<1>1. CASE Leaves
  <2>1. requests' = requests
    BY <1>1 DEF Leaves, LoadSave, LoadWritesRespect, FinishLoading, ChangeControl, BeginLevel,
         RestartLevel, GameAwardsRespect, WeatherTick, GameGivesReward, StartFrame, RunRelease,
         RunReset, RunReapply, Install, ObserveLoads, ResetState, UpdateUnlockable, UpdateLua, vars
  <2> QED BY <2>1, SameReports DEF ItemsMove
<1>2. CASE RunsItems
  BY <1>2, RunItem, ItemAtHand DEF RunsItems, ItemsMove
<1>3. CASE GameProcessesUnlock
  <2>1. CASE requests' = requests
    BY <2>1, SameReports DEF ItemsMove
  <2>2. CASE Completes(outstanding[Min(For(Hash))])
    BY <2>2 DEF Completes, Held, ItemsMove
  <2> QED BY <1>3, <2>1, <2>2, ProcessedUnlock
<1>4. CASE RunUnlockableItem
  BY <1>4, FlushReports DEF RunUnlockableItem, ItemsMove, Reports
<1>5. CASE RunFlush
  BY <1>5, FlushReports DEF RunFlush, ItemsMove, Reports
<1>6. CASE Handles
  BY <1>6, HandleAdds DEF Handles, ItemsMove
<1>7. CASE CancelPending
  BY <1>7, ReportReports DEF CancelPending, ItemsMove
<1>8. CASE FinishRemove
  BY <1>8, ReportReports DEF FinishRemove, ItemsMove
<1> QED BY <1>1, <1>2, <1>3, <1>4, <1>5, <1>6, <1>7, <1>8, Steps

\* What every step keeps of an item.
LEMMA ItemsKept ==
  ASSUME QueueOK, ItemsMove
  PROVE  /\ requests' \in Seq(RequestRecords) /\ Len(requests') <= MaxRequests
         /\ Ids \subseteq Ids'
         /\ \A id \in Ids : /\ requests'[id].handler = requests[id].handler
                            /\ requests'[id].item = requests[id].item
                            /\ requests'[id].epoch = requests[id].epoch
         /\ \A id \in Ids' : id \notin Ids => Adds /\ id = Len(requests) + 1
<1>1. Len(requests) \in Nat /\ Len(requests) <= MaxRequests /\ MaxRequests \in Nat
      /\ Ids = 1..Len(requests) /\ Ids' = 1..Len(requests')
  BY ItemHandlersAssumption DEF QueueOK, Ids
<1>2. CASE SameItems(requests')
  BY <1>1, <1>2 DEF SameItems
<1>3. CASE Adds
  BY <1>1, <1>3 DEF Adds
<1> QED BY <1>2, <1>3 DEF ItemsMove, Reports, Completes

LEMMA TruthfulStep ==
  ASSUME QueueOK, TruthfulCompletions, ItemsMove
  PROVE  TruthfulCompletions'
<1> SUFFICES ASSUME NEW id \in Ids'
             PROVE  requests'[id].effect = IF requests'[id].outcome = "True" THEN 1 ELSE 0
  BY DEF TruthfulCompletions
<1>0. \A other \in Ids : requests[other].effect = IF requests[other].outcome = "True" THEN 1 ELSE 0
  BY DEF TruthfulCompletions
<1>1. CASE id \notin Ids
  BY <1>1, ItemsKept DEF Adds
<1>2. CASE id \in Ids /\ Reports
  BY <1>0, <1>2 DEF Reports
<1>3. CASE id \in Ids /\ \E one \in Ids : Completes(one)
  BY <1>0, <1>3 DEF Completes, Held
<1>4. CASE id \in Ids /\ Adds
  BY <1>0, <1>4 DEF Adds
<1> QED BY <1>1, <1>2, <1>3, <1>4 DEF ItemsMove

-----------------------------------------------------------------------------
\* The types of the game and of the flags.

LEMMA RespectAtItsLimit ==
  ASSUME NEW value \in 0..MaxBars
  PROVE  BarGranted(value) \in 0..MaxBars
<1>1. value + 1 \in Nat /\ MaxBars \in Nat /\ value + 1 > 0 /\ MaxBars > 0
  BY ItemHandlersAssumption
<1>2. {value + 1, MaxBars} \subseteq Nat
  BY <1>1
<1>3. Min({value + 1, MaxBars}) \in {value + 1, MaxBars} /\ Min({value + 1, MaxBars}) <= MaxBars
  BY <1>2, MinIsLeast
<1> QED BY <1>1, <1>3 DEF BarGranted

\* What the items of the handlers are.
LEMMA ItemsOfHandlers ==
  ASSUME QueueOK, RequestInv, NEW id \in Ids
  PROVE  /\ requests[id].handler = "Lua" => requests[id].item \in LuaItems
         /\ requests[id].handler = "Weather" => requests[id].item \in DOMAIN WeatherStage
         /\ requests[id].handler = "Unlockable" => requests[id].item \in Unlocks
BY DEF RequestInv, ItemsOf

LEMMA GameStep ==
  ASSUME GameOK, QueueOK, RequestInv, Custody, [Next]_vars
  PROVE  GameOK'
<1> USE ItemHandlersAssumption
<1>1. CASE LoadSave
  <2>1. checkpoint' \in [bars : 0..MaxBars, unlocked : SUBSET LuaItems]
    BY <1>1 DEF LoadSave
  <2>2. live' = live + 1 /\ live' \in 0..MaxWorld /\ NoStage \in Stages
    BY <1>1 DEF LoadSave, GameOK, Stages
  <2> QED BY <1>1, <2>1, <2>2 DEF LoadSave, GameOK
<1>2. CASE LoadWritesRespect
  <2>1. checkpoint.bars \in 0..MaxBars
    BY DEF GameOK
  <2> QED BY <1>2, <2>1 DEF LoadWritesRespect, GameOK, Restored
<1>3. CASE FinishLoading \/ ChangeControl
  BY <1>3 DEF FinishLoading, ChangeControl, GameOK
<1>4. CASE BeginLevel
  BY <1>4 DEF BeginLevel, GameOK
<1>5. CASE RestartLevel
  <2>1. checkpoint.bars \in 0..MaxBars /\ checkpoint.unlocked \subseteq LuaItems
    BY DEF GameOK
  <2> QED BY <1>5, <2>1 DEF RestartLevel, GameOK, Restored
<1>6. CASE GameAwardsRespect
  BY <1>6 DEF GameAwardsRespect, GameOK
<1>7. CASE WeatherTick
  BY <1>7 DEF WeatherTick, GameOK
<1>8. CASE \E hash \in Unlocks : GameGivesReward(hash)
  BY <1>8 DEF GameGivesReward, GameOK
<1>9. CASE GameProcessesUnlock \/ StartFrame
  BY <1>9 DEF GameProcessesUnlock, StartFrame, GameOK
<1>10. CASE RunStaleItem \/ RunSimpleItem \/ RunWeaponItem
  BY <1>10 DEF RunStaleItem, RunSimpleItem, RunWeaponItem, GameOK
<1>11. CASE RunRespectItem
  BY <1>11, RespectAtItsLimit DEF RunRespectItem, GameOK
<1>12. CASE RunLuaItem
  <2>1. requests[Id].item \in LuaItems \/ (unlocked' = unlocked /\ appliedItems' = appliedItems)
    BY <1>12, ItemAtHand, ItemsOfHandlers DEF RunLuaItem, RunsItem
  <2> QED BY <1>12, <2>1 DEF RunLuaItem, GameOK
<1>13. CASE RunWeatherItem
  <2>1. requests[Id].item \in DOMAIN WeatherStage
    BY <1>13, ItemAtHand, ItemsOfHandlers DEF RunWeatherItem, RunsItem
  <2>2. bashStage' \in Stages
    BY <1>13, <2>1 DEF RunWeatherItem, Stages
  <2> QED BY <1>13, <2>2 DEF RunWeatherItem, GameOK
<1>14. CASE RunRelease
  <2>1. bashStage' \in Stages
    BY <1>14 DEF RunRelease, Stages, GameOK
  <2> QED BY <1>14, <2>1 DEF RunRelease, GameOK
<1>15. CASE RunUnlockableItem \/ RunFlush
  BY <1>15 DEF RunUnlockableItem, RunFlush, GameOK
<1>16. CASE RunReset \/ RunReapply
  BY <1>16 DEF RunReset, RunReapply, GameOK
<1>17. CASE Install \/ ObserveLoads \/ ResetState \/ UpdateUnlockable \/ UpdateLua
  BY <1>17 DEF Install, ObserveLoads, ResetState, UpdateUnlockable, UpdateLua, GameOK
<1>18. CASE Handles
  BY <1>18 DEF Handles, Handle, GameOK
<1>19. CASE CancelPending \/ FinishRemove
  BY <1>19 DEF CancelPending, FinishRemove, GameOK
<1>20. CASE UNCHANGED vars
  BY <1>20 DEF vars, GameOK
<1> QED BY <1>1, <1>2, <1>3, <1>4, <1>5, <1>6, <1>7, <1>8, <1>9, <1>10, <1>11, <1>12, <1>13,
           <1>14, <1>15, <1>16, <1>17, <1>18, <1>19, <1>20, Steps DEF Leaves, RunsItems

LEMMA FlagStep ==
  ASSUME FlagOK, [Next]_vars
  PROVE  FlagOK'
<1>1. CASE LoadSave \/ LoadWritesRespect \/ RestartLevel
  BY <1>1, Zenon DEF LoadSave, LoadWritesRespect, RestartLevel, UsePermit, Has, FlagOK
<1>2. CASE FinishLoading \/ ChangeControl \/ BeginLevel \/ GameAwardsRespect \/ WeatherTick
           \/ (\E hash \in Unlocks : GameGivesReward(hash)) \/ StartFrame
  BY <1>2, Zenon DEF FinishLoading, ChangeControl, BeginLevel, GameAwardsRespect, WeatherTick,
     GameGivesReward, StartFrame, FlagOK
<1>3. CASE GameProcessesUnlock
  BY <1>3, Zenon DEF GameProcessesUnlock, CompleteOutstanding, FlagOK
<1>4. CASE RunsItems \/ RunRelease
  BY <1>4, Zenon DEF RunsItems, RunStaleItem, RunSimpleItem, RunWeaponItem, RunRespectItem,
     RunLuaItem, RunWeatherItem, RunRelease, FlagOK
<1>5. CASE RunUnlockableItem \/ RunFlush \/ RunReset \/ RunReapply
  BY <1>5, Zenon DEF RunUnlockableItem, RunFlush, RunReset, RunReapply, FlushIsDone,
     ReapplyLater, FlagOK
<1>6. CASE Install \/ ObserveLoads \/ ResetState \/ UpdateUnlockable \/ UpdateLua
  BY <1>6, Zenon DEF Install, ObserveLoads, ResetState, UpdateUnlockable, UpdateLua, FlagOK
<1>7. CASE Handles
  BY <1>7, Zenon DEF Handles, Handle, FlagOK
<1>8. CASE CancelPending \/ FinishRemove
  BY <1>8, Zenon DEF CancelPending, FinishRemove, FlagOK
<1>9. CASE UNCHANGED vars
  BY <1>9, Zenon DEF vars, FlagOK
<1> QED BY <1>1, <1>2, <1>3, <1>4, <1>5, <1>6, <1>7, <1>8, <1>9, Steps DEF Leaves

LEMMA RequestStep ==
  ASSUME GameOK, QueueOK, RequestInv, GameOK', ItemsMove, [Next]_vars
  PROVE  RequestInv'
<1>1. configured' = configured
  BY Steps DEF Leaves, RunsItems, Handles, Handle, LoadSave, LoadWritesRespect, FinishLoading,
     ChangeControl, BeginLevel, RestartLevel, GameAwardsRespect, WeatherTick, GameGivesReward,
     GameProcessesUnlock, StartFrame, RunStaleItem, RunSimpleItem, RunWeaponItem, RunRespectItem,
     RunLuaItem, RunWeatherItem, RunRelease, RunUnlockableItem, RunFlush, RunReset, RunReapply,
     Install, ObserveLoads, ResetState, UpdateUnlockable, UpdateLua, CancelPending, FinishRemove,
     vars
<1>2. \/ UNCHANGED <<observed, resetEpoch, handlers>>
      \/ handlers # "Yes" /\ handlers' = "Yes" /\ handlers = "No" /\ UNCHANGED <<observed, resetEpoch>>
      \/ observed < observed' /\ UNCHANGED <<resetEpoch, handlers>>
      \/ resetEpoch' = observed /\ UNCHANGED <<observed, handlers>> /\ handlers = "Yes"
      \/ handlers' = "Removing" /\ UNCHANGED <<observed, resetEpoch>>
      \/ handlers' = "Gone" /\ UNCHANGED observed
  <2>1. CASE ObserveLoads
    BY <2>1 DEF ObserveLoads, GameOK
  <2>2. CASE Leaves /\ ~ObserveLoads
    BY <2>2 DEF Leaves, LoadSave, LoadWritesRespect, FinishLoading,
     ChangeControl, BeginLevel, RestartLevel, GameAwardsRespect, WeatherTick, GameGivesReward,
     StartFrame, RunRelease, RunReset, RunReapply,
     Install, ResetState, UpdateUnlockable, UpdateLua, vars
  <2>3. CASE GameProcessesUnlock \/ RunsItems \/ RunUnlockableItem \/ RunFlush \/ Handles
    BY <2>3 DEF RunsItems, Handles, Handle, GameProcessesUnlock, RunStaleItem, RunSimpleItem,
     RunWeaponItem, RunRespectItem, RunLuaItem, RunWeatherItem, RunUnlockableItem, RunFlush
  <2>4. CASE CancelPending \/ FinishRemove
    BY <2>4 DEF CancelPending, FinishRemove
  <2> QED BY <2>1, <2>2, <2>3, <2>4, Steps
<1>3. observed \in Nat /\ resetEpoch \in Nat /\ observed' \in Nat /\ resetEpoch' \in Nat
  BY ItemHandlersAssumption DEF GameOK
<1>4. observed <= observed'
  BY <1>2, <1>3
<1>5. \A id \in Ids : requests[id].epoch \in 1..observed /\ requests[id].epoch \in Nat
  BY <1>3 DEF RequestInv
<1>6. ASSUME NEW id \in Ids
      PROVE  handlers' = "Yes" /\ requests[id].epoch = observed' => resetEpoch' = observed'
  <2>1. handlers = "No" => requests = <<>> /\ Ids = {}
    BY DEF RequestInv, Ids
  <2>2. handlers = "Yes" /\ requests[id].epoch = observed => resetEpoch = observed
    BY DEF RequestInv
  <2>3. requests[id].epoch <= observed
    BY <1>3, <1>5
  <2> QED BY <1>2, <1>3, <1>5, <2>1, <2>2, <2>3
<1>7. ASSUME NEW id \in Ids'
      PROVE  /\ requests'[id].handler \in configured'
             /\ requests'[id].item \in ItemsOf(requests'[id].handler)
             /\ requests'[id].epoch \in 1..observed'
             /\ handlers' = "Yes" /\ requests'[id].epoch = observed' => resetEpoch' = observed'
  <2>1. CASE id \in Ids
    <3>1. /\ requests'[id].handler = requests[id].handler
          /\ requests'[id].item = requests[id].item
          /\ requests'[id].epoch = requests[id].epoch
      BY <2>1, ItemsKept
    <3>2. requests[id].epoch \in 1..observed'
      BY <1>3, <1>4, <1>5, <2>1
    <3> QED BY <1>1, <1>6, <2>1, <3>1, <3>2 DEF RequestInv
  <2>2. CASE id \notin Ids
    <3>1. Adds /\ id = Len(requests) + 1
      BY <2>2, ItemsKept
    <3>2. observed' = observed /\ resetEpoch' = observed' /\ observed \in 1..observed
      BY <1>3, <3>1 DEF Adds
    <3> QED BY <1>1, <3>1, <3>2 DEF Adds
  <2> QED BY <2>1, <2>2
<1>8. handlers' = "No" => requests' = <<>>
  <2>1. ASSUME handlers' = "No" PROVE handlers = "No"
    BY <1>2, <2>1
  <2>2. ASSUME handlers = "No" PROVE requests = <<>> /\ ~Adds
    BY <2>2 DEF RequestInv, Adds
  <2>3. ASSUME requests = <<>>, ~Adds PROVE requests' = <<>>
    <3>1. Ids = {} /\ Len(requests) = 0
      BY <2>3 DEF Ids
    <3>2. SameItems(requests')
      BY <2>3, <3>1 DEF ItemsMove, Reports, Completes
    <3> QED BY <3>1, <3>2 DEF SameItems
  <2> QED BY <2>1, <2>2, <2>3
<1> QED BY <1>7, <1>8 DEF RequestInv, ItemsOf
-----------------------------------------------------------------------------
\* The queues.

LEMMA TasksMade ==
  /\ \A kind \in Kinds : kind # "Item" => Task(kind) \in TaskRecords /\ Task(kind).kind = kind
  /\ \A id \in Nat : ItemTask(id) \in TaskRecords /\ ItemTask(id).kind = "Item" /\ ItemTask(id).id = id
  /\ \A stage \in Stages, frames \in 0..MaxFrames :
       ReleaseTask(stage, frames) \in TaskRecords /\ ReleaseTask(stage, frames).kind = "Release"
<1>1. NoStage \in Stages /\ 0 \in 0..MaxFrames
  BY ItemHandlersAssumption DEF Stages
<1>2. ASSUME NEW kind \in Kinds, kind # "Item"
      PROVE  Task(kind) \in TaskRecords /\ Task(kind).kind = kind
  <2>1. Task(kind) = [kind |-> kind, id |-> 0, stage |-> NoStage, frames |-> 0]
    BY DEF Task, NoTask
  <2> QED BY <1>1, <1>2, <2>1 DEF TaskRecords
<1>3. ASSUME NEW id \in Nat
      PROVE  ItemTask(id) \in TaskRecords /\ ItemTask(id).kind = "Item" /\ ItemTask(id).id = id
  <2>1. ItemTask(id) = [kind |-> "Item", id |-> id, stage |-> NoStage, frames |-> 0]
    <3> DEFINE one == [NoTask EXCEPT !.kind = "Item"]
    <3>1. one = [kind |-> "Item", id |-> 0, stage |-> NoStage, frames |-> 0]
      BY DEF NoTask
    <3>2. ItemTask(id) = [one EXCEPT !.id = id]
      BY DEF ItemTask, NoTask
    <3> HIDE DEF one
    <3> QED BY <3>1, <3>2
  <2> DEFINE task == [kind |-> "Item", id |-> id, stage |-> NoStage, frames |-> 0]
  <2>2. task \in [kind : Kinds, id : Nat, stage : Stages, frames : 0..MaxFrames]
    BY <1>1, <1>3 DEF Kinds
  <2>3. task.kind = "Item" /\ task.id = id
    OBVIOUS
  <2> HIDE DEF task
  <2>4. task \in TaskRecords
    BY <2>2, <2>3 DEF TaskRecords
  <2> QED BY <2>1, <2>3, <2>4 DEF task
<1>4. ASSUME NEW stage \in Stages, NEW frames \in 0..MaxFrames
      PROVE  ReleaseTask(stage, frames) \in TaskRecords /\ ReleaseTask(stage, frames).kind = "Release"
  BY DEF ReleaseTask, TaskRecords, Kinds
<1> QED BY <1>2, <1>3, <1>4

\* What a step does to the tasks.
Takes ==
  /\ batch # <<>> /\ batch' = Tail(batch)
  /\ \/ pendingTasks' = pendingTasks
     \/ \E task \in TaskRecords : /\ task.kind = "Release"
                                  /\ pendingTasks' = Append(pendingTasks, task)
Queues(task) == batch' = batch /\ pendingTasks' = Append(pendingTasks, task) /\ handlers = "Yes"
                /\ handlers' = "Yes"
TasksMove ==
  \/ UNCHANGED taskVars
  \/ StartFrame
  \/ Takes
  \/ \E task \in TaskRecords : /\ task.kind # "Item" /\ Queues(task) /\ requests' = requests
                               /\ task.kind = "Reset" => resetEpoch # observed
  \/ \E task \in TaskRecords : /\ task.kind = "Item" /\ task.id = Len(requests) + 1 /\ Queues(task)
                               /\ Adds /\ requests'[Len(requests) + 1].outcome = "Held"
  \/ CancelPending

LEMMA ReleaseWaits ==
  ASSUME GameOK, QueueOK, RunRelease
  PROVE  Takes
<1>1. /\ batch # <<>> /\ batch' = Tail(batch) /\ Head(batch) \in TaskRecords
  BY TakeTask DEF RunRelease, Runs, Draining, QueueOK
<1>2. CASE pendingTasks' = pendingTasks
  BY <1>1, <1>2 DEF Takes
<1>3. CASE /\ pendingTasks' = Append(pendingTasks, ReleaseTask(Head(batch).stage, FramesLeft(Head(batch).frames)))
           /\ StillWaits(Head(batch).stage, Head(batch).frames)
  <2>1. Head(batch).stage \in Stages /\ Head(batch).frames \in 0..MaxFrames /\ MaxFrames \in Nat
    BY <1>1, ItemHandlersAssumption DEF TaskRecords
  <2>2. FramesLeft(Head(batch).frames) \in 0..MaxFrames
    BY <1>3, <2>1 DEF FramesLeft, StillWaits
  <2> QED BY <1>1, <1>3, <2>1, <2>2, TasksMade DEF Takes
<1> QED BY <1>2, <1>3 DEF RunRelease

LEMMA WeatherWaits ==
  ASSUME GameOK, QueueOK, RequestInv, Custody, RunWeatherItem
  PROVE  Takes
<1>1. requests[Id].item \in DOMAIN WeatherStage
  BY ItemAtHand, ItemsOfHandlers DEF RunWeatherItem, RunsItem
<1>2. WeatherStage[requests[Id].item] \in Stages /\ MaxFrames \in 0..MaxFrames
  BY <1>1, ItemHandlersAssumption DEF Stages
<1>3. pendingTasks' = Append(pendingTasks, ReleaseTask(WeatherStage[requests[Id].item], MaxFrames))
  BY DEF RunWeatherItem
<1>4. batch # <<>> /\ batch' = Tail(batch)
  BY DEF RunWeatherItem, RunsItem, Runs, Draining
<1> QED BY <1>2, <1>3, <1>4, TasksMade DEF Takes

LEMMA TasksStep ==
  ASSUME GameOK, QueueOK, RequestInv, Custody, [Next]_vars
  PROVE  TasksMove
<1>1. CASE RunRelease
  BY <1>1, ReleaseWaits DEF TasksMove
<1>2. CASE RunWeatherItem
  BY <1>2, WeatherWaits DEF TasksMove
<1>3. CASE RunReset \/ RunReapply \/ RunStaleItem \/ RunSimpleItem \/ RunWeaponItem
           \/ RunRespectItem \/ RunLuaItem \/ RunUnlockableItem \/ RunFlush
  <2>1. /\ batch # <<>> /\ batch' = Tail(batch) /\ pendingTasks' = pendingTasks
    BY <1>3 DEF RunReset, RunReapply, RunStaleItem, RunSimpleItem, RunWeaponItem, RunRespectItem,
       RunLuaItem, RunUnlockableItem, RunFlush, RunsItem, Runs, Draining
  <2> QED BY <2>1 DEF TasksMove, Takes
<1>4. CASE StartFrame \/ CancelPending
  BY <1>4 DEF TasksMove
<1>5. CASE ResetState \/ UpdateUnlockable \/ UpdateLua
  <2>1. PICK kind \in {"Reset", "Flush", "Reapply"} :
          /\ Queues(Task(kind)) /\ requests' = requests
          /\ kind = "Reset" => resetEpoch # observed
    BY <1>5 DEF ResetState, UpdateUnlockable, UpdateLua, Dispatch, Queues
  <2>2. Task(kind) \in TaskRecords /\ Task(kind).kind # "Item" /\ Task(kind).kind = kind
    BY TasksMade DEF Kinds
  <2> QED BY <2>1, <2>2 DEF TasksMove
<1>6. CASE Handles
  <2>1. PICK handler \in configured : \E item \in ItemsOf(handler) : Handle(handler, item)
    BY <1>6 DEF Handles
  <2>2. PICK item \in ItemsOf(handler) : Handle(handler, item)
    BY <2>1
  <2>3. batch' = batch /\ handlers = "Yes" /\ handlers' = "Yes" /\ Len(requests) + 1 \in Nat
    BY <2>2 DEF Handle, QueueOK
  <2>4. Adds /\ \/ /\ pendingTasks' = Append(pendingTasks, ItemTask(Len(requests) + 1))
                   /\ requests'[Len(requests) + 1].outcome = "Held"
                \/ pendingTasks' = pendingTasks
    BY <2>2, HandleAdds
  <2>5. CASE pendingTasks' = pendingTasks
    BY <2>3, <2>5 DEF TasksMove
  <2>6. CASE /\ pendingTasks' = Append(pendingTasks, ItemTask(Len(requests) + 1))
             /\ requests'[Len(requests) + 1].outcome = "Held"
    BY <2>3, <2>4, <2>6, TasksMade DEF TasksMove, Queues
  <2> QED BY <2>4, <2>5, <2>6
<1>7. CASE GameProcessesUnlock \/ FinishRemove \/ UNCHANGED vars
  BY <1>7 DEF GameProcessesUnlock, FinishRemove, vars, TasksMove
<1>8. CASE \/ LoadSave \/ LoadWritesRespect \/ FinishLoading \/ ChangeControl \/ BeginLevel
           \/ RestartLevel \/ GameAwardsRespect \/ WeatherTick
           \/ (\E hash \in Unlocks : GameGivesReward(hash)) \/ Install \/ ObserveLoads
  BY <1>8 DEF LoadSave, LoadWritesRespect, FinishLoading, ChangeControl, BeginLevel,
     RestartLevel, GameAwardsRespect, WeatherTick, GameGivesReward, Install, ObserveLoads, TasksMove
<1> QED BY <1>1, <1>2, <1>3, <1>4, <1>5, <1>6, <1>7, <1>8, Steps DEF Leaves, RunsItems

\* A flush finds its list in order.
LEMMA FlushableBacklog ==
  ASSUME QueueOK, RequestInv, Custody, WorldInv
  PROVE  Flushable(backlog)
<1>1. \A id \in ToSet(backlog) : id \in Ids /\ id \in Listed /\ requests[id].item \in Unlocks
  BY ItemsOfHandlers DEF Custody, Listed, Held
<1> QED BY <1>1 DEF Flushable, QueueOK, Custody, WorldInv, Playable

LEMMA FlushableItem ==
  ASSUME QueueOK, RequestInv, Custody, WorldInv, RunUnlockableItem
  PROVE  Flushable(Append(backlog, Id)) /\ ToSet(Append(backlog, Id)) = ToSet(backlog) \cup {Id}
<1>1. /\ Id \in Ids /\ Id \notin Listed /\ requests[Id].handler = "Unlockable"
      /\ IsCurrent(Id) /\ mode = "Interactive"
  BY ItemAtHand DEF RunUnlockableItem, RunsItem, CanApply
<1>2. requests[Id].item \in Unlocks
  BY <1>1, ItemsOfHandlers
<1>3. Flushable(backlog)
  BY FlushableBacklog
<1> DEFINE log == Append(backlog, Id)
<1>4. log \in Seq(Ids) /\ Once(log) /\ ToSet(log) = ToSet(backlog) \cup {Id}
  BY <1>1, AddEntry DEF QueueOK, Custody, Listed
<1> HIDE DEF log
<1>5. Flushable(log)
  BY <1>1, <1>2, <1>3, <1>4 DEF Flushable, Playable, Listed
<1> QED BY <1>4, <1>5 DEF log

FlushOf(log) == Flushable(log) /\ FlushBacklog(log) /\ Flushed(log)
LEMMA FlushLemma ==
  ASSUME GameOK, QueueOK, RequestInv, Custody, WorldInv, AllowancesArePaidFor
  PROVE  /\ RunFlush => FlushOf(backlog)
         /\ RunUnlockableItem => FlushOf(Append(backlog, Id))
<1>1. ASSUME NEW log, Flushable(log), FlushBacklog(log) PROVE FlushOf(log)
  BY <1>1, FlushesCurrent, FlushesStale DEF FlushOf
<1>2. RunFlush => FlushBacklog(backlog)
  BY DEF RunFlush
<1>3. RunUnlockableItem => FlushBacklog(Append(backlog, Id))
  BY DEF RunUnlockableItem
<1> QED BY <1>1, <1>2, <1>3, FlushableBacklog, FlushableItem

\* The steps that leave the unlocks under way as they are.
KeepsUnlocks == Leaves \/ RunsItems \/ Handles \/ CancelPending

LEMMA UnlocksLeft ==
  ASSUME KeepsUnlocks
  PROVE  /\ UNCHANGED <<backlog, outstanding, allowances, stray>>
         /\ nativeQueue' = nativeQueue \/ LoadSave \/ \E hash \in Unlocks : GameGivesReward(hash)
<1>1. CASE Leaves
  BY <1>1 DEF Leaves, LoadSave, LoadWritesRespect, FinishLoading,
     ChangeControl, BeginLevel, RestartLevel, GameAwardsRespect, WeatherTick, GameGivesReward,
     StartFrame, RunRelease, RunReset, RunReapply,
     Install, ObserveLoads, ResetState, UpdateUnlockable, UpdateLua, vars
<1>2. CASE RunsItems
  BY <1>2 DEF RunsItems, RunStaleItem, RunSimpleItem, RunWeaponItem, RunRespectItem, RunLuaItem,
     RunWeatherItem
<1>3. CASE Handles \/ CancelPending
  BY <1>3 DEF Handles, Handle, CancelPending
<1> QED BY <1>1, <1>2, <1>3 DEF KeepsUnlocks

LEMMA QueueStep ==
  ASSUME GameOK, QueueOK, RequestInv, Custody, WorldInv, AllowancesArePaidFor, ItemsMove,
         TasksMove, [Next]_vars
  PROVE  QueueOK'
<1>1. requests' \in Seq(RequestRecords) /\ Len(requests') <= MaxRequests /\ Ids \subseteq Ids'
  BY ItemsKept
<1>2. \A s \in Seq(Ids) : s \in Seq(Ids')
  BY <1>1
<1>3. pendingTasks' \in Seq(TaskRecords) /\ batch' \in Seq(TaskRecords)
  <2>1. pendingTasks \in Seq(TaskRecords) /\ batch \in Seq(TaskRecords)
    BY DEF QueueOK
  <2>2. CASE UNCHANGED taskVars BY <2>1, <2>2
  <2>3. CASE StartFrame BY <2>1, <2>3 DEF StartFrame
  <2>4. CASE Takes
    <3>1. batch' \in Seq(TaskRecords)
      BY <2>1, <2>4, TakeTask DEF Takes
    <3>2. pendingTasks' \in Seq(TaskRecords)
      BY <2>1, <2>4, AddTask DEF Takes
    <3> QED BY <3>1, <3>2
  <2>5. CASE \E task \in TaskRecords : Queues(task) BY <2>1, <2>5, AddTask DEF Queues
  <2>6. CASE CancelPending BY <2>1, <2>6 DEF CancelPending
  <2> QED BY <2>2, <2>3, <2>4, <2>5, <2>6 DEF TasksMove
<1>4. /\ backlog' \in Seq(Ids) /\ outstanding' \in Seq(Ids)
      /\ nativeQueue' \in Seq(Unlocks) /\ Len(nativeQueue') <= NativeRoom
      /\ allowances' \in [Unlocks -> Nat]
  <2>1. CASE KeepsUnlocks /\ nativeQueue' = nativeQueue
    BY <2>1, UnlocksLeft DEF QueueOK
  <2>2. CASE LoadSave
    BY <2>2, ItemHandlersAssumption DEF LoadSave, QueueOK
  <2>3. CASE \E hash \in Unlocks : GameGivesReward(hash)
    BY <2>3, ItemHandlersAssumption DEF GameGivesReward, QueueOK
  <2>4. CASE GameProcessesUnlock
    <3>1. nativeQueue' \in Seq(Unlocks) /\ Len(nativeQueue') <= NativeRoom
      BY <2>4, ItemHandlersAssumption DEF GameProcessesUnlock, QueueOK
    <3>2. backlog' = backlog
      BY <2>4 DEF GameProcessesUnlock
    <3>3. outstanding' \in Seq(Ids) /\ allowances' \in [Unlocks -> Nat]
      <4>1. CASE UNCHANGED <<outstanding, allowances>>
        BY <4>1 DEF QueueOK
      <4>2. CASE /\ Hash \in Unlocks /\ allowances[Hash] > 0
                 /\ allowances' = [allowances EXCEPT ![Hash] = allowances[Hash] - 1]
                 /\ Min(For(Hash)) \in 1..Len(outstanding)
                 /\ outstanding' = RemoveAt(outstanding, Min(For(Hash)))
        <5>1. allowances[Hash] - 1 \in Nat
          BY <4>2 DEF QueueOK
        <5>2. allowances' \in [Unlocks -> Nat]
          BY <4>2, <5>1 DEF QueueOK
        <5>3. outstanding \in Seq(Ids)
          BY DEF QueueOK
        <5> QED BY <4>2, <5>2, <5>3, RemoveAtLemma
      <4> QED BY <2>4, <4>1, <4>2, ProcessedUnlock
    <3> QED BY <3>1, <3>2, <3>3 DEF QueueOK
  <2>5. CASE RunUnlockableItem \/ RunFlush
    BY <2>5, FlushLemma DEF FlushOf, Flushed
  <2>6. CASE FinishRemove
    BY <2>6 DEF FinishRemove, QueueOK
  <2> QED BY <2>1, <2>2, <2>3, <2>4, <2>5, <2>6, Steps, UnlocksLeft DEF KeepsUnlocks
<1> QED BY <1>1, <1>2, <1>3, <1>4 DEF QueueOK

-----------------------------------------------------------------------------
\* Where the items are that are not answered yet.

FourPlaces(b, p, u, o) ==
  /\ Apart(b) /\ Apart(p) /\ Once(u) /\ Once(o)
  /\ IdsOf(b) \cap IdsOf(p) = {} /\ (IdsOf(b) \cup IdsOf(p)) \cap (ToSet(u) \cup ToSet(o)) = {}
  /\ ToSet(u) \cap ToSet(o) = {}

LEMMA CustodyInParts ==
  /\ Custody <=> /\ FourPlaces(batch, pendingTasks, backlog, outstanding)
                 /\ \A id \in IdsOf(batch) \cup IdsOf(pendingTasks) \cup Listed : Held(id)
                 /\ \A id \in Listed : requests[id].handler = "Unlockable"
  /\ Custody' <=> /\ FourPlaces(batch', pendingTasks', backlog', outstanding')
                  /\ \A id \in IdsOf(batch') \cup IdsOf(pendingTasks') \cup Listed' : Held(id)'
                  /\ \A id \in Listed' : requests'[id].handler = "Unlockable"
BY DEF Custody, FourPlaces, Listed

LEMMA NoItems ==
  /\ IdsOf(<<>>) = {} /\ Apart(<<>>) /\ Once(<<>>) /\ ToSet(<<>>) = {}
BY DEF IdsOf, Apart, Once, ToSet, ItemTasks

\* An item that is held and that the step does not answer stays held.
LEMMA StaysHeld ==
  ASSUME QueueOK, ItemsMove, NEW id, Held(id), requests'[id].outcome = requests[id].outcome
  PROVE  Held(id)' /\ requests'[id].handler = requests[id].handler
BY ItemsKept DEF Held

\* Tasks change and the unlocks do not.
LEMMA CustodyOfTasks ==
  ASSUME QueueOK, Custody, ItemsMove, UNCHANGED <<backlog, outstanding>>,
         Apart(batch'), Apart(pendingTasks'),
         IdsOf(batch') \subseteq IdsOf(batch) \cup IdsOf(pendingTasks),
         IdsOf(pendingTasks') \subseteq IdsOf(batch) \cup IdsOf(pendingTasks),
         IdsOf(batch') \cap IdsOf(pendingTasks') = {},
         \A id \in IdsOf(batch') \cup IdsOf(pendingTasks') \cup Listed :
           requests'[id].outcome = requests[id].outcome
  PROVE  Custody'
<1>1. Listed' = Listed
  BY DEF Listed
<1>2. \A id \in IdsOf(batch') \cup IdsOf(pendingTasks') \cup Listed :
        Held(id)' /\ requests'[id].handler = requests[id].handler
  BY StaysHeld, CustodyInParts
<1>3. FourPlaces(batch', pendingTasks', backlog', outstanding')
  BY CustodyInParts DEF FourPlaces, Listed
<1> QED BY <1>1, <1>2, <1>3, CustodyInParts

\* The unlocks change and the tasks lose no more than the one that is run.
LEMMA CustodyOfUnlocks ==
  ASSUME QueueOK, Custody, ItemsMove, pendingTasks' = pendingTasks,
         Apart(batch'), IdsOf(batch') \subseteq IdsOf(batch),
         Once(backlog'), Once(outstanding'), ToSet(backlog') \cap ToSet(outstanding') = {},
         \A id \in Listed' : /\ id \in Listed \/ (id \in IdsOf(batch) /\ id \notin IdsOf(batch')
                                                  /\ requests[id].handler = "Unlockable")
                             /\ requests'[id].outcome = requests[id].outcome,
         \A id \in IdsOf(batch') \cup IdsOf(pendingTasks) :
           requests'[id].outcome = requests[id].outcome
  PROVE  Custody'
<1>1. \A id \in IdsOf(batch') \cup IdsOf(pendingTasks') \cup Listed' :
        Held(id)' /\ requests'[id].handler = requests[id].handler
  BY StaysHeld, CustodyInParts
<1>2. (IdsOf(batch') \cup IdsOf(pendingTasks')) \cap Listed' = {}
  BY CustodyInParts DEF FourPlaces, Listed
<1>3. FourPlaces(batch', pendingTasks', backlog', outstanding')
  BY <1>2, CustodyInParts DEF FourPlaces, Listed
<1>4. \A id \in Listed' : requests'[id].handler = "Unlockable"
  BY <1>1, CustodyInParts
<1> QED BY <1>1, <1>3, <1>4, CustodyInParts

\* The items among the tasks, after a step.
LEMMA TakesIds ==
  ASSUME QueueOK, Custody, Takes
  PROVE  /\ Apart(batch') /\ Apart(pendingTasks')
         /\ IdsOf(batch') \subseteq IdsOf(batch) /\ IdsOf(pendingTasks') = IdsOf(pendingTasks)
         /\ Head(batch).kind = "Item" => Id \notin IdsOf(batch') /\ Id \notin IdsOf(pendingTasks')
<1>1. batch \in Seq(TaskRecords) /\ pendingTasks \in Seq(TaskRecords) /\ batch # <<>>
      /\ Apart(batch) /\ Apart(pendingTasks) /\ IdsOf(batch) \cap IdsOf(pendingTasks) = {}
  BY DEF QueueOK, Custody, Takes
<1>2. /\ Apart(batch') /\ IdsOf(batch') \subseteq IdsOf(batch)
      /\ Head(batch).kind = "Item" => Head(batch).id \in IdsOf(batch) /\ Head(batch).id \notin IdsOf(batch')
  <2>1. batch' = Tail(batch)
    BY DEF Takes
  <2> QED BY <1>1, <2>1, TakeIds
<1>3. Apart(pendingTasks') /\ IdsOf(pendingTasks') = IdsOf(pendingTasks)
  <2>1. CASE pendingTasks' = pendingTasks
    BY <1>1, <2>1
  <2>2. ASSUME NEW task \in TaskRecords, task.kind = "Release", pendingTasks' = Append(pendingTasks, task)
        PROVE  Apart(pendingTasks') /\ IdsOf(pendingTasks') = IdsOf(pendingTasks)
    <3>1. task.kind # "Item"
      BY <2>2
    <3> QED BY <1>1, <2>2, <3>1, AddIds
  <2> QED BY <2>1, <2>2 DEF Takes
<1> QED BY <1>1, <1>2, <1>3 DEF Id

LEMMA TasksIds ==
  ASSUME QueueOK, Custody, TasksMove
  PROVE  /\ Apart(batch') /\ Apart(pendingTasks') /\ IdsOf(batch') \cap IdsOf(pendingTasks') = {}
         /\ \/ /\ IdsOf(batch') \subseteq IdsOf(batch) \cup IdsOf(pendingTasks)
               /\ IdsOf(pendingTasks') \subseteq IdsOf(batch) \cup IdsOf(pendingTasks)
            \/ /\ Adds /\ requests'[Len(requests) + 1].outcome = "Held"
               /\ IdsOf(batch') = IdsOf(batch)
               /\ IdsOf(pendingTasks') = IdsOf(pendingTasks) \cup {Len(requests) + 1}
<1>1. batch \in Seq(TaskRecords) /\ pendingTasks \in Seq(TaskRecords)
      /\ Apart(batch) /\ Apart(pendingTasks) /\ IdsOf(batch) \cap IdsOf(pendingTasks) = {}
      /\ Len(requests) \in Nat
  BY DEF QueueOK, Custody
<1>2. CASE UNCHANGED taskVars
  BY <1>1, <1>2
<1>3. CASE StartFrame
  <2>1. batch = <<>> /\ batch' = pendingTasks /\ pendingTasks' = <<>>
    BY <1>3 DEF StartFrame, Draining
  <2> QED BY <1>1, <2>1, NoItems
<1>4. CASE Takes
  BY <1>1, <1>4, TakesIds
<1>5. ASSUME NEW task \in TaskRecords, task.kind # "Item", Queues(task) PROVE
        /\ Apart(batch') /\ Apart(pendingTasks') /\ IdsOf(batch') = IdsOf(batch)
        /\ IdsOf(pendingTasks') = IdsOf(pendingTasks)
  BY <1>1, <1>5, AddIds DEF Queues
<1>6. ASSUME NEW task \in TaskRecords, task.kind = "Item", task.id = Len(requests) + 1, Queues(task)
      PROVE  /\ Apart(batch') /\ Apart(pendingTasks') /\ IdsOf(batch') = IdsOf(batch)
             /\ IdsOf(pendingTasks') = IdsOf(pendingTasks) \cup {Len(requests) + 1}
             /\ Len(requests) + 1 \notin IdsOf(batch)
  <2>1. \A id \in IdsOf(batch) \cup IdsOf(pendingTasks) : id \in 1..Len(requests)
    BY DEF Custody, Held, Ids
  <2>2. Len(requests) + 1 \notin IdsOf(batch) \cup IdsOf(pendingTasks)
    BY <1>1, <2>1
  <2> QED BY <1>1, <1>6, <2>2, AddIds DEF Queues
<1>7. CASE CancelPending
  BY <1>1, <1>7, NoItems DEF CancelPending
<1>8. CASE \E task \in TaskRecords : task.kind # "Item" /\ Queues(task)
  BY <1>1, <1>5, <1>8
<1>9. CASE \E task \in TaskRecords : /\ task.kind = "Item" /\ task.id = Len(requests) + 1 /\ Queues(task)
                               /\ Adds /\ requests'[Len(requests) + 1].outcome = "Held"
  BY <1>1, <1>6, <1>9
<1> QED BY <1>2, <1>3, <1>4, <1>7, <1>8, <1>9 DEF TasksMove

LEMMA LeavesItems ==
  ASSUME Leaves
  PROVE  requests' = requests
BY DEF Leaves, LoadSave, LoadWritesRespect, FinishLoading, ChangeControl, BeginLevel,
   RestartLevel, GameAwardsRespect, WeatherTick, GameGivesReward, StartFrame, RunRelease,
   RunReset, RunReapply, Install, ObserveLoads, ResetState, UpdateUnlockable, UpdateLua, vars

LEMMA CustodyOfFlush ==
  ASSUME QueueOK, Custody, WorldInv, ItemsMove, NEW log, FlushOf(log), pendingTasks' = pendingTasks,
         Apart(batch'), IdsOf(batch') \subseteq IdsOf(batch),
         \A id \in ToSet(log) : \/ id \in ToSet(backlog)
                                \/ /\ id \in IdsOf(batch) /\ id \notin IdsOf(batch')
                                   /\ requests[id].handler = "Unlockable"
  PROVE  Custody'
<1>1. /\ Flushable(log) /\ Flushed(log) /\ FlushBacklog(log)
  BY DEF FlushOf
<1>2. /\ Once(backlog') /\ Once(outstanding') /\ ToSet(backlog') \cap ToSet(outstanding') = {}
      /\ Listed' \subseteq ToSet(log) \cup ToSet(outstanding)
      /\ ~Playable => Listed' = {}
  BY <1>1 DEF Flushed, Listed
<1>3. \A id \in Ids : \/ id \in ToSet(log) \cup ToSet(outstanding) /\ ~IsCurrent(id)
                      \/ requests'[id].outcome = requests[id].outcome
  BY <1>1, FlushReports
<1>4. \A id \in ToSet(log) \cup ToSet(outstanding) : Playable => IsCurrent(id)
  <2>1. \A id \in ToSet(log) : Playable => IsCurrent(id)
    BY <1>1 DEF Flushable
  <2>2. \A id \in ToSet(outstanding) : Playable => IsCurrent(id)
    BY DEF WorldInv, Listed, Playable
  <2> QED BY <2>1, <2>2
<1>5. \A id \in Listed' : /\ id \in Listed \/ (id \in IdsOf(batch) /\ id \notin IdsOf(batch')
                                                  /\ requests[id].handler = "Unlockable")
                          /\ id \in Ids
  BY <1>2, CustodyInParts DEF Listed, Held
<1>6. \A id \in Listed' : requests'[id].outcome = requests[id].outcome
  BY <1>2, <1>3, <1>4, <1>5
<1>7. \A id \in IdsOf(batch') \cup IdsOf(pendingTasks) :
        id \in Ids /\ id \notin ToSet(log) \cup ToSet(outstanding)
  BY CustodyInParts DEF FourPlaces, Held
<1> QED BY <1>2, <1>3, <1>5, <1>6, <1>7, CustodyOfUnlocks

LEMMA CustodyStep ==
  ASSUME GameOK, QueueOK, RequestInv, Custody, WorldInv, AllowancesArePaidFor, ItemsMove,
         TasksMove, [Next]_vars
  PROVE  Custody'
<1>0. \A id \in IdsOf(batch) \cup IdsOf(pendingTasks) \cup Listed : id \in Ids
  BY CustodyInParts DEF Held
<1>1. CASE Leaves
  <2>1. requests' = requests /\ UNCHANGED <<backlog, outstanding>>
    BY <1>1, LeavesItems, UnlocksLeft DEF KeepsUnlocks
  <2>2. ~Adds
    BY <2>1 DEF Adds, QueueOK
  <2> QED BY <2>1, <2>2, TasksIds, CustodyOfTasks
<1>2. CASE RunsItems
  <2>1. UNCHANGED <<backlog, outstanding>>
    BY <1>2, UnlocksLeft DEF KeepsUnlocks
  <2>2. Runs("Item") /\ \A other \in Ids : other # Id => requests'[other] = requests[other]
    BY <1>2, RunItem DEF RunsItems
  <2>3. Takes
    BY <1>2, <2>2, WeatherWaits DEF Takes, Runs, Draining, RunsItems, RunStaleItem, RunSimpleItem,
       RunWeaponItem, RunRespectItem, RunLuaItem
  <2>4. Id \notin IdsOf(batch') \cup IdsOf(pendingTasks') /\ Id \notin Listed
    BY <2>2, <2>3, TakesIds, ItemAtHand DEF Runs
  <2>5. /\ Apart(batch') /\ Apart(pendingTasks')
        /\ IdsOf(batch') \subseteq IdsOf(batch) /\ IdsOf(pendingTasks') = IdsOf(pendingTasks)
    BY <2>3, TakesIds
  <2>6. IdsOf(batch') \cap IdsOf(pendingTasks') = {}
    BY TasksIds
  <2>7. \A id \in IdsOf(batch') \cup IdsOf(pendingTasks') \cup Listed :
           requests'[id].outcome = requests[id].outcome
    BY <1>0, <2>2, <2>4, <2>5
  <2> QED BY <2>1, <2>5, <2>6, <2>7, CustodyOfTasks
<1>3. CASE Handles
  <2>1. UNCHANGED <<backlog, outstanding>>
    BY <1>3, UnlocksLeft DEF KeepsUnlocks
  <2>2. Adds
    BY <1>3, HandleAdds DEF Handles
  <2>3. \A id \in Ids : requests'[id] = requests[id]
    BY <2>2 DEF Adds
  <2>4. CASE /\ IdsOf(batch') \subseteq IdsOf(batch) \cup IdsOf(pendingTasks)
             /\ IdsOf(pendingTasks') \subseteq IdsOf(batch) \cup IdsOf(pendingTasks)
    <3>1. \A id \in IdsOf(batch') \cup IdsOf(pendingTasks') \cup Listed :
             requests'[id].outcome = requests[id].outcome
      BY <1>0, <2>3, <2>4
    <3> QED BY <2>1, <2>4, <3>1, TasksIds, CustodyOfTasks
  <2>5. CASE /\ requests'[Len(requests) + 1].outcome = "Held"
             /\ IdsOf(batch') = IdsOf(batch)
             /\ IdsOf(pendingTasks') = IdsOf(pendingTasks) \cup {Len(requests) + 1}
    <3>0. PICK new : new = Len(requests) + 1
      OBVIOUS
    <3>1. Len(requests) \in Nat /\ Ids = 1..Len(requests) /\ Ids' = 1..Len(requests')
          /\ Len(requests') = Len(requests) + 1
      BY <2>2 DEF QueueOK, Ids, Adds
    <3>2. new \in Ids' /\ new \notin Ids
      BY <3>0, <3>1
    <3>3. Held(new)'
      BY <2>5, <3>0, <3>2 DEF Held
    <3>4. \A id \in IdsOf(batch) \cup IdsOf(pendingTasks) \cup Listed :
            Held(id)' /\ requests'[id].handler = requests[id].handler
      BY <1>0, <2>3, StaysHeld, CustodyInParts
    <3>5. new \notin IdsOf(batch) \cup IdsOf(pendingTasks) \cup Listed
      BY <1>0, <3>2
    <3>6. Listed' = Listed /\ IdsOf(batch') = IdsOf(batch)
          /\ IdsOf(pendingTasks') = IdsOf(pendingTasks) \cup {new}
      BY <2>1, <2>5, <3>0 DEF Listed
    <3>7. FourPlaces(batch', pendingTasks', backlog', outstanding')
      <4>1. Apart(batch') /\ Apart(pendingTasks')
        BY TasksIds
      <4> QED BY <2>1, <3>5, <3>6, <4>1, CustodyInParts DEF FourPlaces, Listed
    <3>8. \A id \in IdsOf(batch') \cup IdsOf(pendingTasks') \cup Listed' : Held(id)'
      <4> SUFFICES ASSUME NEW id \in IdsOf(batch') \cup IdsOf(pendingTasks') \cup Listed' PROVE Held(id)'
        OBVIOUS
      <4>1. CASE id = new BY <3>3, <4>1
      <4>2. CASE id # new BY <3>4, <3>6, <4>2
      <4> QED BY <4>1, <4>2
    <3> QED BY <3>4, <3>6, <3>7, <3>8, CustodyInParts
  <2> QED BY <2>4, <2>5, TasksIds
<1>4. CASE CancelPending
  <2>1. UNCHANGED <<backlog, outstanding>> /\ batch' = batch /\ pendingTasks' = <<>>
    BY <1>4 DEF CancelPending
  <2>2. ASSUME NEW id \in IdsOf(batch) \cup Listed
        PROVE  id \notin {task.id : task \in ToSet(pendingTasks)}
    <3>1. id \in Nat /\ id # 0 /\ id \notin IdsOf(pendingTasks)
      BY <1>0, IdsFacts, CustodyInParts DEF FourPlaces, Listed
    <3>2. ASSUME NEW i \in DOMAIN pendingTasks, pendingTasks[i].id = id PROVE FALSE
      <4>1. pendingTasks[i] \in TaskRecords
        BY DEF QueueOK
      <4>2. pendingTasks[i].kind # "Item"
        BY <3>1, <3>2 DEF IdsOf, ItemTasks
      <4> QED BY <3>1, <3>2, <4>1, <4>2 DEF TaskRecords
    <3> QED BY <3>2 DEF ToSet
  <2>3. requests' = Report({task.id : task \in ToSet(pendingTasks)}, "Dropped")
    BY <1>4 DEF CancelPending
  <2>4. \A id \in IdsOf(batch) \cup Listed : requests'[id] = requests[id]
    BY <1>0, <2>2, <2>3 DEF Report
  <2> QED BY <2>1, <2>4, NoItems, TasksIds, CustodyOfTasks
<1>5. CASE GameProcessesUnlock
  <2>1. UNCHANGED <<batch, pendingTasks, backlog>>
    BY <1>5 DEF GameProcessesUnlock
  <2>2. CASE UNCHANGED <<requests, outstanding>>
    BY <2>1, <2>2, TasksIds, CustodyOfTasks
  <2>3. CASE /\ Min(For(Hash)) \in 1..Len(outstanding)
             /\ Completes(outstanding[Min(For(Hash))])
             /\ outstanding[Min(For(Hash))] \in ToSet(outstanding)
             /\ outstanding' = RemoveAt(outstanding, Min(For(Hash)))
    <3> DEFINE done == outstanding[Min(For(Hash))]
    <3>1. Once(outstanding') /\ ToSet(outstanding') \subseteq ToSet(outstanding) \ {done}
      BY <2>3, RemoveEntry DEF QueueOK, Custody
    <3>2. Completes(done) /\ done \in Listed /\ done \in ToSet(outstanding)
      BY <2>3 DEF Listed
    <3> HIDE DEF done
    <3>3. \A other \in Ids : other # done => requests'[other] = requests[other]
      BY <3>2 DEF Completes
    <3>4. done \notin IdsOf(batch) \cup IdsOf(pendingTasks) /\ done \notin ToSet(backlog)
      BY <3>2, CustodyInParts DEF FourPlaces, Listed
    <3>5. Listed' \subseteq Listed /\ done \notin Listed'
      BY <2>1, <3>1, <3>4 DEF Listed
    <3>6. \A id \in IdsOf(batch) \cup IdsOf(pendingTasks) \cup Listed' :
            requests'[id].outcome = requests[id].outcome
      BY <1>0, <3>3, <3>4, <3>5
    <3>7. Once(backlog') /\ ToSet(backlog') \cap ToSet(outstanding') = {} /\ Apart(batch')
      BY <2>1, <3>1, CustodyInParts DEF FourPlaces
    <3> QED BY <2>1, <3>1, <3>5, <3>6, <3>7, CustodyOfUnlocks
  <2> QED BY <1>5, <2>2, <2>3, ProcessedUnlock
<1>6. CASE RunFlush
  <2>1. Takes /\ pendingTasks' = pendingTasks /\ FlushOf(backlog)
    BY <1>6, FlushLemma DEF RunFlush, Runs, Draining, Takes
  <2> QED BY <2>1, TakesIds, CustodyOfFlush
<1>7. CASE RunUnlockableItem
  <2>1. Takes /\ pendingTasks' = pendingTasks /\ Runs("Item") /\ FlushOf(Append(backlog, Id))
    BY <1>7, FlushLemma DEF RunUnlockableItem, RunsItem, Runs, Draining, Takes
  <2>2. ToSet(Append(backlog, Id)) = ToSet(backlog) \cup {Id}
    BY <1>7, FlushableItem
  <2>3. Id \in IdsOf(batch) /\ Id \notin IdsOf(batch') /\ requests[Id].handler = "Unlockable"
    BY <1>7, <2>1, TakesIds, ItemAtHand DEF Runs, RunUnlockableItem, RunsItem
  <2> QED BY <2>1, <2>2, <2>3, TakesIds, CustodyOfFlush
<1>8. CASE FinishRemove
  <2>1. UNCHANGED <<batch, pendingTasks>> /\ backlog' = <<>> /\ outstanding' = <<>>
        /\ requests' = Report(Listed, "Dropped")
    BY <1>8 DEF FinishRemove, Listed
  <2>2. \A id \in IdsOf(batch) \cup IdsOf(pendingTasks) : requests'[id] = requests[id]
    BY <1>0, <2>1, CustodyInParts DEF FourPlaces, Report, Listed
  <2>3. Listed' = {} /\ Once(backlog') /\ Once(outstanding')
        /\ ToSet(backlog') \cap ToSet(outstanding') = {}
    BY <2>1, NoItems DEF Listed
  <2> QED BY <2>1, <2>2, <2>3, TasksIds, CustodyOfUnlocks
<1> QED BY <1>1, <1>2, <1>3, <1>4, <1>5, <1>6, <1>7, <1>8, Steps

-----------------------------------------------------------------------------
\* The lifetime of the handlers.

LEMMA HandlersStep ==
  ASSUME [Next]_vars
  PROVE  UNCHANGED handlers \/ Install \/ CancelPending \/ FinishRemove
<1>1. CASE Leaves
  BY <1>1 DEF Leaves, LoadSave, LoadWritesRespect, FinishLoading, ChangeControl, BeginLevel,
     RestartLevel, GameAwardsRespect, WeatherTick, GameGivesReward, StartFrame, RunRelease,
     RunReset, RunReapply, ObserveLoads, ResetState, UpdateUnlockable, UpdateLua, vars
<1>2. CASE GameProcessesUnlock \/ RunsItems \/ RunUnlockableItem \/ RunFlush \/ Handles
  BY <1>2 DEF RunsItems, Handles, Handle, GameProcessesUnlock, RunStaleItem, RunSimpleItem,
     RunWeaponItem, RunRespectItem, RunLuaItem, RunWeatherItem, RunUnlockableItem, RunFlush
<1> QED BY <1>1, <1>2, Steps

\* The steps that change the permission or the flag of the checkpoint.
LEMMA PermitStep ==
  ASSUME [Next]_vars
  PROVE  UNCHANGED permitted \/ LoadSave \/ LoadWritesRespect \/ RestartLevel \/ FinishRemove
<1>1. CASE Leaves
  BY <1>1 DEF Leaves, FinishLoading, ChangeControl, BeginLevel,
     GameAwardsRespect, WeatherTick, GameGivesReward, StartFrame, RunRelease,
     RunReset, RunReapply, Install, ObserveLoads, ResetState, UpdateUnlockable, UpdateLua, vars
<1>2. CASE GameProcessesUnlock \/ RunsItems \/ RunUnlockableItem \/ RunFlush \/ Handles \/ CancelPending
  BY <1>2 DEF RunsItems, Handles, Handle, GameProcessesUnlock, RunStaleItem, RunSimpleItem,
     RunWeaponItem, RunRespectItem, RunLuaItem, RunWeatherItem, RunUnlockableItem, RunFlush,
     CancelPending
<1> QED BY <1>1, <1>2, Steps

LEMMA RestoredStep ==
  ASSUME [Next]_vars
  PROVE  \/ UNCHANGED checkpointRestored
         \/ RestartLevel \/ RunReset \/ RunReapply \/ UpdateLua \/ FinishRemove
<1>1. CASE Leaves
  BY <1>1 DEF Leaves, LoadSave, LoadWritesRespect, FinishLoading, ChangeControl, BeginLevel,
     GameAwardsRespect, WeatherTick, GameGivesReward, StartFrame, RunRelease,
     Install, ObserveLoads, ResetState, UpdateUnlockable, vars
<1>2. CASE GameProcessesUnlock \/ RunsItems \/ RunUnlockableItem \/ RunFlush \/ Handles \/ CancelPending
  BY <1>2 DEF RunsItems, Handles, Handle, GameProcessesUnlock, RunStaleItem, RunSimpleItem,
     RunWeaponItem, RunRespectItem, RunLuaItem, RunWeatherItem, RunUnlockableItem, RunFlush,
     CancelPending
<1> QED BY <1>1, <1>2, Steps

\* A frame that has taken only releases runs nothing else.
LEMMA OnlyReleaseRuns ==
  ASSUME QueueOK, OnlyRelease(batch)
  PROVE  /\ ~RunsItems /\ ~RunUnlockableItem /\ ~RunFlush /\ ~RunReset /\ ~RunReapply
         /\ Takes => OnlyRelease(batch')
<1>1. \A kind : Runs(kind) => kind = "Release"
  BY TakeTask DEF Runs, Draining, OnlyRelease, QueueOK
<1>2. ~Runs("Item") /\ ~Runs("Flush") /\ ~Runs("Reset") /\ ~Runs("Reapply")
  BY <1>1
<1>3. ~RunsItems /\ ~RunUnlockableItem /\ ~RunFlush /\ ~RunReset /\ ~RunReapply
  BY <1>2 DEF RunsItems, RunStaleItem, RunSimpleItem, RunWeaponItem, RunRespectItem, RunLuaItem,
     RunWeatherItem, RunUnlockableItem, RunFlush, RunReset, RunReapply, RunsItem
<1>4. ASSUME Takes PROVE OnlyRelease(batch')
  BY <1>4, TakeTask DEF Takes, OnlyRelease, QueueOK
<1> QED BY <1>3, <1>4

LEMMA OnlyReleaseQueued ==
  ASSUME QueueOK, OnlyRelease(pendingTasks), TasksMove, handlers # "Yes"
  PROVE  OnlyRelease(pendingTasks')
<1>1. CASE UNCHANGED taskVars BY <1>1
<1>2. CASE StartFrame BY <1>2 DEF StartFrame, OnlyRelease
<1>3. CASE Takes
  <2>1. ASSUME NEW task \in TaskRecords, task.kind = "Release", pendingTasks' = Append(pendingTasks, task)
        PROVE  OnlyRelease(pendingTasks')
    <3>1. pendingTasks \in Seq(TaskRecords)
      BY DEF QueueOK
    <3> DEFINE q == Append(pendingTasks, task)
    <3>2. /\ DOMAIN q = DOMAIN pendingTasks \cup {Len(pendingTasks) + 1}
          /\ q[Len(pendingTasks) + 1] = task /\ \A i \in DOMAIN pendingTasks : q[i] = pendingTasks[i]
      BY <3>1, AddTask
    <3> HIDE DEF q
    <3>3. OnlyRelease(q)
      BY <2>1, <3>2 DEF OnlyRelease
    <3> QED BY <2>1, <3>3 DEF q
  <2> QED BY <1>3, <2>1 DEF Takes
<1> QED BY <1>1, <1>2, <1>3 DEF TasksMove, Queues, CancelPending

LEMMA LifetimeStep ==
  ASSUME QueueOK, Custody, WorldInv, AllowancesArePaidFor, GameOK, LifetimeInv, TasksMove,
         [Next]_vars
  PROVE  LifetimeInv'
<1>1. CASE Install
  BY <1>1 DEF Install, LifetimeInv
<1>2. CASE CancelPending
  BY <1>2 DEF CancelPending, LifetimeInv, OnlyRelease
<1>3. CASE FinishRemove
  BY <1>3 DEF FinishRemove, LifetimeInv, OnlyRelease, BatchIsOver, Draining
<1>4. CASE UNCHANGED handlers
  <2>1. handlers' # "Yes" => OnlyRelease(pendingTasks')
    BY <1>4, OnlyReleaseQueued DEF LifetimeInv
  <2>2. ASSUME handlers' \in {"No", "Gone"}
        PROVE  OnlyRelease(batch') /\ backlog' = <<>> /\ outstanding' = <<>>
               /\ ~permitted' /\ ~checkpointRestored'
    <3>1. /\ OnlyRelease(pendingTasks) /\ OnlyRelease(batch) /\ backlog = <<>> /\ outstanding = <<>>
          /\ ~permitted /\ ~checkpointRestored /\ handlers \in {"No", "Gone"}
      BY <1>4, <2>2 DEF LifetimeInv
    <3>2. \A handler : ~Has(handler)
      BY <3>1 DEF Has, Installed
    <3>3. OnlyRelease(batch')
      <4>1. CASE UNCHANGED taskVars BY <3>1, <4>1
      <4>2. CASE StartFrame BY <3>1, <4>2 DEF StartFrame
      <4>3. CASE Takes BY <3>1, <4>3, OnlyReleaseRuns
      <4> QED BY <3>1, <4>1, <4>2, <4>3 DEF TasksMove, Queues, CancelPending
    <3>4. ~RunsItems /\ ~RunUnlockableItem /\ ~RunFlush /\ ~RunReset /\ ~RunReapply
      BY <3>1, OnlyReleaseRuns
    <3>5. backlog' = <<>> /\ outstanding' = <<>>
      <4>1. CASE KeepsUnlocks
        BY <3>1, <4>1, UnlocksLeft
      <4>2. CASE GameProcessesUnlock
        BY <3>1, <3>2, <4>2 DEF GameProcessesUnlock, Paid
      <4>3. CASE FinishRemove
        BY <4>3 DEF FinishRemove
      <4> QED BY <3>4, <4>1, <4>2, <4>3, Steps DEF KeepsUnlocks
    <3>6. ~permitted'
      <4>1. CASE LoadSave \/ LoadWritesRespect \/ RestartLevel
        BY <3>1, <3>2, <4>1, Zenon DEF LoadSave, LoadWritesRespect, RestartLevel, UsePermit
      <4>2. CASE FinishRemove BY <4>2 DEF FinishRemove
      <4> QED BY <3>1, <4>1, <4>2, PermitStep
    <3>7. ~checkpointRestored'
      <4>1. CASE RestartLevel
        BY <3>1, <3>2, <4>1, Zenon DEF RestartLevel
      <4>2. CASE FinishRemove \/ UpdateLua BY <4>2 DEF FinishRemove, UpdateLua
      <4> QED BY <3>1, <3>4, <4>1, <4>2, RestoredStep
    <3> QED BY <3>3, <3>5, <3>6, <3>7
  <2> QED BY <2>1, <2>2 DEF LifetimeInv
<1> QED BY <1>1, <1>2, <1>3, <1>4, HandlersStep

-----------------------------------------------------------------------------
\* The world the unlocks are of, and the allowances made for them.

\* The mode changes with a load, at its end, and with the player's control.
LEMMA ModeStep ==
  ASSUME [Next]_vars
  PROVE  \/ UNCHANGED <<mode, live>> /\ (UNCHANGED respectDue \/ LoadWritesRespect)
         \/ LoadSave \/ FinishLoading \/ ChangeControl \/ RestartLevel
<1>1. CASE Leaves
  BY <1>1 DEF Leaves, LoadWritesRespect, BeginLevel,
     GameAwardsRespect, WeatherTick, GameGivesReward, StartFrame, RunRelease,
     RunReset, RunReapply, Install, ObserveLoads, ResetState, UpdateUnlockable, UpdateLua, vars
<1>2. CASE GameProcessesUnlock \/ RunsItems \/ RunUnlockableItem \/ RunFlush \/ Handles
           \/ CancelPending \/ FinishRemove
  BY <1>2 DEF RunsItems, Handles, Handle, GameProcessesUnlock, RunStaleItem, RunSimpleItem,
     RunWeaponItem, RunRespectItem, RunLuaItem, RunWeatherItem, RunUnlockableItem, RunFlush,
     CancelPending, FinishRemove
<1> QED BY <1>1, <1>2, Steps

LEMMA WorldStep ==
  ASSUME GameOK, QueueOK, RequestInv, Custody, WorldInv, AllowancesArePaidFor, ItemsMove,
         [Next]_vars
  PROVE  WorldInv'
<1>0. \A id \in Listed : id \in Ids /\ requests'[id].epoch = requests[id].epoch
  BY ItemsKept, CustodyInParts DEF Held
<1>1. CASE LoadSave
  <2>1. Listed' = Listed /\ live' = live + 1 /\ mode' = "Loading" /\ nativeQueue' = <<>>
    BY <1>1 DEF LoadSave, Listed
  <2>2. \A id \in Ids : requests[id].epoch # live + 1
    BY ItemHandlersAssumption DEF RequestInv, GameOK
  <2> QED BY <1>0, <2>1, <2>2 DEF WorldInv, IsCurrent
<1>2. CASE FinishLoading
  <2>1. UNCHANGED <<backlog, outstanding, live, requests>> /\ mode' = "Ready" /\ respectDue' = "No"
    BY <1>2 DEF FinishLoading
  <2>2. \A id \in Listed : IsCurrent(id)
    BY <1>2 DEF FinishLoading, Stale, Listed, ToSet
  <2> QED BY <2>1, <2>2 DEF WorldInv, IsCurrent, Listed
<1>3. CASE ChangeControl
  BY <1>3 DEF ChangeControl, WorldInv, IsCurrent, Listed
<1>4. CASE RestartLevel
  BY <1>4 DEF RestartLevel, WorldInv, IsCurrent, Listed
<1>5. CASE LoadWritesRespect
  BY <1>5 DEF LoadWritesRespect, WorldInv, IsCurrent, Listed
<1>6. CASE UNCHANGED <<mode, live, respectDue>>
  <2>1. CASE KeepsUnlocks /\ ~LoadSave
    <3>1. Listed' = Listed
      BY <2>1, UnlocksLeft DEF Listed
    <3>2. CASE nativeQueue' = nativeQueue
      BY <1>0, <1>6, <3>1, <3>2 DEF WorldInv, IsCurrent
    <3>3. CASE \E hash \in Unlocks : GameGivesReward(hash)
      BY <1>0, <1>6, <3>1, <3>3 DEF GameGivesReward, WorldInv, IsCurrent
    <3> QED BY <2>1, <3>2, <3>3, UnlocksLeft
  <2>2. CASE GameProcessesUnlock
    <3>1. Playable
      BY <2>2 DEF GameProcessesUnlock, WorldInv, Playable
    <3>2. ToSet(outstanding') \subseteq ToSet(outstanding)
      BY <2>2, ProcessedUnlock, RemoveEntry DEF QueueOK, Custody
    <3>3. Listed' \subseteq Listed
      BY <2>2, <3>2 DEF GameProcessesUnlock, Listed
    <3> QED BY <1>0, <1>6, <3>1, <3>3 DEF WorldInv, IsCurrent, Playable
  <2>3. ASSUME NEW log, FlushOf(log) PROVE WorldInv'
    <3>1. /\ Listed' \subseteq ToSet(log) \cup ToSet(outstanding)
          /\ ~Playable => Listed' = {} /\ nativeQueue' = nativeQueue
      BY <2>3 DEF FlushOf, Flushed, Listed
    <3>2. \A id \in ToSet(log) : id \in Ids /\ (Playable => IsCurrent(id))
      BY <2>3 DEF FlushOf, Flushable, ToSet
    <3>3. \A id \in ToSet(outstanding) : id \in Ids /\ (Playable => IsCurrent(id))
      BY <1>0 DEF WorldInv, Listed, Playable
    <3>4. \A id \in Ids : requests'[id].epoch = requests[id].epoch
      BY ItemsKept
    <3> QED BY <1>6, <3>1, <3>2, <3>3, <3>4 DEF WorldInv, IsCurrent, Playable
  <2>4. CASE RunFlush \/ RunUnlockableItem
    BY <2>3, <2>4, FlushLemma
  <2>5. CASE FinishRemove
    <3>1. Listed' = {} /\ nativeQueue' = nativeQueue
      BY <2>5, NoItems DEF FinishRemove, Listed
    <3> QED BY <1>6, <3>1 DEF WorldInv
  <2>6. CASE LoadSave
    BY <1>1, <2>6
  <2> QED BY <2>1, <2>2, <2>4, <2>5, <2>6, Steps DEF KeepsUnlocks
<1> QED BY <1>1, <1>2, <1>3, <1>4, <1>5, <1>6, ModeStep

\* An allowance that is used goes with the item it was made for.
LEMMA PaidStep ==
  ASSUME GameOK, QueueOK, RequestInv, Custody, WorldInv, AllowancesArePaidFor, ItemsMove,
         [Next]_vars
  PROVE  AllowancesArePaidFor'
<1>0. \A id \in Ids : requests'[id].item = requests[id].item
  BY ItemsKept
<1>1. ASSUME NEW s \in Seq(Ids), NEW hash
      PROVE  {i \in DOMAIN s : requests'[s[i]].item = hash} = {i \in DOMAIN s : requests[s[i]].item = hash}
  <2>1. \A i \in DOMAIN s : s[i] \in Ids
    OBVIOUS
  <2> QED BY <1>0, <2>1
<1>2. outstanding \in Seq(Ids) /\ allowances \in [Unlocks -> Nat]
  BY DEF QueueOK
<1>3. ~stray /\ \A hash \in Unlocks : allowances[hash] = CountOf(hash, outstanding)
  BY DEF AllowancesArePaidFor, For, CountOf
<1>4. ASSUME outstanding' \in Seq(Ids), ~stray',
             \A hash \in Unlocks : allowances'[hash] = CountOf(hash, outstanding')
      PROVE  AllowancesArePaidFor'
  <2>1. \A hash \in Unlocks : {i \in DOMAIN outstanding' : requests'[outstanding'[i]].item = hash}
                                = {i \in DOMAIN outstanding' : requests[outstanding'[i]].item = hash}
    BY <1>1, <1>4
  <2> QED BY <1>4, <2>1 DEF AllowancesArePaidFor, For, CountOf
<1>5. CASE KeepsUnlocks
  <2>1. outstanding' = outstanding /\ allowances' = allowances /\ stray' = stray
    BY <1>5, UnlocksLeft
  <2>2. \A hash : CountOf(hash, outstanding') = CountOf(hash, outstanding)
    BY <2>1 DEF CountOf
  <2> QED BY <1>2, <1>3, <1>4, <2>1, <2>2
<1>6. CASE GameProcessesUnlock
  <2>1. CASE UNCHANGED <<outstanding, allowances, stray>>
    <3>1. \A hash : CountOf(hash, outstanding') = CountOf(hash, outstanding)
      BY <2>1 DEF CountOf
    <3> QED BY <1>2, <1>3, <1>4, <2>1, <3>1
  <2>2. CASE /\ Hash \in Unlocks
             /\ allowances' = [allowances EXCEPT ![Hash] = allowances[Hash] - 1]
             /\ Min(For(Hash)) \in For(Hash) /\ Min(For(Hash)) \in 1..Len(outstanding)
             /\ outstanding' = RemoveAt(outstanding, Min(For(Hash)))
             /\ ~stray'
    <3> DEFINE first == Min(For(Hash))
               after == RemoveAt(outstanding, first)
    <3>1. first \in For(Hash) /\ first \in 1..Len(outstanding) /\ outstanding' = after
          /\ outstanding[first] \in Ids
      BY <1>2, <2>2
    <3> HIDE DEF first
    <3>2. requests[outstanding[first]].item = Hash
      BY <3>1 DEF For
    <3>3. after \in Seq(Ids)
      BY <1>2, <3>1, RemoveAtLemma
    <3>4. ASSUME NEW hash \in Unlocks PROVE allowances'[hash] = CountOf(hash, after)
      <4>1. /\ CountOf(hash, outstanding) = Cardinality(Places(outstanding, Carrying(hash)))
            /\ Cardinality(Places(outstanding, Carrying(hash))) \in Nat
        BY <1>2, CountedPlaces, PlacesFinite
      <4>2. Cardinality(Places(after, Carrying(hash)))
              = IF outstanding[first] \in Carrying(hash)
                THEN Cardinality(Places(outstanding, Carrying(hash))) - 1
                ELSE Cardinality(Places(outstanding, Carrying(hash)))
        BY <1>2, <3>1, RemoveCount
      <4>3. outstanding[first] \in Carrying(hash) <=> hash = Hash
        BY <3>1, <3>2 DEF Carrying
      <4> HIDE DEF after
      <4>4. CountOf(hash, after) = Cardinality(Places(after, Carrying(hash)))
        BY <3>3, CountedPlaces
      <4>5. allowances'[hash] = IF hash = Hash THEN allowances[hash] - 1 ELSE allowances[hash]
        BY <1>2, <2>2
      <4> QED BY <1>3, <4>1, <4>2, <4>3, <4>4, <4>5
    <3> HIDE DEF after
    <3> QED BY <1>4, <2>2, <3>1, <3>3, <3>4
  <2> QED BY <1>6, <2>1, <2>2, ProcessedUnlock
<1>7. CASE RunFlush \/ RunUnlockableItem
  <2>1. ~stray'
    BY <1>3, <1>7 DEF RunFlush, RunUnlockableItem
  <2> QED BY <1>4, <1>7, <2>1, FlushLemma DEF FlushOf, Flushed
<1>8. CASE FinishRemove
  <2>1. outstanding' = <<>> /\ stray' = stray /\ allowances' = [hash \in Unlocks |-> 0]
    BY <1>8 DEF FinishRemove
  <2>2. outstanding' \in Seq(Ids) /\ \A hash : CountOf(hash, outstanding') = 0
    BY <2>1, FS_EmptySet DEF CountOf
  <2> QED BY <1>3, <1>4, <2>1, <2>2
<1> QED BY <1>5, <1>6, <1>7, <1>8, Steps DEF KeepsUnlocks

-----------------------------------------------------------------------------
\* Resets and what was applied.

\* No step but the one that carries it out makes an activity applied, and a new
\* world begins with none.
LEMMA LuaAppliedBefore ==
  ASSUME GameOK, QueueOK, RequestInv, Custody, WorldInv, AllowancesArePaidFor, ItemsMove,
         [Next]_vars, NEW id \in Ids', LuaApplied(id)'
  PROVE  /\ id \in Ids /\ live' = live
         /\ requests'[id].item = requests[id].item /\ requests'[id].handler = requests[id].handler
         /\ requests[id].epoch = live
         /\ \/ LuaApplied(id)
            \/ /\ RunLuaItem /\ id = Id /\ requests' # Report({Id}, "False")
<1>1. requests'[id].handler = "Lua" /\ requests'[id].outcome = "True" /\ requests'[id].epoch = live'
  BY DEF LuaApplied, IsCurrent
<1>2. id \in Ids
  BY <1>1, ItemsKept DEF Adds
<1>3. /\ requests'[id].item = requests[id].item /\ requests'[id].handler = requests[id].handler
      /\ requests'[id].epoch = requests[id].epoch
  BY <1>2, ItemsKept
<1>4. live' = live
  <2>1. CASE LoadSave
    <3>1. live \in Nat /\ live' = live + 1 /\ observed \in 0..live
      BY <2>1, ItemHandlersAssumption DEF LoadSave, GameOK
    <3>2. requests[id].epoch \in 1..observed
      BY <1>2 DEF RequestInv
    <3>3. requests[id].epoch # live + 1
      BY <3>1, <3>2
    <3> QED BY <1>1, <1>3, <3>1, <3>3
  <2>2. ~LoadSave => live' = live
    BY ModeStep DEF FinishLoading, ChangeControl, RestartLevel
  <2> QED BY <2>1, <2>2
<1>5. \/ LuaApplied(id)
      \/ RunLuaItem /\ id = Id /\ requests' # Report({Id}, "False")
  <2>1. CASE requests[id].outcome = "True"
    BY <1>1, <1>3, <1>4, <2>1 DEF LuaApplied, IsCurrent
  <2>2. CASE requests[id].outcome # "True"
    <3>1. requests'[id].outcome # requests[id].outcome
      BY <1>1, <2>2
    <3>2. CASE RunsItems
      <4>1. id = Id /\ Runs("Item")
        BY <1>2, <3>1, <3>2, RunItem DEF RunsItems
      <4>2. Completes(Id) /\ ~RunStaleItem
        BY <1>1, <1>2, <3>1, <3>2, <4>1, RunItem DEF RunsItems, Reports
      <4>3. RunLuaItem
        BY <1>1, <1>3, <3>2, <4>1, <4>2 DEF RunsItems, RunSimpleItem, RunWeaponItem, RunRespectItem,
           RunWeatherItem, RunsItem, Untold
      <4>4. requests' # Report({Id}, "False")
        <5>1. ASSUME requests' = Report({Id}, "False") PROVE FALSE
          <6>1. Reports
            BY <5>1, ReportReports
          <6> QED BY <1>1, <1>2, <3>1, <6>1 DEF Reports
        <5> QED BY <5>1
      <4> QED BY <4>1, <4>3, <4>4
    <3>3. CASE GameProcessesUnlock
      <4>1. requests' = requests \/ (Completes(outstanding[Min(For(Hash))])
                                     /\ outstanding[Min(For(Hash))] \in Listed)
        BY <3>3, ProcessedUnlock DEF Listed
      <4>2. Completes(outstanding[Min(For(Hash))]) /\ outstanding[Min(For(Hash))] \in Listed
        BY <3>1, <4>1
      <4>3. id = outstanding[Min(For(Hash))]
        BY <1>2, <3>1, <4>2 DEF Completes
      <4>4. requests[id].handler = "Unlockable"
        BY <4>2, <4>3, CustodyInParts
      <4> QED BY <1>1, <1>3, <4>4
    <3>4. Leaves => requests' = requests
      BY LeavesItems
    <3>5. CASE Reports
      BY <1>1, <1>2, <3>1, <3>5 DEF Reports
    <3>6. CASE Adds
      BY <1>2, <3>1, <3>6 DEF Adds
    <3>7. RunFlush \/ RunUnlockableItem => Reports
      BY FlushReports DEF RunFlush, RunUnlockableItem, Reports
    <3>8. CancelPending \/ FinishRemove => Reports
      BY ReportReports DEF CancelPending, FinishRemove
    <3>9. Handles => Adds
      BY HandleAdds DEF Handles
    <3> QED BY <3>1, <3>2, <3>3, <3>4, <3>5, <3>6, <3>7, <3>8, <3>9, Steps
  <2> QED BY <2>1, <2>2
<1> QED BY <1>1, <1>2, <1>3, <1>4, <1>5

\* Resets and the items of this world, in the order of a queue.
CurrentIds == {id \in Ids : IsCurrent(id)}
CurrentIn(q, C) == {i \in ItemTasks(q) : q[i].id \in C}
InOrder(q, C) == \A i \in Resets(q) : \A j \in CurrentIn(q, C) : i < j
BothInOrder(b, p, C) ==
  InOrder(b, C) /\ InOrder(p, C) /\ (Resets(p) # {} => CurrentIn(b, C) = {})

LEMMA ResetInParts ==
  ASSUME Custody
  PROVE  ResetInv <=> /\ BothInOrder(batch, pendingTasks, CurrentIds)
                      /\ Resets(batch) # {} \/ Resets(pendingTasks) # {} =>
                           \A id \in Ids : ~LuaApplied(id)
<1>1. (\A i \in ItemTasks(batch) : batch[i].id \in Ids)
      /\ (\A i \in ItemTasks(pendingTasks) : pendingTasks[i].id \in Ids)
  BY CustodyInParts DEF IdsOf, Held
<1>2. Current(batch) = CurrentIn(batch, CurrentIds)
      /\ Current(pendingTasks) = CurrentIn(pendingTasks, CurrentIds)
  BY <1>1 DEF Current, CurrentIn, CurrentIds
<1> QED BY <1>2 DEF ResetInv, BothInOrder, InOrder

LEMMA ResetInPartsAfter ==
  ASSUME Custody'
  PROVE  ResetInv' <=> /\ BothInOrder(batch', pendingTasks', CurrentIds')
                       /\ Resets(batch') # {} \/ Resets(pendingTasks') # {} =>
                            \A id \in Ids' : ~LuaApplied(id)'
<1>1. (\A i \in ItemTasks(batch') : batch'[i].id \in Ids')
      /\ (\A i \in ItemTasks(pendingTasks') : pendingTasks'[i].id \in Ids')
  BY CustodyInParts DEF IdsOf, Held
<1>2. Current(batch)' = CurrentIn(batch', CurrentIds')
      /\ Current(pendingTasks)' = CurrentIn(pendingTasks', CurrentIds')
  BY <1>1 DEF Current, CurrentIn, CurrentIds
<1> QED BY <1>2 DEF ResetInv, BothInOrder, InOrder

LEMMA EmptyInOrder ==
  ASSUME NEW C
  PROVE  Resets(<<>>) = {} /\ CurrentIn(<<>>, C) = {}
BY DEF Resets, CurrentIn, ItemTasks

\* What is of this world after a step was so before, or is new.
LEMMA FewerCurrent ==
  ASSUME NEW q, NEW C, NEW D, IdsOf(q) \cap D \subseteq C
  PROVE  CurrentIn(q, D) \subseteq CurrentIn(q, C) /\ (InOrder(q, C) => InOrder(q, D))
<1>1. CurrentIn(q, D) \subseteq CurrentIn(q, C)
  BY DEF CurrentIn, IdsOf
<1> QED BY <1>1 DEF InOrder

LEMMA TailInOrder ==
  ASSUME NEW q \in Seq(TaskRecords), q # <<>>, NEW C, InOrder(q, C)
  PROVE  /\ InOrder(Tail(q), C)
         /\ Resets(Tail(q)) # {} => Resets(q) # {}
         /\ CurrentIn(Tail(q), C) # {} => CurrentIn(q, C) # {}
<1>1. /\ \A i \in Resets(Tail(q)) : i \in Nat /\ i + 1 \in Resets(q)
      /\ \A i \in CurrentIn(Tail(q), C) : i \in Nat /\ i + 1 \in CurrentIn(q, C)
  BY TakeTask DEF Resets, CurrentIn, ItemTasks
<1>2. ASSUME NEW i \in Resets(Tail(q)), NEW j \in CurrentIn(Tail(q), C)
      PROVE  i < j
  <2>1. i \in Nat /\ j \in Nat /\ i + 1 < j + 1
    BY <1>1 DEF InOrder
  <2> QED BY <2>1
<1>3. InOrder(Tail(q), C)
  BY <1>2 DEF InOrder
<1> QED BY <1>1, <1>3

LEMMA AppendInOrder ==
  ASSUME NEW q \in Seq(TaskRecords), NEW task \in TaskRecords, NEW C, InOrder(q, C),
         task.kind = "Reset" => CurrentIn(q, C) = {}
  PROVE  /\ InOrder(Append(q, task), C)
         /\ task.kind # "Reset" => Resets(Append(q, task)) = Resets(q)
<1> DEFINE r == Append(q, task)
           n == Len(q) + 1
<1>1. /\ DOMAIN r = DOMAIN q \cup {n} /\ r[n] = task
      /\ \A i \in DOMAIN q : i \in Nat /\ i < n /\ r[i] = q[i]
  BY AddTask
<1> HIDE DEF r, n
<1>2. /\ \A i \in Resets(r) : i \in Resets(q) \/ (i = n /\ task.kind = "Reset")
      /\ \A j \in CurrentIn(r, C) : j \in CurrentIn(q, C) \/ (j = n /\ task.kind = "Item")
      /\ \A i \in Resets(q) : i \in Resets(r) /\ i < n
  BY <1>1 DEF Resets, CurrentIn, ItemTasks
<1>3. ASSUME NEW i \in Resets(r), NEW j \in CurrentIn(r, C)
      PROVE  i < j
  <2>1. CASE task.kind = "Reset"
    BY <1>2, <2>1
  <2>2. CASE task.kind # "Reset"
    BY <1>2, <2>2 DEF InOrder
  <2> QED BY <2>1, <2>2
<1>4. InOrder(r, C)
  BY <1>3 DEF InOrder
<1>5. task.kind # "Reset" => Resets(r) = Resets(q)
  BY <1>2
<1> QED BY <1>4, <1>5 DEF r

\* A reset is only asked for in a world nothing was handed out in.
LEMMA NothingCurrent ==
  ASSUME GameOK, QueueOK, RequestInv, handlers = "Yes", resetEpoch # observed
  PROVE  CurrentIds = {} /\ \A id \in Ids : ~LuaApplied(id)
<1>1. ASSUME NEW id \in Ids PROVE ~IsCurrent(id)
  <2>1. requests[id].epoch \in 1..observed /\ requests[id].epoch # observed
    BY DEF RequestInv
  <2>2. observed \in 0..live /\ live \in Nat
    BY ItemHandlersAssumption DEF GameOK
  <2> QED BY <2>1, <2>2 DEF IsCurrent
<1> QED BY <1>1 DEF CurrentIds, LuaApplied

\* The activity a frame applies is the first task of its batch, with no reset before it.
LEMMA AppliesAfterResets ==
  ASSUME QueueOK, Custody, ResetInv, RunLuaItem
  PROVE  Resets(batch) = {} /\ Resets(pendingTasks) = {}
<1>1. Runs("Item") /\ IsCurrent(Id)
  BY DEF RunLuaItem, RunsItem, CanApply
<1>2. 1 \in CurrentIn(batch, CurrentIds)
  <2>1. Id \in CurrentIds
    BY <1>1, ItemAtHand DEF CurrentIds
  <2> QED BY <1>1, <2>1, TakeTask DEF CurrentIn, ItemTasks, Runs, Draining, Id, QueueOK
<1>3. \A i \in Resets(batch) : i \in Nat /\ i # 0
  BY DEF Resets, QueueOK
<1>4. \A i \in Resets(batch) : i < 1
  BY <1>2, ResetInParts DEF BothInOrder, InOrder
<1>5. Resets(batch) = {}
  BY <1>3, <1>4
<1> QED BY <1>2, <1>5, ResetInParts DEF BothInOrder

LEMMA ResetStep ==
  ASSUME GameOK, QueueOK, RequestInv, Custody, WorldInv, AllowancesArePaidFor, ResetInv,
         ItemsMove, TasksMove, Custody', [Next]_vars
  PROVE  ResetInv'
<1> DEFINE C == CurrentIds
           D == CurrentIds'
<1>1. D \cap Ids \subseteq C
  <2>1. CASE LoadSave
    <3>1. live \in Nat /\ live' = live + 1 /\ observed \in 0..live
      BY <2>1, ItemHandlersAssumption DEF LoadSave, GameOK
    <3>2. \A id \in Ids : requests[id].epoch # live + 1
      BY <3>1 DEF RequestInv
    <3> QED BY <3>1, <3>2, ItemsKept DEF CurrentIds, IsCurrent
  <2>2. ~LoadSave => live' = live
    BY ModeStep DEF FinishLoading, ChangeControl, RestartLevel
  <2> QED BY <2>1, <2>2, ItemsKept DEF CurrentIds, IsCurrent
<1>2. IdsOf(batch) \subseteq Ids /\ IdsOf(pendingTasks) \subseteq Ids
  BY CustodyInParts DEF Held
<1>3. BothInOrder(batch, pendingTasks, C)
  BY ResetInParts
<1>4. batch \in Seq(TaskRecords) /\ pendingTasks \in Seq(TaskRecords)
  BY DEF QueueOK
<1> HIDE DEF C, D
<1>5. BothInOrder(batch, pendingTasks, D)
  <2>1. IdsOf(batch) \cap D \subseteq C /\ IdsOf(pendingTasks) \cap D \subseteq C
    BY <1>1, <1>2
  <2> QED BY <1>3, <2>1, FewerCurrent DEF BothInOrder
<1>6. /\ BothInOrder(batch', pendingTasks', D)
      /\ Resets(batch') # {} \/ Resets(pendingTasks') # {} =>
           \/ Resets(batch) # {} \/ Resets(pendingTasks) # {}
           \/ handlers = "Yes" /\ resetEpoch # observed
  <2>1. CASE UNCHANGED taskVars
    BY <1>5, <2>1
  <2>2. CASE StartFrame
    <3>1. batch' = pendingTasks /\ pendingTasks' = <<>>
      BY <2>2 DEF StartFrame
    <3> QED BY <1>5, <3>1, EmptyInOrder DEF BothInOrder, InOrder
  <2>3. CASE Takes
    <3>1. /\ InOrder(batch', D)
          /\ Resets(batch') # {} => Resets(batch) # {}
          /\ CurrentIn(batch', D) # {} => CurrentIn(batch, D) # {}
      BY <1>4, <1>5, <2>3, TailInOrder DEF Takes, BothInOrder
    <3>2. InOrder(pendingTasks', D) /\ Resets(pendingTasks') = Resets(pendingTasks)
      <4>1. CASE pendingTasks' = pendingTasks
        BY <1>5, <4>1 DEF BothInOrder
      <4>2. ASSUME NEW task \in TaskRecords, task.kind = "Release", pendingTasks' = Append(pendingTasks, task)
            PROVE  InOrder(pendingTasks', D) /\ Resets(pendingTasks') = Resets(pendingTasks)
        <5>1. task.kind # "Reset" /\ InOrder(pendingTasks, D)
          BY <1>5, <4>2 DEF BothInOrder
        <5> QED BY <1>4, <4>2, <5>1, AppendInOrder
      <4> QED BY <2>3, <4>1, <4>2 DEF Takes
    <3>3. Resets(pendingTasks) # {} => CurrentIn(batch, D) = {}
      BY <1>5 DEF BothInOrder
    <3>4. BothInOrder(batch', pendingTasks', D)
      BY <3>1, <3>2, <3>3 DEF BothInOrder
    <3> QED BY <3>1, <3>2, <3>4
  <2>4. ASSUME NEW task \in TaskRecords, Queues(task),
               task.kind = "Reset" => resetEpoch # observed
        PROVE  /\ BothInOrder(batch', pendingTasks', D)
               /\ Resets(batch') # {} \/ Resets(pendingTasks') # {} =>
                    \/ Resets(batch) # {} \/ Resets(pendingTasks) # {}
                    \/ handlers = "Yes" /\ resetEpoch # observed
    <3>1. batch' = batch /\ pendingTasks' = Append(pendingTasks, task) /\ handlers = "Yes"
      BY <2>4 DEF Queues
    <3>2. task.kind = "Reset" => CurrentIn(pendingTasks, D) = {} /\ CurrentIn(batch, D) = {}
      <4>1. ASSUME task.kind = "Reset" PROVE C = {}
        BY <2>4, <3>1, <4>1, NothingCurrent DEF C
      <4>2. ASSUME C = {} PROVE CurrentIn(pendingTasks, D) = {} /\ CurrentIn(batch, D) = {}
        BY <1>1, <1>2, <4>2 DEF CurrentIn, IdsOf
      <4> QED BY <4>1, <4>2
    <3>3. InOrder(Append(pendingTasks, task), D)
          /\ (task.kind # "Reset" => Resets(Append(pendingTasks, task)) = Resets(pendingTasks))
      BY <1>4, <1>5, <3>2, AppendInOrder DEF BothInOrder
    <3> QED BY <1>5, <2>4, <3>1, <3>2, <3>3 DEF BothInOrder
  <2>5. CASE CancelPending
    <3>1. batch' = batch /\ pendingTasks' = <<>>
      BY <2>5 DEF CancelPending
    <3> QED BY <1>5, <3>1, EmptyInOrder DEF BothInOrder, InOrder
  <2> QED BY <2>1, <2>2, <2>3, <2>4, <2>5 DEF TasksMove
<1>7. ASSUME Resets(batch') # {} \/ Resets(pendingTasks') # {}, NEW id \in Ids'
      PROVE  ~LuaApplied(id)'
  <2> SUFFICES ASSUME LuaApplied(id)' PROVE FALSE
    OBVIOUS
  <2>1. id \in Ids /\ (LuaApplied(id) \/ RunLuaItem)
    BY LuaAppliedBefore
  <2>2. CASE LuaApplied(id)
    BY <1>6, <1>7, <2>1, <2>2, ResetInParts, NothingCurrent
  <2>3. CASE RunLuaItem
    <3>1. Resets(batch) = {} /\ Resets(pendingTasks) = {}
      BY <2>3, AppliesAfterResets
    <3>2. Id \in CurrentIds
      BY <2>3, ItemAtHand DEF RunLuaItem, RunsItem, CanApply, CurrentIds
    <3> QED BY <1>6, <1>7, <3>1, <3>2, NothingCurrent
  <2> QED BY <2>1, <2>2, <2>3
<1> QED BY <1>6, <1>7, ResetInPartsAfter DEF D

-----------------------------------------------------------------------------
\* Activities that were applied.

\* A reapplication that is not under way was not, unless the step has carried it out.
Reapplies(q) == \E i \in DOMAIN q : q[i].kind = "Reapply"

LEMMA ReapplyingInParts ==
  /\ Reapplying <=> checkpointRestored \/ Reapplies(pendingTasks) \/ Reapplies(batch)
  /\ Reapplying' <=> checkpointRestored' \/ Reapplies(pendingTasks') \/ Reapplies(batch')
<1>1. ASSUME NEW p, NEW b
      PROVE  (\E task \in ToSet(p) \cup ToSet(b) : task.kind = "Reapply") <=> Reapplies(p) \/ Reapplies(b)
  BY DEF ToSet, Reapplies
<1> QED BY <1>1 DEF Reapplying

\* A step that takes a task from the batch is the one for its kind.
LEMMA TakesReapply ==
  ASSUME Takes, [Next]_vars, Head(batch).kind = "Reapply", QueueOK
  PROVE  RunReapply
<1>1. batch' # batch
  BY DEF Takes, QueueOK
<1>2. batch # <<>>
  BY DEF Takes
<1>3. \A kind : Runs(kind) => kind = "Reapply"
  BY DEF Runs
<1>4. ~Runs("Item") /\ ~Runs("Flush") /\ ~Runs("Reset") /\ ~Runs("Release")
  BY <1>3
<1>5. ~RunsItems /\ ~RunUnlockableItem /\ ~RunFlush /\ ~RunReset /\ ~RunRelease
  BY <1>4 DEF RunsItems, RunStaleItem, RunSimpleItem, RunWeaponItem, RunRespectItem, RunLuaItem,
     RunWeatherItem, RunUnlockableItem, RunFlush, RunReset, RunRelease, RunsItem
<1>6. CASE Leaves
  BY <1>1, <1>2, <1>5, <1>6 DEF Leaves, LoadSave, LoadWritesRespect, FinishLoading, ChangeControl, BeginLevel,
     RestartLevel, GameAwardsRespect, WeatherTick, GameGivesReward, StartFrame, Draining,
     Install, ObserveLoads, ResetState, UpdateUnlockable, UpdateLua, vars
<1>7. CASE GameProcessesUnlock \/ Handles \/ CancelPending \/ FinishRemove
  BY <1>1, <1>7 DEF GameProcessesUnlock, Handles, Handle, CancelPending, FinishRemove
<1> QED BY <1>5, <1>6, <1>7, Steps

LEMMA ReapplyStep ==
  ASSUME QueueOK, FlagOK, TasksMove, [Next]_vars, ~Reapplying', handlers' = "Yes"
  PROVE  ~Reapplying \/ RunReapply \/ RunReset
<1>1. ~checkpointRestored' /\ ~Reapplies(pendingTasks') /\ ~Reapplies(batch')
  BY ReapplyingInParts
<1>2. pendingTasks \in Seq(TaskRecords) /\ batch \in Seq(TaskRecords)
  BY DEF QueueOK
<1>3. Reapplies(pendingTasks) \/ Reapplies(batch) => RunReapply
  <2>1. CASE UNCHANGED taskVars
    BY <1>1, <2>1
  <2>2. CASE StartFrame
    BY <1>1, <2>2 DEF StartFrame, Draining, Reapplies
  <2>3. CASE Takes
    <3>1. ~Reapplies(pendingTasks)
      <4>1. CASE pendingTasks' = pendingTasks
        BY <1>1, <4>1
      <4>2. ASSUME NEW task \in TaskRecords, pendingTasks' = Append(pendingTasks, task)
            PROVE  ~Reapplies(pendingTasks)
        BY <1>1, <1>2, <4>2, AddTask DEF Reapplies
      <4> QED BY <2>3, <4>1, <4>2 DEF Takes
    <3>2. Reapplies(batch) => Head(batch).kind = "Reapply"
      <4>1. ASSUME NEW i \in DOMAIN batch, batch[i].kind = "Reapply", i # 1 PROVE FALSE
        <5>1. i - 1 \in DOMAIN Tail(batch) /\ Tail(batch)[i - 1] = batch[(i - 1) + 1] /\ i = (i - 1) + 1
          BY <1>2, <2>3, <4>1, TakeTask DEF Takes
        <5>2. batch' = Tail(batch) /\ Tail(batch)[i - 1].kind = "Reapply"
          BY <2>3, <4>1, <5>1 DEF Takes
        <5> QED BY <1>1, <5>1, <5>2 DEF Reapplies
      <4> QED BY <1>2, <2>3, <4>1, TakeTask DEF Takes, Reapplies
    <3>3. Head(batch).kind = "Reapply" => RunReapply
      BY <2>3, TakesReapply
    <3> QED BY <3>1, <3>2, <3>3
  <2>4. ASSUME NEW task \in TaskRecords, Queues(task) PROVE ~Reapplies(pendingTasks) /\ ~Reapplies(batch)
    BY <1>1, <1>2, <2>4, AddTask DEF Reapplies, Queues
  <2>5. ~CancelPending
    BY DEF CancelPending
  <2> QED BY <2>1, <2>2, <2>3, <2>4, <2>5 DEF TasksMove
<1>4. checkpointRestored => RunReapply \/ RunReset
  <2>1. UpdateLua => Reapplies(pendingTasks')
    <3>1. ASSUME UpdateLua PROVE Reapplies(pendingTasks')
      <4>1. pendingTasks' = Append(pendingTasks, Task("Reapply")) /\ Task("Reapply") \in TaskRecords
            /\ Task("Reapply").kind = "Reapply"
        BY <3>1, TasksMade DEF UpdateLua, Dispatch, Kinds
      <4> QED BY <1>2, <4>1, AddTask DEF Reapplies
    <3> QED BY <3>1
  <2>2. RestartLevel /\ checkpointRestored => checkpointRestored'
    BY Zenon DEF RestartLevel
  <2>3. ~FinishRemove
    BY DEF FinishRemove
  <2> QED BY <1>1, <2>1, <2>2, <2>3, RestoredStep
<1> QED BY <1>3, <1>4, ReapplyingInParts

\* The steps that change what is applied and what is unlocked.
LEMMA AppliedStep ==
  ASSUME [Next]_vars
  PROVE  appliedItems' = appliedItems \/ RunLuaItem \/ RunReset \/ FinishRemove
<1>1. CASE Leaves
  BY <1>1 DEF Leaves, LoadSave, LoadWritesRespect, FinishLoading, ChangeControl, BeginLevel,
     RestartLevel, GameAwardsRespect, WeatherTick, GameGivesReward, StartFrame, RunRelease,
     RunReapply, Install, ObserveLoads, ResetState, UpdateUnlockable, UpdateLua, vars
<1>2. CASE GameProcessesUnlock \/ RunsItems \/ RunUnlockableItem \/ RunFlush \/ Handles \/ CancelPending
  BY <1>2 DEF RunsItems, Handles, Handle, GameProcessesUnlock, RunStaleItem, RunSimpleItem,
     RunWeaponItem, RunRespectItem, RunWeatherItem, RunUnlockableItem, RunFlush, CancelPending
<1> QED BY <1>1, <1>2, Steps

LEMMA UnlockedStep ==
  ASSUME [Next]_vars
  PROVE  unlocked' = unlocked \/ RunLuaItem \/ RunReapply \/ RestartLevel \/ LoadSave
<1>1. CASE Leaves
  BY <1>1 DEF Leaves, LoadWritesRespect, FinishLoading, ChangeControl, BeginLevel,
     GameAwardsRespect, WeatherTick, GameGivesReward, StartFrame, RunRelease, RunReset,
     Install, ObserveLoads, ResetState, UpdateUnlockable, UpdateLua, vars
<1>2. CASE GameProcessesUnlock \/ RunsItems \/ RunUnlockableItem \/ RunFlush \/ Handles
           \/ CancelPending \/ FinishRemove
  BY <1>2 DEF RunsItems, Handles, Handle, GameProcessesUnlock, RunStaleItem, RunSimpleItem,
     RunWeaponItem, RunRespectItem, RunWeatherItem, RunUnlockableItem, RunFlush, CancelPending,
     FinishRemove
<1> QED BY <1>1, <1>2, Steps

LEMMA LuaStep ==
  ASSUME GameOK, FlagOK, QueueOK, RequestInv, Custody, LifetimeInv, WorldInv, AllowancesArePaidFor,
         ResetInv, LuaInv, ItemsMove, TasksMove, [Next]_vars
  PROVE  LuaInv'
<1>1. \A id \in Ids' : LuaApplied(id)' =>
        /\ id \in Ids /\ live' = live
        /\ requests'[id].item = requests[id].item /\ requests'[id].handler = "Lua"
        /\ LuaApplied(id) \/ (RunLuaItem /\ id = Id /\ requests' # Report({Id}, "False"))
  BY LuaAppliedBefore DEF LuaApplied
<1>2. ASSUME requests' # Report({Id}, "False"), RunLuaItem
      PROVE  /\ unlocked' = unlocked \cup {requests[Id].item}
             /\ appliedItems' = appliedItems \cup {requests[Id].item}
  BY <1>2 DEF RunLuaItem
<1>3. ASSUME Installed'
      PROVE  \A id \in Ids' : LuaApplied(id)' => requests'[id].item \in appliedItems'
  <2>0. CASE Install
    <3>1. Ids = {}
      BY <2>0 DEF Install, RequestInv, Ids
    <3> QED BY <1>1, <3>1
  <2>1. CASE Installed /\ appliedItems' = appliedItems
    <3>1. RunLuaItem /\ requests' # Report({Id}, "False") => requests[Id].item \in appliedItems'
      BY <1>2
    <3> QED BY <1>1, <2>1, <3>1 DEF LuaInv
  <2>2. CASE Installed /\ RunLuaItem
    <3>1. appliedItems \subseteq appliedItems'
      BY <2>2 DEF RunLuaItem
    <3> QED BY <1>1, <1>2, <2>2, <3>1 DEF LuaInv
  <2>3. CASE RunReset
    <3>1. Resets(batch) # {} /\ ~RunLuaItem
      <4>1. 1 \in Resets(batch)
        BY <2>3, TakeTask DEF RunReset, Runs, Draining, Resets, QueueOK
      <4>2. ~RunLuaItem
        BY <2>3 DEF RunReset, RunLuaItem, RunsItem, Runs
      <4> QED BY <4>1, <4>2
    <3>2. \A id \in Ids : ~LuaApplied(id)
      BY <3>1 DEF ResetInv
    <3> QED BY <1>1, <3>1, <3>2
  <2>4. ~FinishRemove
    BY <1>3 DEF FinishRemove, Installed
  <2>5. Install \/ Installed
    BY <1>3, HandlersStep DEF Installed, CancelPending, FinishRemove
  <2>6. appliedItems' = appliedItems \/ RunLuaItem \/ RunReset \/ FinishRemove
    BY AppliedStep
  <2> QED BY <2>0, <2>1, <2>2, <2>3, <2>4, <2>5, <2>6
<1>4. ASSUME handlers' = "Yes", ~Reapplying'
      PROVE  \A id \in Ids' : LuaApplied(id)' => requests'[id].item \in unlocked'
  <2>0. CASE Install
    <3>1. Ids = {}
      BY <2>0 DEF Install, RequestInv, Ids
    <3> QED BY <1>1, <3>1
  <2>1. CASE ~Install
    <3>1. handlers = "Yes"
      BY <1>4, <2>1, HandlersStep DEF CancelPending, FinishRemove
    <3>2. CASE RunReapply
      <4>1. ~checkpointRestored'
        BY <1>4 DEF Reapplying
      <4>2. mode = "Interactive"
        BY <3>2, <4>1, Zenon DEF RunReapply, ReapplyLater
      <4>3. unlocked' = unlocked \cup appliedItems
        BY <3>2, <4>2 DEF RunReapply
      <4>4. ~RunLuaItem
        BY <3>2 DEF RunReapply, RunLuaItem, RunsItem, Runs
      <4> QED BY <1>1, <3>1, <4>3, <4>4 DEF LuaInv, Installed
    <3>3. CASE RunReset
      <4>1. 1 \in Resets(batch)
        BY <3>3, TakeTask DEF RunReset, Runs, Draining, Resets, QueueOK
      <4>2. ~RunLuaItem
        BY <3>3 DEF RunReset, RunLuaItem, RunsItem, Runs
      <4>3. \A id \in Ids : ~LuaApplied(id)
        BY <4>1 DEF ResetInv
      <4> QED BY <1>1, <4>2, <4>3
    <3>4. CASE ~RunReapply /\ ~RunReset
      <4>1. ~Reapplying
        BY <1>4, <3>4, ReapplyStep
      <4>2. \A id \in Ids : LuaApplied(id) => requests[id].item \in unlocked
        BY <3>1, <4>1 DEF LuaInv
      <4>3. CASE unlocked' = unlocked \/ RunLuaItem
        <5>1. unlocked \subseteq unlocked'
          BY <4>3 DEF RunLuaItem
        <5> QED BY <1>1, <1>2, <4>2, <5>1
      <4>4. CASE LoadSave
        <5>1. live' # live
          BY <4>4, ItemHandlersAssumption DEF LoadSave, GameOK
        <5> QED BY <1>1, <5>1
      <4>5. CASE RestartLevel
        <5>1. ~checkpointRestored'
          BY <1>4 DEF Reapplying
        <5>2. ~Has("Lua")
          BY <4>5, <5>1, Zenon DEF RestartLevel
        <5>3. "Lua" \notin configured
          BY <3>1, <5>2 DEF Has, Installed
        <5>4. \A id \in Ids : requests[id].handler # "Lua"
          BY <5>3 DEF RequestInv
        <5>5. \A id \in Ids : requests'[id].handler = requests[id].handler
          BY ItemsKept
        <5> QED BY <1>1, <5>4, <5>5
      <4> QED BY <3>4, <4>3, <4>4, <4>5, UnlockedStep
    <3> QED BY <3>2, <3>3, <3>4
  <2> QED BY <2>0, <2>1
<1> QED BY <1>3, <1>4 DEF LuaInv

-----------------------------------------------------------------------------
\* The player's respect.

LEMMA RespectQuiet ==
  ASSUME [Next]_vars
  PROVE  /\ configured' = configured
         /\ \/ UNCHANGED <<bars, expected, respectDue, lateInstall>>
            \/ LoadSave \/ LoadWritesRespect \/ RestartLevel \/ GameAwardsRespect \/ RunRespectItem
<1>1. CASE Leaves
  BY <1>1 DEF Leaves, LoadSave, LoadWritesRespect, RestartLevel, GameAwardsRespect,
     FinishLoading, ChangeControl, BeginLevel, WeatherTick, GameGivesReward, StartFrame, RunRelease,
     RunReset, RunReapply, Install, ObserveLoads, ResetState, UpdateUnlockable, UpdateLua, vars
<1>2. CASE GameProcessesUnlock \/ RunsItems \/ RunUnlockableItem \/ RunFlush \/ Handles
           \/ CancelPending \/ FinishRemove
  BY <1>2 DEF RunsItems, Handles, Handle, GameProcessesUnlock, RunStaleItem, RunSimpleItem,
     RunWeaponItem, RunRespectItem, RunLuaItem, RunWeatherItem, RunUnlockableItem, RunFlush,
     CancelPending, FinishRemove
<1> QED BY <1>1, <1>2, Steps

LEMMA RespectStep ==
  ASSUME GameOK, FlagOK, LifetimeInv, WorldInv, RespectInv, [Next]_vars
  PROVE  RespectInv'
<1>0. /\ respectDue = "No" /\ ~lateInstall => bars = expected
      /\ permitted <=> Has("Respect") /\ respectDue = "Permitted"
      /\ handlers = "No" => respectDue # "Permitted"
  BY DEF RespectInv
<1>1. CASE LoadSave
  <2>1. UNCHANGED <<handlers, configured>>
    BY <1>1 DEF LoadSave
  <2>2. Has("Respect")' <=> Has("Respect")
    BY <2>1 DEF Has, Installed
  <2>3. /\ permitted' <=> (permitted \/ Has("Respect"))
        /\ respectDue' = IF Has("Respect") THEN "Permitted" ELSE "Unwatched"
    BY <1>1, Zenon DEF LoadSave
  <2>4. respectDue' # "No" /\ (respectDue' = "Permitted" <=> Has("Respect"))
    BY <2>3
  <2>5. permitted' <=> Has("Respect")
    BY <1>0, <2>3, Zenon
  <2>6. handlers' = "No" => ~Has("Respect")
    BY <2>1 DEF Has, Installed
  <2> QED BY <2>2, <2>4, <2>5, <2>6, Zenon DEF RespectInv
<1>2. CASE LoadWritesRespect
  <2>1. UNCHANGED <<handlers, configured>> /\ respectDue' = "No" /\ respectDue # "No"
    BY <1>2 DEF LoadWritesRespect
  <2>2. ~permitted'
    BY <1>0, <1>2, Zenon DEF LoadWritesRespect, UsePermit
  <2>3. ~lateInstall' => bars' = expected'
    <3>1. /\ bars' = IF Has("Respect") /\ ~permitted THEN bars ELSE checkpoint.bars
          /\ expected' = checkpoint.bars
      BY <1>2 DEF LoadWritesRespect, Restored
    <3>2. respectDue \in {"Permitted", "Unwatched"}
      BY <2>1 DEF GameOK
    <3>3. ~lateInstall' => ~Has("Respect") \/ respectDue = "Permitted"
      BY <1>2, <3>2, Zenon DEF LoadWritesRespect
    <3>4. ~lateInstall' => ~(Has("Respect") /\ ~permitted)
      BY <1>0, <3>3
    <3> QED BY <3>1, <3>4
  <2> QED BY <2>1, <2>2, <2>3 DEF RespectInv
<1>3. CASE RestartLevel
  <2>1. UNCHANGED <<handlers, configured, respectDue, lateInstall>> /\ respectDue = "No"
    BY <1>3 DEF RestartLevel, WorldInv
  <2>2. ~permitted /\ (~lateInstall => bars = expected)
    BY <1>0, <2>1
  <2>3. ~permitted'
    BY <1>3, <2>2, Zenon DEF RestartLevel, UsePermit
  <2>4. ~lateInstall => bars' = expected'
    <3>1. /\ bars' = IF Has("Respect") /\ ~permitted THEN bars ELSE checkpoint.bars
          /\ expected' = IF Has("Respect") THEN expected ELSE bars'
      BY <1>3 DEF RestartLevel, Restored
    <3> QED BY <2>2, <3>1
  <2> QED BY <2>1, <2>3, <2>4 DEF RespectInv
<1>4. CASE GameAwardsRespect
  <2>1. UNCHANGED <<handlers, configured, respectDue, permitted>> /\ bars' = expected'
    BY <1>4 DEF GameAwardsRespect
  <2>2. Has("Respect")' <=> Has("Respect")
    BY <2>1 DEF Has, Installed
  <2> QED BY <1>0, <2>1, <2>2 DEF RespectInv
<1>5. CASE RunRespectItem
  <2>1. UNCHANGED <<handlers, configured, respectDue, permitted, lateInstall>>
    BY <1>5 DEF RunRespectItem
  <2>2. Has("Respect")' <=> Has("Respect")
    BY <2>1 DEF Has, Installed
  <2>3. bars = expected => bars' = expected'
    BY <1>5 DEF RunRespectItem
  <2> QED BY <1>0, <2>1, <2>2, <2>3 DEF RespectInv
<1>6. CASE UNCHANGED <<bars, expected, respectDue, lateInstall>>
  <2>0. configured' = configured
    BY RespectQuiet
  <2>1. CASE Install
    <3>1. ~permitted /\ permitted' = permitted /\ handlers = "No" /\ handlers' = "Yes"
      BY <2>1 DEF Install, LifetimeInv
    <3> QED BY <1>0, <1>6, <3>1 DEF RespectInv
  <2>2. CASE FinishRemove
    <3>1. ~permitted' /\ handlers' = "Gone"
      BY <2>2 DEF FinishRemove
    <3> QED BY <1>0, <1>6, <3>1 DEF RespectInv, Has, Installed
  <2>3. CASE CancelPending
    <3>1. permitted' = permitted /\ handlers = "Yes" /\ handlers' = "Removing"
      BY <2>3 DEF CancelPending
    <3>2. Has("Respect")' <=> Has("Respect")
      BY <2>0, <3>1 DEF Has, Installed
    <3> QED BY <1>0, <1>6, <3>1, <3>2 DEF RespectInv
  <2>4. CASE handlers' = handlers /\ permitted' = permitted
    <3>2. Has("Respect")' <=> Has("Respect")
      BY <2>0, <2>4 DEF Has, Installed
    <3> QED BY <1>0, <1>6, <2>4, <3>2 DEF RespectInv
  <2>5. Install => permitted' = permitted
    BY DEF Install
  <2> QED BY <1>1, <1>2, <1>3, <2>1, <2>2, <2>3, <2>4, HandlersStep, PermitStep
<1> QED BY <1>1, <1>2, <1>3, <1>4, <1>5, <1>6, RespectQuiet

-----------------------------------------------------------------------------
\* The invariant.

LEMMA InitLemma ==
  ASSUME Init
  PROVE  IInv
<1>1. GameOK
  BY ItemHandlersAssumption DEF Init, GameOK, Stages
<1>2. FlagOK
  BY Zenon DEF Init, FlagOK
<1>3. requests = <<>> /\ pendingTasks = <<>> /\ batch = <<>> /\ backlog = <<>> /\ outstanding = <<>>
      /\ nativeQueue = <<>> /\ allowances = [h \in Unlocks |-> 0] /\ handlers = "No"
      /\ mode = "MainMenu" /\ respectDue = "No" /\ bars = expected /\ ~permitted /\ ~stray
      /\ ~checkpointRestored
  BY DEF Init
<1>4. Ids = {} /\ Listed = {}
  BY <1>3, NoItems DEF Ids, Listed
<1>5. QueueOK
  BY <1>3, <1>4, ItemHandlersAssumption DEF QueueOK
<1>6. RequestInv /\ TruthfulCompletions
  BY <1>3, <1>4 DEF RequestInv, TruthfulCompletions
<1>7. Custody
  BY <1>3, <1>4, NoItems, CustodyInParts DEF FourPlaces
<1>8. LifetimeInv /\ WorldInv
  BY <1>3, <1>4 DEF LifetimeInv, OnlyRelease, WorldInv
<1>9. AllowancesArePaidFor
  <2>1. \A hash \in Unlocks : For(hash) = {} /\ allowances[hash] = 0
    BY <1>3 DEF For
  <2> QED BY <1>3, <2>1, FS_EmptySet DEF AllowancesArePaidFor
<1>10. ResetInv
  BY <1>3, EmptyInOrder DEF ResetInv, Resets
<1>11. LuaInv
  BY <1>3 DEF LuaInv, Installed
<1>12. RespectInv
  BY <1>3 DEF RespectInv, Has, Installed
<1> QED BY <1>1, <1>2, <1>5, <1>6, <1>7, <1>8, <1>9, <1>10, <1>11, <1>12 DEF IInv

LEMMA StepLemma ==
  ASSUME IInv, [Next]_vars
  PROVE  IInv'
<1> USE DEF IInv
<1>1. GameOK' /\ FlagOK'
  BY GameStep, FlagStep
<1>2. ItemsMove
  BY ItemsStep
<1>3. TasksMove
  BY TasksStep
<1>4. QueueOK' /\ Custody'
  BY <1>2, <1>3, QueueStep, CustodyStep
<1>5. RequestInv' /\ TruthfulCompletions'
  BY <1>1, <1>2, RequestStep, TruthfulStep
<1>6. LifetimeInv' /\ WorldInv' /\ AllowancesArePaidFor'
  BY <1>2, <1>3, LifetimeStep, WorldStep, PaidStep
<1>7. ResetInv' /\ LuaInv' /\ RespectInv'
  BY <1>2, <1>3, <1>4, ResetStep, LuaStep, RespectStep
<1> QED BY <1>1, <1>4, <1>5, <1>6, <1>7

\* The inductive invariant of the handlers.
THEOREM Invariance == Spec => []IInv
<1>1. Init => IInv
  BY InitLemma
<1>2. IInv /\ [Next]_vars => IInv'
  BY StepLemma
<1> QED BY <1>1, <1>2, PTL DEF Spec

LEMMA TypesFollow ==
  ASSUME IInv
  PROVE  TypeOK
<1> USE DEF IInv
<1>1. checkpoint.bars \in 0..MaxBars /\ checkpoint.unlocked \subseteq LuaItems
  BY DEF GameOK
<1>2. \A id \in Ids : /\ requests[id].outcome \in {"Held", "True", "False", "Dropped"}
                      /\ requests[id].effect \in 0..1
  BY IdsFacts DEF TruthfulCompletions, RequestRecords, Outcomes
<1>3. allowances \in [Unlocks -> 0..MaxRequests]
  <2>1. ASSUME NEW hash \in Unlocks PROVE allowances[hash] \in 0..MaxRequests
    <3>1. outstanding \in Seq(Ids) /\ Once(outstanding) /\ Len(requests) \in Nat
          /\ Ids = 1..Len(requests) /\ Len(requests) <= MaxRequests /\ allowances[hash] \in Nat
      BY IdsFacts DEF QueueOK, Custody
    <3>2. allowances[hash] = CountOf(hash, outstanding)
      BY DEF AllowancesArePaidFor, For, CountOf
    <3>3. CountOf(hash, outstanding) = Cardinality(Places(outstanding, Carrying(hash)))
      BY <3>1, CountedPlaces
    <3>4. Cardinality(Places(outstanding, Carrying(hash))) <= Len(requests)
      BY <3>1, CountBound
    <3> QED BY <3>1, <3>2, <3>3, <3>4, ItemHandlersAssumption
  <2>2. allowances \in [Unlocks -> Nat]
    BY DEF QueueOK
  <2> QED BY <2>1, <2>2
<1> QED BY <1>1, <1>2, <1>3 DEF TypeOK, GameOK, FlagOK, QueueOK

\* Every variable keeps its type; no item takes effect twice, and there are never more
\* allowances than items.
THEOREM TypeCorrect == Spec => []TypeOK
BY Invariance, TypesFollow, PTL

\* A completion reports TRUE of an item that has taken effect, once, and of no other:
\* through queue, batch, backlog, hook, removal and changes of world.
THEOREM CompletionsTellTheTruth == Spec => []TruthfulCompletions
<1>1. IInv => TruthfulCompletions
  BY DEF IInv
<1> QED BY <1>1, Invariance, PTL

\* The hook lets a blocked unlock pass only for an item that waits for it, in the
\* world it is in.
THEOREM UnlocksArePaidFor == Spec => []AllowancesArePaidFor
<1>1. IInv => AllowancesArePaidFor
  BY DEF IInv
<1> QED BY <1>1, Invariance, PTL

\* An activity that was reported as applied is unlocked whenever the level can be
\* played, unless a reapplication is under way.
THEOREM LuaUnlocksLast == Spec => []LuaUnlocksSurvive
<1>1. IInv => LuaUnlocksSurvive
  BY DEF IInv, LuaInv, LuaUnlocksSurvive, LuaApplied
<1> QED BY <1>1, Invariance, PTL

\* With the handler installed, but for an installation in the middle of the load, the
\* respect is what the save held and the session granted since.
THEOREM NoUnearnedRespect == Spec => []RespectIsEarned
<1>1. IInv => RespectIsEarned
  BY DEF IInv, RespectInv, RespectIsEarned
<1> QED BY <1>1, Invariance, PTL

\* Once the handlers are gone, the dispatcher holds no task that uses one.
THEOREM TasksEndWithHandlers == Spec => []NoTaskOutlivesItsHandler
<1>1. IInv => NoTaskOutlivesItsHandler
  <2> SUFFICES ASSUME IInv, handlers = "Gone"
               PROVE  \A task \in ToSet(pendingTasks) \cup ToSet(batch) :
                        task.kind \notin Owned /\ task.kind # "Item"
    BY DEF NoTaskOutlivesItsHandler
  <2>1. OnlyRelease(pendingTasks) /\ OnlyRelease(batch)
    BY DEF IInv, LifetimeInv
  <2> QED BY <2>1 DEF OnlyRelease, ToSet, Owned
<1> QED BY <1>1, Invariance, PTL
=============================================================================
