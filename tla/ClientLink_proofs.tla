-------------------------- MODULE ClientLink_proofs --------------------------
(***************************************************************************)
(* Theorems on ClientLink: the plugin in the link is a SessionRuntime, the *)
(* client does not go past the cursor the plugin expects, and the two      *)
(* stores agree.  Both depend on the lines under way: LiveInv says what    *)
(* the lines to the client may still make of the live cursor, AgreeInv     *)
(* that no line carries another cursor than the stores.                    *)
(***************************************************************************)
EXTENDS ClientLink, SessionRuntime_proofs, FiniteSetTheorems, SequenceTheorems

-----------------------------------------------------------------------------
\* The lines of a queue.

Lines(q) == {q[i] : i \in DOMAIN q}
IsQueue(q) == q \in Seq(Lines(q))

LEMMA QueueFacts ==
  ASSUME NEW q, IsQueue(q)
  PROVE  /\ Len(q) \in Nat /\ DOMAIN q = 1..Len(q)
         /\ q # <<>> <=> Len(q) > 0
         /\ \A i \in DOMAIN q : q[i] \in Lines(q)
         /\ \A l \in Lines(q) : \E i \in 1..Len(q) : l = q[i]
<1>1. q \in Seq(Lines(q))
  BY DEF IsQueue
<1>2. Len(q) \in Nat /\ DOMAIN q = 1..Len(q) /\ (q # <<>> <=> Len(q) > 0)
  BY <1>1
<1> QED BY <1>2 DEF Lines

\* A sequence over a set is a queue, of lines in that set.
LEMMA SeqIsQueue ==
  ASSUME NEW S, NEW q \in Seq(S)
  PROVE  IsQueue(q) /\ Lines(q) \subseteq S
<1>1. Len(q) \in Nat /\ q \in [1..Len(q) -> S] /\ DOMAIN q = 1..Len(q)
  OBVIOUS
<1>2. Lines(q) \subseteq S
  BY <1>1 DEF Lines
<1>3. q \in [1..Len(q) -> Lines(q)]
  BY <1>1 DEF Lines
<1>4. q \in Seq(Lines(q))
  BY <1>1, <1>3
<1> QED BY <1>2, <1>4 DEF IsQueue

LEMMA EmptyQueue == IsQueue(<<>>) /\ Lines(<<>>) = {} /\ Len(<<>>) = 0
<1>1. <<>> \in Seq({}) /\ Len(<<>>) = 0
  BY EmptySeq
<1>2. ASSUME NEW S PROVE IsQueue(<<>>) /\ Lines(<<>>) \subseteq S
  <2>1. <<>> \in Seq(S)
    BY EmptySeq
  <2> QED BY <2>1, SeqIsQueue
<1>3. Lines(<<>>) \subseteq {}
  BY <1>2
<1> QED BY <1>1, <1>2, <1>3

LEMMA AppendQueue ==
  ASSUME NEW q, IsQueue(q), NEW l
  PROVE  /\ IsQueue(Append(q, l)) /\ Lines(Append(q, l)) = Lines(q) \cup {l}
         /\ Len(Append(q, l)) = Len(q) + 1
<1>1. q \in Seq(Lines(q) \cup {l})
  <2>1. q \in Seq(Lines(q)) /\ Lines(q) \subseteq Lines(q) \cup {l}
    BY DEF IsQueue
  <2> QED BY <2>1
<1>2. /\ Append(q, l) \in Seq(Lines(q) \cup {l})
      /\ Len(q) \in Nat /\ DOMAIN q = 1..Len(q)
      /\ Len(Append(q, l)) = Len(q) + 1
      /\ DOMAIN Append(q, l) = 1..(Len(q) + 1)
      /\ \A i \in 1..Len(q) : Append(q, l)[i] = q[i]
      /\ Append(q, l)[Len(q) + 1] = l
  BY <1>1
<1>3. IsQueue(Append(q, l)) /\ Lines(Append(q, l)) \subseteq Lines(q) \cup {l}
  BY <1>2, SeqIsQueue
<1>4. Lines(q) \cup {l} \subseteq Lines(Append(q, l))
  <2>1. Len(q) + 1 \in DOMAIN Append(q, l)
    BY <1>2
  <2>2. l \in Lines(Append(q, l))
    BY <1>2, <2>1 DEF Lines
  <2>3. ASSUME NEW k \in Lines(q) PROVE k \in Lines(Append(q, l))
    <3>1. PICK i \in 1..Len(q) : k = q[i]
      BY QueueFacts
    <3>2. i \in DOMAIN Append(q, l) /\ Append(q, l)[i] = k
      BY <1>2, <3>1
    <3> QED BY <3>2 DEF Lines
  <2> QED BY <2>2, <2>3
<1> QED BY <1>2, <1>3, <1>4

LEMMA TailQueue ==
  ASSUME NEW q, IsQueue(q), q # <<>>
  PROVE  /\ IsQueue(Tail(q)) /\ Lines(Tail(q)) \subseteq Lines(q)
         /\ Head(q) = q[1] /\ Head(q) \in Lines(q)
         /\ Len(Tail(q)) = Len(q) - 1
         /\ \A i \in 1..(Len(q) - 1) : Tail(q)[i] = q[i + 1]
<1>1. q \in Seq(Lines(q))
  BY DEF IsQueue
<1>2. /\ Tail(q) \in Seq(Lines(q)) /\ Head(q) = q[1] /\ Head(q) \in Lines(q)
      /\ Len(Tail(q)) = Len(q) - 1
      /\ \A i \in 1..(Len(q) - 1) : Tail(q)[i] = q[i + 1]
  BY <1>1
<1> QED BY <1>2, SeqIsQueue

LEMMA ConcatQueue ==
  ASSUME NEW q, IsQueue(q), NEW r, IsQueue(r)
  PROVE  /\ IsQueue(q \o r) /\ Lines(q \o r) \subseteq Lines(q) \cup Lines(r)
         /\ Lines(q) \subseteq Lines(q \o r) /\ Lines(r) \subseteq Lines(q \o r)
         /\ Len(q \o r) = Len(q) + Len(r)
         /\ \A i \in 1..Len(q) : (q \o r)[i] = q[i]
         /\ \A i \in 1..Len(r) : (q \o r)[Len(q) + i] = r[i]
<1> DEFINE T == Lines(q) \cup Lines(r)
<1>1. q \in Seq(T) /\ r \in Seq(T)
  <2>1. q \in Seq(Lines(q)) /\ r \in Seq(Lines(r)) /\ Lines(q) \subseteq T /\ Lines(r) \subseteq T
    BY DEF IsQueue
  <2> QED BY <2>1
<1>2. /\ q \o r \in Seq(T)
      /\ Len(q \o r) = Len(q) + Len(r)
      /\ \A i \in 1..Len(q) : (q \o r)[i] = q[i]
      /\ \A i \in 1..Len(r) : (q \o r)[Len(q) + i] = r[i]
  BY <1>1
<1>3. IsQueue(q \o r) /\ Lines(q \o r) \subseteq T
  BY <1>2, SeqIsQueue
<1>4. /\ Len(q) \in Nat /\ Len(r) \in Nat
      /\ \A i \in 1..(Len(q) + Len(r)) : (q \o r)[i] \in Lines(q \o r)
  BY <1>2, <1>3, QueueFacts
<1>5. ASSUME NEW l \in Lines(q) PROVE l \in Lines(q \o r)
  <2>1. PICK i \in 1..Len(q) : l = q[i]
    BY QueueFacts
  <2>2. i \in 1..(Len(q) + Len(r)) /\ (q \o r)[i] = l
    BY <1>2, <1>4, <2>1
  <2> QED BY <1>4, <2>2
<1>6. ASSUME NEW l \in Lines(r) PROVE l \in Lines(q \o r)
  <2>1. PICK i \in 1..Len(r) : l = r[i]
    BY QueueFacts
  <2>2. Len(q) + i \in 1..(Len(q) + Len(r)) /\ (q \o r)[Len(q) + i] = l
    BY <1>2, <1>4, <2>1
  <2> QED BY <1>4, <2>2
<1> QED BY <1>2, <1>3, <1>5, <1>6

\* Part of a queue is a queue of some of its lines.
LEMMA PartOfQueue ==
  ASSUME NEW q, IsQueue(q), NEW m \in Nat \ {0}, NEW n \in 0..Len(q)
  PROVE  /\ IsQueue(SubSeq(q, m, n)) /\ Lines(SubSeq(q, m, n)) \subseteq Lines(q)
         /\ Len(SubSeq(q, m, n)) = IF m <= n THEN n - m + 1 ELSE 0
<1>1. Len(q) \in Nat /\ DOMAIN q = 1..Len(q)
  BY QueueFacts
<1>2. \A i \in m..n : q[i] \in Lines(q)
  BY <1>1 DEF Lines
<1>3. /\ SubSeq(q, m, n) \in Seq(Lines(q))
      /\ Len(SubSeq(q, m, n)) = IF m <= n THEN n - m + 1 ELSE 0
  BY <1>1, <1>2, SubSeqProperties
<1> QED BY <1>3, SeqIsQueue

\* The lines of one action are queued one by one, each of them once.
LEMMA OrderOfLines ==
  ASSUME NEW lines, IsFiniteSet(lines)
  PROVE  /\ IsQueue(InOrder(lines)) /\ Lines(InOrder(lines)) \subseteq lines
         /\ lines # {} => Len(InOrder(lines)) > 0
<1> DEFINE revisions == {line \in lines : line.type = "save_revision"}
           Ordered(set) == CHOOSE seq \in [1..Cardinality(set) -> set] :
                             \A i, j \in 1..Cardinality(set) : i # j => seq[i] # seq[j]
<1>1. ASSUME NEW set, set \in SUBSET lines
      PROVE  /\ IsQueue(Ordered(set)) /\ Lines(Ordered(set)) \subseteq set
             /\ set # {} => Len(Ordered(set)) > 0
             /\ Len(Ordered(set)) \in Nat
  <2>0. IsFiniteSet(set)
    BY <1>1, FS_Subset
  <2>1. Cardinality(set) \in Nat /\ ExistsBijection(1..Cardinality(set), set)
    BY <2>0, FS_CardinalityType
  <2>2. PICK f \in [1..Cardinality(set) -> set] :
               \A i, j \in 1..Cardinality(set) : i # j => f[i] # f[j]
    BY <2>1 DEF ExistsBijection, Bijection, Injection, IsInjective
  <2>3. Ordered(set) \in [1..Cardinality(set) -> set]
    BY <2>2
  <2>4. Ordered(set) \in Seq(set) /\ Len(Ordered(set)) = Cardinality(set)
    BY <2>1, <2>3
  <2>5. set # {} => Cardinality(set) > 0
    BY <2>0, <2>1, FS_EmptySet
  <2> HIDE DEF Ordered
  <2> QED BY <2>1, <2>4, <2>5, SeqIsQueue
<1>2. InOrder(lines) = Ordered(revisions) \o Ordered(lines \ revisions)
  BY DEF InOrder
<1>3. revisions \in SUBSET lines /\ lines \ revisions \in SUBSET lines
  OBVIOUS
<1>4. lines # {} => revisions # {} \/ lines \ revisions # {}
  OBVIOUS
<1> HIDE DEF revisions, Ordered
<1>5. /\ IsQueue(Ordered(revisions)) /\ IsQueue(Ordered(lines \ revisions))
      /\ Lines(Ordered(revisions)) \cup Lines(Ordered(lines \ revisions)) \subseteq lines
      /\ Len(Ordered(revisions)) \in Nat /\ Len(Ordered(lines \ revisions)) \in Nat
      /\ lines # {} => Len(Ordered(revisions)) > 0 \/ Len(Ordered(lines \ revisions)) > 0
  BY <1>1, <1>3, <1>4
<1>6. /\ IsQueue(InOrder(lines))
      /\ Lines(InOrder(lines)) \subseteq
           Lines(Ordered(revisions)) \cup Lines(Ordered(lines \ revisions))
      /\ Len(InOrder(lines)) = Len(Ordered(revisions)) + Len(Ordered(lines \ revisions))
  BY <1>2, <1>5, ConcatQueue
<1>7. lines # {} => Len(InOrder(lines)) > 0
  BY <1>5, <1>6
<1>8. Lines(InOrder(lines)) \subseteq lines
  BY <1>5, <1>6, Zenon
<1> QED BY <1>6, <1>7, <1>8

-----------------------------------------------------------------------------
\* What the newest lines on their way to the client say of a world whose next
\* item is n: the newest context and what follows it fit that world.

IsContext(l) == l.type = "game_context"
IsAck(l) == l.type = "item_ack"
NoContext(q) == \A l \in Lines(q) : ~IsContext(l)

LineFits(l, n) ==
  /\ IsContext(l) => ~l.needsCursor /\ l.nextIndex <= n
  /\ IsAck(l) /\ l.accepted => l.index < n

NewestFit(q, n) ==
  \A i \in 1..Len(q) :
    (\A j \in 1..Len(q) : i < j => ~IsContext(q[j])) => LineFits(q[i], n)

LEMMA FitAll ==
  ASSUME NEW q, IsQueue(q), NEW n, \A l \in Lines(q) : LineFits(l, n)
  PROVE  NewestFit(q, n)
BY QueueFacts DEF NewestFit

\* The client reads the first line; the last context, when that is it.
LEMMA FitTail ==
  ASSUME NEW q, IsQueue(q), q # <<>>, NEW n, NewestFit(q, n)
  PROVE  /\ NewestFit(Tail(q), n)
         /\ NoContext(Tail(q)) => LineFits(Head(q), n)
<1>1. /\ Len(q) \in Nat /\ Len(q) > 0 /\ Len(Tail(q)) = Len(q) - 1
      /\ \A i \in 1..(Len(q) - 1) : Tail(q)[i] = q[i + 1]
      /\ Head(q) = q[1] /\ IsQueue(Tail(q))
  BY QueueFacts, TailQueue
<1>2. NewestFit(Tail(q), n)
  <2> SUFFICES ASSUME NEW i \in 1..(Len(q) - 1),
                      \A j \in 1..(Len(q) - 1) : i < j => ~IsContext(Tail(q)[j])
               PROVE  LineFits(Tail(q)[i], n)
    BY <1>1 DEF NewestFit
  <2>1. ASSUME NEW j \in 1..Len(q), i + 1 < j PROVE ~IsContext(q[j])
    <3>1. j - 1 \in 1..(Len(q) - 1) /\ i < j - 1 /\ (j - 1) + 1 = j
      BY <1>1, <2>1
    <3>2. Tail(q)[j - 1] = q[j] /\ ~IsContext(Tail(q)[j - 1])
      BY <1>1, <3>1
    <3> QED BY <3>2
  <2>2. i + 1 \in 1..Len(q) /\ Tail(q)[i] = q[i + 1]
    BY <1>1
  <2>3. LineFits(q[i + 1], n)
    BY <2>1, <2>2 DEF NewestFit
  <2> QED BY <2>2, <2>3
<1>3. ASSUME NoContext(Tail(q)) PROVE LineFits(Head(q), n)
  <2>1. ASSUME NEW j \in 1..Len(q), 1 < j PROVE ~IsContext(q[j])
    <3>1. j - 1 \in 1..(Len(q) - 1) /\ (j - 1) + 1 = j
      BY <1>1, <2>1
    <3>2. Tail(q)[j - 1] = q[j] /\ Tail(q)[j - 1] \in Lines(Tail(q))
      BY <1>1, <3>1, QueueFacts
    <3> QED BY <1>3, <3>2 DEF NoContext
  <2> QED BY <1>1, <2>1 DEF NewestFit
<1> QED BY <1>2, <1>3

\* The plugin sends a new context.
LEMMA FitContext ==
  ASSUME NEW q, IsQueue(q), NEW r, IsQueue(r), Len(r) > 0, NEW n,
         \A l \in Lines(r) : IsContext(l) /\ LineFits(l, n)
  PROVE  NewestFit(q \o r, n)
<1>0. Len(q) \in Nat /\ Len(r) \in Nat /\ \A i \in 1..Len(r) : r[i] \in Lines(r)
  BY QueueFacts
<1>1. /\ Len(q) \in Nat /\ Len(r) \in Nat /\ Len(q \o r) = Len(q) + Len(r)
      /\ \A i \in 1..Len(r) : (q \o r)[Len(q) + i] = r[i] /\ r[i] \in Lines(r)
  BY <1>0, ConcatQueue
<1> SUFFICES ASSUME NEW i \in 1..(Len(q) + Len(r)),
                    \A j \in 1..(Len(q) + Len(r)) : i < j => ~IsContext((q \o r)[j])
             PROVE  LineFits((q \o r)[i], n)
  BY <1>1 DEF NewestFit
<1>2. IsContext((q \o r)[Len(q) + Len(r)]) /\ LineFits((q \o r)[Len(q) + Len(r)], n)
  <2>1. Len(r) \in 1..Len(r)
    BY <1>1
  <2> QED BY <1>1, <2>1
<1>3. i = Len(q) + Len(r)
  BY <1>1, <1>2
<1> QED BY <1>2, <1>3

\* The plugin sends lines that are not contexts, to a world that did not go back.
LEMMA FitMore ==
  ASSUME NEW q, IsQueue(q), NEW r, IsQueue(r), NEW n \in Int, NEW m \in Int, n <= m,
         \A l \in Lines(q) : /\ IsContext(l) => l.nextIndex \in Int
                             /\ IsAck(l) => l.index \in Int,
         NewestFit(q, n),
         \A l \in Lines(r) : ~IsContext(l) /\ LineFits(l, m)
  PROVE  NewestFit(q \o r, m)
<1>0. /\ Len(q) \in Nat /\ \A i \in 1..Len(q) : q[i] \in Lines(q)
      /\ Len(r) \in Nat /\ \A i \in 1..Len(r) : r[i] \in Lines(r)
  BY QueueFacts
<1>1. /\ Len(q) \in Nat /\ Len(r) \in Nat /\ Len(q \o r) = Len(q) + Len(r)
      /\ \A i \in 1..Len(q) : (q \o r)[i] = q[i] /\ q[i] \in Lines(q)
      /\ \A i \in 1..Len(r) : (q \o r)[Len(q) + i] = r[i] /\ r[i] \in Lines(r)
  <2>1. /\ Len(q \o r) = Len(q) + Len(r)
        /\ \A i \in 1..Len(q) : (q \o r)[i] = q[i]
        /\ \A i \in 1..Len(r) : (q \o r)[Len(q) + i] = r[i]
    BY ConcatQueue
  <2> QED BY <1>0, <2>1
<1> SUFFICES ASSUME NEW i \in 1..(Len(q) + Len(r)),
                    \A j \in 1..(Len(q) + Len(r)) : i < j => ~IsContext((q \o r)[j])
             PROVE  LineFits((q \o r)[i], m)
  BY <1>1 DEF NewestFit
<1>2. CASE i <= Len(q)
  <2>1. i \in 1..Len(q) /\ (q \o r)[i] = q[i] /\ q[i] \in Lines(q)
    BY <1>1, <1>2
  <2>2. \A j \in 1..Len(q) : i < j => ~IsContext(q[j])
    BY <1>1
  <2>3. LineFits(q[i], n)
    BY <2>1, <2>2 DEF NewestFit
  <2>4. LineFits(q[i], m)
    BY <2>1, <2>3 DEF LineFits
  <2> QED BY <2>1, <2>4
<1>3. CASE i > Len(q)
  <2>1. i - Len(q) \in 1..Len(r) /\ Len(q) + (i - Len(q)) = i
    BY <1>1, <1>3
  <2>2. (q \o r)[i] = r[i - Len(q)] /\ r[i - Len(q)] \in Lines(r)
    BY <1>1, <2>1
  <2> QED BY <2>2
<1> QED BY <1>1, <1>2, <1>3

\* A plugin that connects says hello first.
LEMMA FitHello ==
  ASSUME NEW q, IsQueue(q), NEW n, NewestFit(q, n), NEW l, ~IsContext(l), ~IsAck(l)
  PROVE  NewestFit(<<l>> \o q, n)
<1>1. IsQueue(<<l>>) /\ Len(<<l>>) = 1 /\ <<l>>[1] = l
  <2>1. <<l>> \in Seq({l})
    OBVIOUS
  <2> QED BY <2>1, SeqIsQueue
<1>2. /\ Len(q) \in Nat /\ Len(<<l>> \o q) = 1 + Len(q)
      /\ (<<l>> \o q)[1] = l
      /\ \A i \in 1..Len(q) : (<<l>> \o q)[1 + i] = q[i]
  BY <1>1, QueueFacts, ConcatQueue
<1> SUFFICES ASSUME NEW i \in 1..(1 + Len(q)),
                    \A j \in 1..(1 + Len(q)) : i < j => ~IsContext((<<l>> \o q)[j])
             PROVE  LineFits((<<l>> \o q)[i], n)
  BY <1>2 DEF NewestFit
<1>3. CASE i = 1
  BY <1>2, <1>3 DEF LineFits
<1>4. CASE i > 1
  <2>1. i - 1 \in 1..Len(q) /\ 1 + (i - 1) = i
    BY <1>2, <1>4
  <2>2. ASSUME NEW j \in 1..Len(q), i - 1 < j PROVE ~IsContext(q[j])
    <3>1. 1 + j \in 1..(1 + Len(q)) /\ i < 1 + j
      BY <1>2, <2>1, <2>2
    <3> QED BY <1>2, <3>1
  <2>3. LineFits(q[i - 1], n)
    BY <2>1, <2>2 DEF NewestFit
  <2> QED BY <1>2, <2>1, <2>3
<1> QED BY <1>2, <1>3, <1>4

-----------------------------------------------------------------------------
\* Types.

ForPlugin(l) ==
  /\ l.type = "item" => l.index \in Cursors /\ l.name \in Items
  /\ l.type = "save_context" =>
       l.checksum \in Checksums /\ l.nextIndex \in Cursors /\ l.items \subseteq Items
  /\ l.type = "save_revision_ack" =>
       l.checksum \in Checksums /\ l.nextIndex \in Cursors /\ l.accepted \in BOOLEAN

ForClient(l) ==
  /\ IsContext(l) =>
       l.nextIndex \in Cursors /\ (l.needsCursor => l.checksum \in Checksums)
  /\ IsAck(l) => l.index \in Cursors
  /\ l.type = "save_revision" => l.checksum \in Checksums /\ l.nextIndex \in Cursors

Typed(lines) == IsFiniteSet(lines) /\ \A l \in lines : ForClient(l)

CursorMaps == [Checksums -> Cursors \cup {None}]

ToPluginOK ==
  /\ IsQueue(toPlugin) /\ \A l \in Lines(toPlugin) : ForPlugin(l)
  /\ taken \in 0..Len(toPlugin)
ToClientOK == IsQueue(toClient) /\ \A l \in Lines(toClient) : ForClient(l)

BridgeOK ==
  /\ owned \in Cursors /\ received \in Cursors
  /\ ledger \in CursorMaps /\ mirror \in CursorMaps /\ remote \in CursorMaps \cup {None}
  /\ liveCursor \in Nat \cup {None} /\ syncIndex \in Nat
  /\ ack # None => ack.index \in Nat

\* The save that waits for its cursor is one of the game's.
WaitsForFile == context = "AwaitingCursor" => checksum \in files
FilesOK == files \subseteq Checksums /\ WaitsForFile

LinkTypeOK == ToPluginOK /\ ToClientOK /\ BridgeOK /\ FilesOK

-----------------------------------------------------------------------------
\* The lines the plugin sends.

LEMMA EmptyTyped == Typed({})
BY FS_EmptySet DEF Typed

LEMMA ContextFacts ==
  ASSUME NEW a, NEW b, NEW s, NEW j, NEW ctx, NEW c, NEW n,
         NEW l \in ContextLines(a, b, s, j, ctx, c, n)
  PROVE  /\ ContextLines(a, b, s, j, ctx, c, n) = {l}
         /\ IsContext(l) /\ l.type = "game_context" /\ l.checksum = c /\ a /\ ~b
         /\ l.needsCursor => ctx = "AwaitingCursor"
         /\ ctx # "AwaitingCursor" => ~l.needsCursor /\ l.nextIndex = n
         /\ l.snapshotKnown =>
              /\ s # None /\ c # None /\ j.snapshots[s][c] # None
              /\ l.nextIndex = j.snapshots[s][c].nextIndex
         /\ ~l.snapshotKnown =>
              /\ l.nextIndex = n
              /\ ctx = "AwaitingCursor" =>
                   s = None \/ c = None \/ j.snapshots[s][c] = None
<1> DEFINE known == /\ ctx = "AwaitingCursor"
                    /\ s # None /\ c # None
                    /\ j.snapshots[s][c] # None
           snapshot == IF known THEN j.snapshots[s][c]
                                ELSE [nextIndex |-> n, items |-> {}]
           line == [type |-> "game_context", checksum |-> c,
                    nextIndex |-> snapshot.nextIndex,
                    provisional |-> (ctx = "Provisional"),
                    needsCursor |-> (ctx = "AwaitingCursor"),
                    snapshotKnown |-> known, items |-> snapshot.items]
<1>1. a /\ ~b /\ ctx # "Waiting" /\ l = line
      /\ ContextLines(a, b, s, j, ctx, c, n) = {line}
  BY DEF ContextLines
<1>2. /\ line.type = "game_context" /\ line.checksum = c
      /\ line.needsCursor <=> ctx = "AwaitingCursor"
      /\ line.snapshotKnown <=> known
      /\ line.nextIndex = snapshot.nextIndex
  BY Zenon
<1>3. /\ known => snapshot.nextIndex = j.snapshots[s][c].nextIndex
      /\ ~known => snapshot.nextIndex = n
  OBVIOUS
<1> QED BY <1>1, <1>2, <1>3, Zenon DEF IsContext

LEMMA ContextTyped ==
  ASSUME NEW a, NEW b, NEW s \in Sessions \cup {None}, NEW j \in Journals,
         NEW ctx, NEW c \in Checksums \cup {None}, NEW n \in Cursors,
         ctx = "AwaitingCursor" => c \in Checksums
  PROVE  Typed(ContextLines(a, b, s, j, ctx, c, n))
<1> DEFINE lines == ContextLines(a, b, s, j, ctx, c, n)
<1>1. IsFiniteSet(lines)
  <2>1. CASE lines = {}
    BY <2>1, FS_EmptySet
  <2>2. CASE lines # {}
    <3>1. PICK l \in lines : TRUE
      BY <2>2
    <3>2. lines = {l}
      BY ContextFacts
    <3> QED BY <3>2, FS_Singleton
  <2> QED BY <2>1, <2>2
<1>2. ASSUME NEW l \in lines PROVE ForClient(l)
  <2>1. /\ l.type = "game_context" /\ l.checksum = c
        /\ l.needsCursor => ctx = "AwaitingCursor"
        /\ l.snapshotKnown =>
             /\ s # None /\ c # None /\ j.snapshots[s][c] # None
             /\ l.nextIndex = j.snapshots[s][c].nextIndex
        /\ ~l.snapshotKnown => l.nextIndex = n
    BY ContextFacts
  <2>2. ASSUME s # None, c # None, j.snapshots[s][c] # None
        PROVE  j.snapshots[s][c].nextIndex \in Cursors
    BY <2>2 DEF Journals, Snapshots
  <2>3. l.nextIndex \in Cursors
    BY <2>1, <2>2
  <2> QED BY <2>1, <2>3 DEF ForClient, IsContext, IsAck
<1> QED BY <1>1, <1>2 DEF Typed

LEMMA RevisionFacts ==
  ASSUME NEW j \in Journals, NEW s \in Sessions
  PROVE  /\ Typed(RevisionLines(j, s))
         /\ \A l \in RevisionLines(j, s) :
              /\ l.type = "save_revision" /\ ~IsContext(l) /\ ~IsAck(l)
              /\ l.checksum \in PendingRevisions(j, s)
              /\ l.nextIndex = j.pending[s][l.checksum]
<1> DEFINE lines == RevisionLines(j, s)
           f == [c \in PendingRevisions(j, s) |-> RevisionLine(c, j.pending[s][c])]
<1>1. IsFiniteSet(PendingRevisions(j, s))
  BY LinkAssumption, FS_Subset DEF PendingRevisions
<1>2. f \in Surjection(PendingRevisions(j, s), lines)
  BY DEF Surjection, RevisionLines
<1>3. IsFiniteSet(lines)
  BY <1>1, <1>2, FS_Surjection
<1>4. ASSUME NEW l \in lines
      PROVE  /\ l.type = "save_revision" /\ ~IsContext(l) /\ ~IsAck(l)
             /\ l.checksum \in PendingRevisions(j, s)
             /\ l.nextIndex = j.pending[s][l.checksum]
             /\ ForClient(l)
  <2>1. PICK c \in PendingRevisions(j, s) : l = RevisionLine(c, j.pending[s][c])
    BY DEF RevisionLines
  <2>2. l.type = "save_revision" /\ l.checksum = c /\ l.nextIndex = j.pending[s][c]
    BY <2>1 DEF RevisionLine
  <2>3. c \in Checksums /\ j.pending[s][c] \in Cursors
    BY DEF PendingRevisions, Journals
  <2> QED BY <2>2, <2>3 DEF ForClient, IsContext, IsAck
<1> QED BY <1>3, <1>4, Zenon DEF Typed

LEMMA AckFacts ==
  ASSUME NEW i \in Cursors, NEW accepted
  PROVE  /\ Typed({AckLine(i, accepted)})
         /\ \A l \in {AckLine(i, accepted)} :
              /\ ~IsContext(l) /\ l.type = "item_ack"
              /\ l.index = i /\ (l.accepted <=> accepted)
<1>1. AckLine(i, accepted).type = "item_ack" /\ AckLine(i, accepted).index = i
      /\ AckLine(i, accepted).accepted = accepted
  BY DEF AckLine
<1>2. IsFiniteSet({AckLine(i, accepted)})
  BY FS_Singleton
<1> QED BY <1>1, <1>2, Zenon DEF Typed, ForClient, IsContext, IsAck

-----------------------------------------------------------------------------
\* What a step of the plugin tells the client.

\* A plugin that delivers and has told the client its cursor.
Open == active /\ Ready(context) /\ ~revisionsPending

\* A step that opens delivery, or sets the cursor back, sends the new context.
TellsContext ==
  \/ ~Open'
  \/ \E l \in sent' : sent' = {l} /\ IsContext(l) /\ LineFits(l, nextIndex')
  \/ /\ Open /\ nextIndex <= nextIndex'
     /\ \A l \in sent' : ~IsContext(l) /\ LineFits(l, nextIndex')

StepFacts == Typed(sent') /\ TellsContext /\ WaitsForFile'

\* A context sent by a delivery that is open fits its cursor.
LEMMA ReadyContext ==
  ASSUME NEW s, NEW j, NEW ctx, NEW n \in Cursors, NEW c, NEW a, NEW b,
         NEW l \in ContextLines(a, b, s, j, ctx, c, n), Ready(ctx)
  PROVE  /\ ContextLines(a, b, s, j, ctx, c, n) = {l}
         /\ IsContext(l) /\ LineFits(l, n)
<1>1. ctx # "AwaitingCursor"
  BY DEF Ready
<1>2. /\ ContextLines(a, b, s, j, ctx, c, n) = {l}
      /\ IsContext(l) /\ l.type = "game_context"
      /\ ctx # "AwaitingCursor" => ~l.needsCursor /\ l.nextIndex = n
  BY ContextFacts
<1>3. LineFits(l, n)
  BY <1>1, <1>2 DEF LineFits, IsContext, IsAck, Cursors
<1> QED BY <1>2, <1>3

LEMMA OpenContext ==
  ASSUME NEW s, NEW j, NEW ctx, NEW n \in Cursors, NEW c, NEW a, NEW b, Ready(ctx),
         ContextLines(a, b, s, j, ctx, c, n) # {}
  PROVE  \E l \in ContextLines(a, b, s, j, ctx, c, n) :
           /\ ContextLines(a, b, s, j, ctx, c, n) = {l}
           /\ IsContext(l) /\ LineFits(l, n)
<1>1. PICK l \in ContextLines(a, b, s, j, ctx, c, n) : TRUE
  OBVIOUS
<1> QED BY <1>1, ReadyContext

LEMMA QuietFacts ==
  ASSUME IInv, LinkTypeOK, UNCHANGED <<deliveryVars, revisionsPending, files>>,
         active' => active, sent' = {}
  PROVE  StepFacts
<1>1. Typed(sent')
  BY EmptyTyped
<1>2. WaitsForFile'
  BY DEF LinkTypeOK, FilesOK, WaitsForFile, deliveryVars
<1>3. TellsContext
  BY DEF TellsContext, Open, deliveryVars, IInv, DataTypeOK, Cursors
<1> QED BY <1>1, <1>2, <1>3 DEF StepFacts

LEMMA SaveLoadedFacts ==
  ASSUME IInv, LinkTypeOK, NEW c \in files, SaveLoaded(c), UNCHANGED files
  PROVE  StepFacts
<1>1. /\ session \in Sessions \cup {None} /\ journal \in Journals /\ c \in Checksums
      /\ files \subseteq Checksums
      /\ sent' = ContextLines(active, revisionsPending, session, journal,
                              "AwaitingCursor", c, 0)
      /\ context' = "AwaitingCursor" /\ checksum' = c
  BY DEF IInv, DataTypeOK, LinkTypeOK, FilesOK, SaveLoaded
<1>2. 0 \in Cursors
  BY SlotAssumption DEF Cursors
<1>3. Typed(sent')
  BY <1>1, <1>2, ContextTyped
<1> QED BY <1>1, <1>3 DEF StepFacts, TellsContext, Open, Ready, WaitsForFile

LEMMA SaveWrittenFacts ==
  ASSUME IInv, LinkTypeOK, NEW c \in Checksums, SaveWritten(c), IInv'
  PROVE  StepFacts
<1>1. /\ Ready(context) /\ context' = "ActiveRevision"
      /\ UNCHANGED <<sessionVars, nextIndex, revisionsPending>>
      /\ \/ sent' = {}
         \/ session # None /\ sent' = RevisionLines(journal', session)
  BY DEF SaveWritten, journalVars
<1>2. journal' \in Journals /\ nextIndex \in Cursors /\ (session # None => session \in Sessions)
  BY DEF IInv, DataTypeOK
<1>3. /\ Typed(sent')
      /\ \A l \in sent' : ~IsContext(l) /\ ~IsAck(l)
  <2>1. CASE sent' = {}
    BY <2>1, EmptyTyped
  <2>2. CASE session # None /\ sent' = RevisionLines(journal', session)
    BY <1>2, <2>2, RevisionFacts
  <2> QED BY <1>1, <2>1, <2>2
<1>4. Ready(context')
  BY <1>1 DEF Ready
<1>5. TellsContext
  BY <1>1, <1>2, <1>3 DEF TellsContext, Open, LineFits, Cursors, sessionVars
<1> QED BY <1>1, <1>3, <1>5 DEF StepFacts, WaitsForFile

LEMMA UpdateReadinessFacts ==
  ASSUME IInv, LinkTypeOK, NEW menu \in BOOLEAN, NEW loaded \in BOOLEAN,
         UpdateReadiness(menu, loaded), UNCHANGED files
  PROVE  StepFacts
<1>1. /\ UNCHANGED <<active, revisionsPending>>
      /\ \/ context' = "Waiting" /\ sent' = {}
         \/ /\ context' = "Provisional" /\ UNCHANGED <<checksum, nextIndex>>
            /\ sent' = ContextLines(active, revisionsPending, session, journal,
                                    "Provisional", checksum, nextIndex)
         \/ sent' = {} /\ UNCHANGED deliveryVars
  BY DEF UpdateReadiness, sessionVars, journalVars
<1>2. CASE context' = "Waiting" /\ sent' = {}
  BY <1>2, EmptyTyped DEF StepFacts, TellsContext, Open, Ready, WaitsForFile
<1>3. CASE sent' = {} /\ UNCHANGED deliveryVars
  BY <1>1, <1>3, QuietFacts
<1>4. CASE /\ context' = "Provisional" /\ UNCHANGED <<checksum, nextIndex>>
           /\ sent' = ContextLines(active, revisionsPending, session, journal,
                                   "Provisional", checksum, nextIndex)
  <2>1. /\ session \in Sessions \cup {None} /\ journal \in Journals
        /\ checksum \in Checksums \cup {None} /\ nextIndex \in Cursors
    BY DEF IInv, DataTypeOK
  <2>2. Typed(sent')
    BY <1>4, <2>1, ContextTyped
  <2>3. ASSUME Open' PROVE \E l \in sent' : sent' = {l} /\ IsContext(l) /\ LineFits(l, nextIndex')
    <3>1. active /\ ~revisionsPending /\ Ready("Provisional")
      BY <1>1, <2>3 DEF Open, Ready
    <3>2. sent' # {}
      BY <1>4, <3>1 DEF ContextLines
    <3> QED BY <1>4, <2>1, <3>1, <3>2, OpenContext
  <2> QED BY <1>4, <2>2, <2>3 DEF StepFacts, TellsContext, WaitsForFile
<1> QED BY <1>1, <1>2, <1>3, <1>4

\* The lines that open a session.
LEMMA BeginSyncFacts ==
  ASSUME IInv, LinkTypeOK, NEW s \in Sessions, BeginSync(s),
         UNCHANGED <<context, checksum, nextIndex, files>>
  PROVE  StepFacts
<1> DEFINE owed == PendingRevisions(journal, s) # {}
           contexts == ContextLines(TRUE, owed, s, journal, context, checksum, nextIndex)
<1>1. /\ revisionsPending' = owed /\ sent' = RevisionLines(journal, s) \cup contexts
  BY DEF BeginSync
<1>2. /\ journal \in Journals /\ checksum \in Checksums \cup {None} /\ nextIndex \in Cursors
      /\ context = "AwaitingCursor" => checksum \in Checksums
  BY DEF IInv, DataTypeOK, LinkTypeOK, FilesOK, WaitsForFile
<1>3. Typed(sent')
  <2>1. Typed(RevisionLines(journal, s)) /\ Typed(contexts)
    BY <1>2, RevisionFacts, ContextTyped
  <2> HIDE DEF contexts
  <2> QED BY <1>1, <2>1, FS_Union DEF Typed
<1>4. ASSUME Open' PROVE \E l \in sent' : sent' = {l} /\ IsContext(l) /\ LineFits(l, nextIndex')
  <2>1. ~owed /\ Ready(context)
    BY <1>1, <1>4 DEF Open
  <2>2. RevisionLines(journal, s) = {}
    BY <2>1 DEF RevisionLines
  <2>3. sent' = contexts
    BY <1>1, <2>2
  <2>4. \E l \in contexts : contexts = {l} /\ IsContext(l) /\ LineFits(l, nextIndex)
    <3>1. context # "Waiting"
      BY <2>1 DEF Ready
    <3>2. contexts # {}
      BY <2>1, <3>1 DEF ContextLines
    <3> QED BY <1>2, <2>1, <3>2, OpenContext, Zenon
  <2> QED BY <2>3, <2>4
<1>5. WaitsForFile'
  BY DEF LinkTypeOK, FilesOK, WaitsForFile
<1> QED BY <1>3, <1>4, <1>5 DEF StepFacts, TellsContext

LEMMA RejectedTyped ==
  Typed({[type |-> "session_rejected"]})
<1>1. [type |-> "session_rejected"].type = "session_rejected"
  OBVIOUS
<1>2. IsFiniteSet({[type |-> "session_rejected"]})
  BY FS_Singleton
<1> QED BY <1>1, <1>2 DEF Typed, ForClient, IsContext, IsAck

LEMMA OnSessionReadyFacts ==
  ASSUME IInv, LinkTypeOK, NEW s \in Sessions, OnSessionReady(s, TRUE), UNCHANGED files
  PROVE  StepFacts
<1>1. /\ UNCHANGED <<session, deliveryVars>>
      /\ \/ /\ sent' = {} \/ sent' = {[type |-> "session_rejected"]}
            /\ UNCHANGED <<active, revisionsPending>>
         \/ BeginSync(s)
  BY DEF OnSessionReady
<1>2. CASE BeginSync(s)
  BY <1>1, <1>2, BeginSyncFacts DEF deliveryVars
<1>3. CASE sent' = {} /\ UNCHANGED <<active, revisionsPending>>
  BY <1>1, <1>3, QuietFacts
<1>4. CASE /\ sent' = {[type |-> "session_rejected"]}
           /\ UNCHANGED <<active, revisionsPending>>
  <2>1. nextIndex \in Cursors
    BY DEF IInv, DataTypeOK
  <2> QED BY <1>1, <1>4, <2>1, RejectedTyped
          DEF StepFacts, TellsContext, Open, WaitsForFile, LinkTypeOK, FilesOK, deliveryVars,
              IsContext, LineFits, IsAck, Cursors
<1> QED BY <1>1, <1>2, <1>3, <1>4

LEMMA OnSaveContextFacts ==
  ASSUME IInv, LinkTypeOK, NEW c \in Checksums, NEW n \in Cursors, NEW items,
         OnSaveContext(c, n, TRUE, items), UNCHANGED files
  PROVE  StepFacts
<1>1. /\ UNCHANGED <<session, active, checksum, revisionsPending>>
      /\ \/ sent' = {} /\ UNCHANGED <<context, nextIndex>>
         \/ /\ nextIndex' = n /\ context' = "ActiveRevision"
            /\ sent' = ContextLines(active, revisionsPending, session, journal,
                                    "ActiveRevision", c, n)
  BY DEF OnSaveContext, RejectSaveContext, ActivateSave, sessionVars
<1>2. CASE sent' = {} /\ UNCHANGED <<context, nextIndex>>
  BY <1>1, <1>2, QuietFacts DEF deliveryVars
<1>3. CASE /\ nextIndex' = n /\ context' = "ActiveRevision"
           /\ sent' = ContextLines(active, revisionsPending, session, journal,
                                   "ActiveRevision", c, n)
  <2>1. session \in Sessions \cup {None} /\ journal \in Journals
    BY DEF IInv, DataTypeOK
  <2>2. Typed(sent')
    BY <1>3, <2>1, ContextTyped
  <2>3. ASSUME Open' PROVE \E l \in sent' : sent' = {l} /\ IsContext(l) /\ LineFits(l, nextIndex')
    <3>1. active /\ ~revisionsPending /\ Ready("ActiveRevision")
      BY <1>1, <2>3 DEF Open, Ready
    <3>2. sent' # {}
      BY <1>3, <3>1 DEF ContextLines
    <3> QED BY <1>3, <3>1, <3>2, OpenContext
  <2> QED BY <1>3, <2>2, <2>3 DEF StepFacts, TellsContext, WaitsForFile
<1> QED BY <1>1, <1>2, <1>3

LEMMA OnSaveRevisionAckFacts ==
  ASSUME IInv, LinkTypeOK, NEW c, NEW n, NEW accepted,
         OnSaveRevisionAck(c, n, accepted), IInv', UNCHANGED files
  PROVE  StepFacts
<1>1. /\ UNCHANGED <<session, active, deliveryVars>>
      /\ \/ sent' = {} /\ UNCHANGED revisionsPending
         \/ /\ ~revisionsPending'
            /\ sent' = ContextLines(active, FALSE, session, journal',
                                    context, checksum, nextIndex)
  BY DEF OnSaveRevisionAck, sessionVars, journalVars
<1>2. CASE sent' = {} /\ UNCHANGED revisionsPending
  BY <1>1, <1>2, QuietFacts
<1>3. CASE /\ ~revisionsPending'
           /\ sent' = ContextLines(active, FALSE, session, journal',
                                   context, checksum, nextIndex)
  <2>1. /\ session \in Sessions \cup {None} /\ journal' \in Journals
        /\ checksum \in Checksums \cup {None} /\ nextIndex \in Cursors
        /\ context = "AwaitingCursor" => checksum \in Checksums
    BY DEF IInv, DataTypeOK, LinkTypeOK, FilesOK, WaitsForFile
  <2>2. Typed(sent')
    BY <1>3, <2>1, ContextTyped
  <2>3. ASSUME Open' PROVE \E l \in sent' : sent' = {l} /\ IsContext(l) /\ LineFits(l, nextIndex')
    <3>1. active /\ Ready(context) /\ nextIndex' = nextIndex
      BY <1>1, <2>3 DEF Open, deliveryVars
    <3>2. sent' # {}
      BY <1>3, <3>1 DEF ContextLines, Ready
    <3> QED BY <1>3, <2>1, <3>1, <3>2, OpenContext
  <2>4. WaitsForFile'
    BY <1>1 DEF LinkTypeOK, FilesOK, WaitsForFile, deliveryVars
  <2> QED BY <2>2, <2>3, <2>4 DEF StepFacts, TellsContext
<1> QED BY <1>1, <1>2, <1>3

LEMMA OnItemFacts ==
  ASSUME IInv, LinkTypeOK, NEW i \in Cursors, NEW name, NEW interactive \in BOOLEAN,
         OnItem(i, name, interactive), UNCHANGED files
  PROVE  StepFacts
<1>1. /\ UNCHANGED <<active, deliveryVars, revisionsPending>>
      /\ \/ sent' = {}
         \/ sent' = {AckLine(i, FALSE)}
         \/ sent' = {AckLine(i, i < nextIndex)}
  BY DEF OnItem, sessionVars, journalVars
<1>2. nextIndex \in Cursors /\ nextIndex \in Int
  BY DEF IInv, DataTypeOK, Cursors
<1>3. CASE sent' = {}
  BY <1>1, <1>3, QuietFacts
<1>4. ASSUME NEW accepted \in BOOLEAN, accepted => i < nextIndex,
             sent' = {AckLine(i, accepted)}
      PROVE  StepFacts
  <2>1. Typed(sent')
    BY <1>4, AckFacts
  <2>2. \A l \in sent' : ~IsContext(l) /\ (IsAck(l) /\ l.accepted => l.index < nextIndex)
    BY <1>4, AckFacts
  <2>3. TellsContext
    BY <1>1, <1>2, <2>2 DEF TellsContext, Open, LineFits, deliveryVars
  <2>4. WaitsForFile'
    BY <1>1 DEF LinkTypeOK, FilesOK, WaitsForFile, deliveryVars
  <2> QED BY <2>1, <2>3, <2>4 DEF StepFacts
<1>5. CASE sent' = {AckLine(i, FALSE)}
  BY <1>4, <1>5
<1>6. CASE sent' = {AckLine(i, i < nextIndex)}
  <2>1. (i < nextIndex) \in BOOLEAN
    OBVIOUS
  <2> QED BY <1>4, <1>6, <2>1, Zenon
<1> QED BY <1>1, <1>3, <1>5, <1>6

LEMMA ReportResultFacts ==
  ASSUME IInv, LinkTypeOK, NEW accepted \in BOOLEAN, ReportResult(accepted),
         UNCHANGED files
  PROVE  StepFacts
<1>1. UNCHANGED <<context, checksum>>
  BY DEF ReportResult
<1>2. CASE /\ sent' = {} /\ UNCHANGED <<nextIndex, active, revisionsPending>>
  BY <1>1, <1>2, QuietFacts DEF deliveryVars
<1>3. CASE InstallResult(accepted)
  <2>1. pending.name \in Sessions /\ UNCHANGED nextIndex
    BY <1>3 DEF InstallResult, IInv, RequestInv
  <2> QED BY <1>1, <1>2, <1>3, <2>1, BeginSyncFacts DEF InstallResult
<1>4. CASE ResetResult(accepted) \/ ReplayResult(accepted)
  BY <1>2, <1>4 DEF ResetResult, ReplayResult
<1>5. CASE ItemResult(accepted)
  <2>1. /\ pending.index \in Cursors /\ nextIndex \in Cursors /\ pending.index = nextIndex
        /\ Ready(context) /\ ~revisionsPending
        /\ UNCHANGED <<active, revisionsPending>>
        /\ sent' = {AckLine(pending.index, accepted)}
        /\ IF accepted THEN nextIndex' = pending.index + 1 ELSE UNCHANGED nextIndex
    BY <1>5 DEF ItemResult, IInv, RequestInv, PendingItemIsNext, DataTypeOK, Requests
  <2>2. nextIndex <= nextIndex' /\ (accepted => pending.index < nextIndex')
    BY <2>1 DEF Cursors
  <2>3. Typed(sent')
    BY <2>1, AckFacts
  <2>4. \A l \in sent' : ~IsContext(l) /\ (IsAck(l) /\ l.accepted => l.index < nextIndex')
    <3>1. \A l \in sent' : /\ ~IsContext(l) /\ l.index = pending.index
                           /\ (l.accepted <=> accepted)
      BY <2>1, AckFacts
    <3> QED BY <2>2, <3>1, Zenon
  <2>5. TellsContext
    BY <1>1, <2>1, <2>2, <2>4 DEF TellsContext, Open, LineFits
  <2> QED BY <1>1, <2>3, <2>5 DEF StepFacts, LinkTypeOK, FilesOK, WaitsForFile
<1> QED BY <1>3, <1>4, <1>5 DEF ReportResult

-----------------------------------------------------------------------------
\* The cursor of the client.

\* What the client may send is not past the cursor of the world that is open, once
\* it has read the plugin's contexts, and so is what it will count as acknowledged.
LiveInv ==
  Open =>
    /\ NewestFit(toClient, nextIndex)
    /\ NoContext(toClient) /\ liveCursor # None =>
         /\ liveCursor <= nextIndex
         /\ ~stale /\ ack # None /\ ack.accepted => ack.index < nextIndex

\* An acknowledgement that counts is for the item the cursor is at.
SyncInv ==
  /\ ~connected => liveCursor = None
  /\ ~stale /\ liveCursor # None /\ syncPc \in {"SendItem", "AwaitAck"} =>
       liveCursor = syncIndex

LInv == IInv /\ LinkTypeOK /\ LiveInv /\ SyncInv

\* What the plugin queues for the client, or what is left of it while there is no
\* connection, keeps LiveInv.
LEMMA QueueStep ==
  ASSUME LInv, IInv', Typed(sent'), TellsContext, QueueForClient(sent'),
         UNCHANGED <<connected, liveCursor, ack, stale>>
  PROVE  ToClientOK' /\ LiveInv' /\ Lines(toClient') \subseteq Lines(toClient) \cup sent'
<1> DEFINE queued == InOrder(sent')
<1>1. /\ IsQueue(queued) /\ Lines(queued) \subseteq sent' /\ (sent' # {} => Len(queued) > 0)
      /\ Len(queued) \in Nat
  BY OrderOfLines, QueueFacts DEF Typed
<1>2. IsQueue(toClient) /\ \A l \in Lines(toClient) : ForClient(l)
  BY DEF LInv, LinkTypeOK, ToClientOK
<1>3. nextIndex \in Int /\ nextIndex' \in Int
  BY DEF LInv, IInv, DataTypeOK, Cursors
<1>4. CASE toClient' = toClient \o queued
  <2> HIDE DEF queued
  <2>1. /\ IsQueue(toClient') /\ Lines(toClient') \subseteq Lines(toClient) \cup sent'
        /\ Lines(toClient) \subseteq Lines(toClient')
        /\ Lines(queued) \subseteq Lines(toClient')
    BY <1>1, <1>2, <1>4, ConcatQueue
  <2>2. ToClientOK'
    BY <1>2, <2>1 DEF ToClientOK, Typed
  <2>3. ASSUME NEW l \in sent', sent' = {l}, IsContext(l), LineFits(l, nextIndex')
        PROVE  LiveInv'
    <3>1. Len(queued) > 0 /\ \A k \in Lines(queued) : k = l
      BY <1>1, <2>3
    <3>2. NewestFit(toClient', nextIndex')
      BY <1>1, <1>2, <1>4, <2>3, <3>1, FitContext
    <3>3. PICK k \in Lines(queued) : TRUE
      <4>1. 1 \in 1..Len(queued)
        BY <1>1, <3>1
      <4>2. queued[1] \in Lines(queued)
        BY <1>1, <4>1, QueueFacts
      <4> QED BY <4>2
    <3>4. ~NoContext(toClient')
      BY <2>1, <2>3, <3>1, <3>3 DEF NoContext
    <3> QED BY <3>2, <3>4 DEF LiveInv
  <2>4. ASSUME Open, nextIndex <= nextIndex',
               \A l \in sent' : ~IsContext(l) /\ LineFits(l, nextIndex')
        PROVE  LiveInv'
    <3>1. NewestFit(toClient, nextIndex)
      BY <2>4 DEF LInv, LiveInv
    <3>2. \A l \in Lines(toClient) : /\ IsContext(l) => l.nextIndex \in Int
                                     /\ IsAck(l) => l.index \in Int
      BY <1>2 DEF ForClient, Cursors
    <3>3. NewestFit(toClient', nextIndex')
      BY <1>1, <1>2, <1>3, <1>4, <2>4, <3>1, <3>2, FitMore
    <3>4. ASSUME NoContext(toClient'), liveCursor' # None
          PROVE  /\ liveCursor' <= nextIndex'
                 /\ ~stale' /\ ack' # None /\ ack'.accepted => ack'.index < nextIndex'
      <4>1. NoContext(toClient) /\ liveCursor # None
        BY <2>1, <3>4 DEF NoContext
      <4>2. /\ liveCursor <= nextIndex
            /\ ~stale /\ ack # None /\ ack.accepted => ack.index < nextIndex
        BY <2>4, <4>1 DEF LInv, LiveInv
      <4>3. liveCursor \in Int /\ (ack # None => ack.index \in Int)
        BY <4>1 DEF LInv, LinkTypeOK, BridgeOK
      <4> QED BY <1>3, <2>4, <4>2, <4>3
    <3> QED BY <3>3, <3>4 DEF LiveInv
  <2> QED BY <2>1, <2>2, <2>3, <2>4 DEF TellsContext, LiveInv
<1>5. ASSUME ~connected, NEW lost \in 1..Len(queued),
             toClient' = SubSeq(queued, lost + 1, Len(queued))
      PROVE  ToClientOK' /\ LiveInv' /\ Lines(toClient') \subseteq Lines(toClient) \cup sent'
  <2> HIDE DEF queued
  <2>1. lost + 1 \in Nat \ {0} /\ Len(queued) \in 0..Len(queued)
    BY <1>1
  <2>2. IsQueue(toClient') /\ Lines(toClient') \subseteq sent'
    BY <1>1, <1>5, <2>1, PartOfQueue
  <2>3. ToClientOK'
    BY <2>2 DEF ToClientOK, Typed
  <2>4. liveCursor' = None
    BY <1>5 DEF LInv, SyncInv
  <2>5. ASSUME Open' PROVE \A l \in sent' : LineFits(l, nextIndex')
    BY <2>5 DEF TellsContext
  <2>6. ASSUME Open' PROVE NewestFit(toClient', nextIndex')
    BY <2>2, <2>5, <2>6, FitAll
  <2> QED BY <2>2, <2>3, <2>4, <2>6 DEF LiveInv
<1> QED BY <1>4, <1>5 DEF QueueForClient

\* A step of the client that leaves the plugin and the lines to the client alone.
LEMMA SameLines ==
  ASSUME LInv, UNCHANGED <<vars, toClient>>,
         liveCursor' \in {liveCursor, None}, ack' \in {ack, None}, stale' = stale
  PROVE  LiveInv'
<1>1. Open' = Open /\ nextIndex' = nextIndex
  BY DEF Open, vars, sessionVars, deliveryVars, journalVars
<1> QED BY <1>1 DEF LInv, LiveInv
-----------------------------------------------------------------------------
\* The plugin in the link is a SessionRuntime.

PluginActs ==
  \/ PollStarts \/ PollEnds \/ PluginReads \/ GameFinishes \/ GameRefuses
  \/ \E c \in Checksums : LoadSave(c) \/ SaveGame(c)
  \/ EnterWorld \/ QuitToMenu

\* The line the plugin reads.
LEMMA HeadLine ==
  ASSUME LinkTypeOK, taken > 0
  PROVE  toPlugin # <<>> /\ Head(toPlugin) \in Lines(toPlugin) /\ ForPlugin(Head(toPlugin))
<1>1. /\ IsQueue(toPlugin) /\ taken \in 0..Len(toPlugin)
      /\ \A l \in Lines(toPlugin) : ForPlugin(l)
  BY DEF LinkTypeOK, ToPluginOK
<1>2. Len(toPlugin) > 0
  <2>1. Len(toPlugin) \in Nat
    BY <1>1, QueueFacts
  <2> QED BY <1>1, <2>1
<1>3. toPlugin # <<>> /\ Head(toPlugin) \in Lines(toPlugin)
  BY <1>1, <1>2, QueueFacts, TailQueue
<1> QED BY <1>1, <1>3

LEMMA HandleLineIsEvent ==
  ASSUME NEW line, ForPlugin(line), HandleLine(line)
  PROVE  ClientEvents
<1>1. CASE line.type = "connected" /\ Connected
  BY <1>1 DEF ClientEvents
<1>2. CASE line.type = "disconnected" /\ Disconnected
  BY <1>2 DEF ClientEvents
<1>3. CASE line.type = "session_ready" /\ \E s \in OfferedSlots : OnSessionReady(s, TRUE)
  BY <1>3, LinkAssumption DEF ClientEvents
<1>4. CASE line.type = "session_end" /\ OnSessionEnd
  BY <1>4 DEF ClientEvents
<1>5. CASE /\ line.type = "save_context"
           /\ OnSaveContext(line.checksum, line.nextIndex, TRUE, line.items)
  BY <1>5 DEF ClientEvents, ForPlugin
<1>6. CASE /\ line.type = "save_revision_ack"
           /\ OnSaveRevisionAck(line.checksum, line.nextIndex, line.accepted)
  BY <1>6 DEF ClientEvents, ForPlugin
<1>7. CASE line.type = "item" /\ OnItem(line.index, line.name, world = "Playing")
  <2>1. (world = "Playing") \in BOOLEAN
    OBVIOUS
  <2>2. line.index \in Cursors /\ line.name \in Items
    BY <1>7 DEF ForPlugin
  <2> QED BY <1>7, <2>1, <2>2, Zenon DEF ClientEvents
<1> QED BY <1>1, <1>2, <1>3, <1>4, <1>5, <1>6, <1>7 DEF HandleLine

LEMMA RuntimeOfPlugin ==
  ASSUME IInv, LinkTypeOK, PluginActs
  PROVE  Next /\ QueueForClient(sent')
<1>1. CASE PollStarts
  <2>1. NextRequest(world = "Playing") /\ QueueForClient(sent') /\ (world = "Playing") \in BOOLEAN
    BY <1>1 DEF PollStarts, PluginStep
  <2> QED BY <2>1 DEF Next
<1>2. CASE PollEnds
  BY <1>2 DEF PollEnds, PluginStep, Next
<1>3. CASE PluginReads
  <2>1. taken > 0 /\ HandleLine(Head(toPlugin)) /\ QueueForClient(sent')
    BY <1>3 DEF PluginReads, PluginStep
  <2> QED BY <2>1, HeadLine, HandleLineIsEvent DEF Next
<1>4. CASE GameFinishes \/ GameRefuses
  <2>1. PICK accepted \in BOOLEAN : ResultOf(accepted) /\ QueueForClient(sent')
    BY <1>4 DEF GameFinishes, GameRefuses, PluginStep
  <2>2. requestId \in 0..MaxRequests /\ requestId <= requestId
    BY BoundsAssumption DEF IInv, DataTypeOK
  <2> QED BY <2>1, <2>2 DEF ResultOf, Results, Next
<1>5. ASSUME NEW c \in Checksums, LoadSave(c) \/ SaveGame(c)
      PROVE  Next /\ QueueForClient(sent')
  BY <1>5 DEF LoadSave, SaveGame, PluginStep, Next, GameReports
<1>6. CASE EnterWorld \/ QuitToMenu
  BY <1>6 DEF EnterWorld, QuitToMenu, PluginStep, Next, GameReports
<1> QED BY <1>1, <1>2, <1>3, <1>4, <1>5, <1>6 DEF PluginActs

LEMMA HandleLineFacts ==
  ASSUME IInv, IInv', LinkTypeOK, NEW line, ForPlugin(line), HandleLine(line), UNCHANGED files
  PROVE  StepFacts
<1>1. CASE line.type = "session_ready" /\ \E s \in OfferedSlots : OnSessionReady(s, TRUE)
  BY <1>1, LinkAssumption, OnSessionReadyFacts
<1>2. CASE Connected \/ Disconnected \/ OnSessionEnd
  <2>1. /\ UNCHANGED <<deliveryVars, revisionsPending>> /\ sent' = {}
        /\ active' = active \/ active' = FALSE
    BY <1>2 DEF Connected, Disconnected, OnSessionEnd, journalVars
  <2> QED BY <2>1, QuietFacts
<1>3. CASE /\ line.type = "save_context"
           /\ OnSaveContext(line.checksum, line.nextIndex, TRUE, line.items)
  BY <1>3, OnSaveContextFacts DEF ForPlugin
<1>4. CASE /\ line.type = "save_revision_ack"
           /\ OnSaveRevisionAck(line.checksum, line.nextIndex, line.accepted)
  BY <1>4, OnSaveRevisionAckFacts
<1>5. CASE line.type = "item" /\ OnItem(line.index, line.name, world = "Playing")
  <2>1. (world = "Playing") \in BOOLEAN
    OBVIOUS
  <2> QED BY <1>5, <2>1, OnItemFacts DEF ForPlugin
<1> QED BY <1>1, <1>2, <1>3, <1>4, <1>5 DEF HandleLine

LEMMA PluginFacts ==
  ASSUME IInv, IInv', LinkTypeOK, PluginActs
  PROVE  StepFacts
<1>1. CASE PollStarts \/ PollEnds
  <2>1. /\ UNCHANGED <<active, deliveryVars, revisionsPending, files>> /\ sent' = {}
    BY <1>1 DEF PollStarts, PollEnds, PluginStep, NextRequest, DrainEnds, sessionVars,
                journalVars, gameVars
  <2> QED BY <2>1, QuietFacts
<1>2. CASE PluginReads
  <2>1. taken > 0 /\ HandleLine(Head(toPlugin)) /\ UNCHANGED files
    BY <1>2 DEF PluginReads, PluginStep, gameVars
  <2> QED BY <2>1, HeadLine, HandleLineFacts
<1>3. CASE GameFinishes \/ GameRefuses
  <2>1. PICK accepted \in BOOLEAN : ResultOf(accepted) /\ UNCHANGED files
    BY <1>3 DEF GameFinishes, GameRefuses, PluginStep, gameVars
  <2>2. CASE ReportResult(accepted)
    BY <2>1, <2>2, ReportResultFacts
  <2>3. CASE IgnoreCompletion(requestId)
    <3>1. UNCHANGED <<active, deliveryVars, revisionsPending>> /\ sent' = {}
      BY <2>3 DEF IgnoreCompletion, sessionVars, journalVars
    <3> QED BY <2>1, <3>1, QuietFacts
  <2> QED BY <2>1, <2>2, <2>3 DEF ResultOf, CompleteRequest
<1>4. ASSUME NEW c \in Checksums, LoadSave(c)
      PROVE  StepFacts
  BY <1>4, SaveLoadedFacts DEF LoadSave, PluginStep
<1>5. ASSUME NEW c \in Checksums, SaveGame(c)
      PROVE  StepFacts
  <2>1. CASE SaveWritten(c)
    BY <2>1, SaveWrittenFacts
  <2>2. CASE IgnoreSaveWritten
    <3>1. UNCHANGED <<active, deliveryVars, revisionsPending>> /\ sent' = {} /\ ~Ready(context)
      BY <2>2 DEF IgnoreSaveWritten, sessionVars, journalVars
    <3>2. files' = files \cup {c}
      BY <1>5 DEF SaveGame
    <3> QED BY <3>1, <3>2, EmptyTyped
            DEF StepFacts, TellsContext, Open, WaitsForFile, LinkTypeOK, FilesOK, deliveryVars
  <2> QED BY <1>5, <2>1, <2>2 DEF SaveGame, PluginStep
<1>6. CASE EnterWorld \/ QuitToMenu
  BY <1>6, UpdateReadinessFacts DEF EnterWorld, QuitToMenu, PluginStep
<1> QED BY <1>1, <1>2, <1>3, <1>4, <1>5, <1>6 DEF PluginActs

-----------------------------------------------------------------------------
\* LInv is inductive: the plugin and the player.

LEMMA FilesKept ==
  ASSUME LInv, UNCHANGED <<vars, files>>
  PROVE  FilesOK'
BY DEF LInv, LinkTypeOK, FilesOK, WaitsForFile, vars, deliveryVars

LEMMA PluginSide ==
  ASSUME LInv, PluginActs
  PROVE  /\ LInv'
         /\ StepFacts
         /\ Lines(toClient') \subseteq Lines(toClient) \cup sent'
         /\ Lines(toPlugin') \subseteq Lines(toPlugin)
<1>1. IInv /\ LinkTypeOK
  BY DEF LInv
<1>2. Next /\ QueueForClient(sent')
  BY <1>1, RuntimeOfPlugin
<1>3. IInv'
  BY <1>1, <1>2, StepLemma
<1>4. StepFacts
  BY <1>1, <1>3, PluginFacts
<1>5. UNCHANGED <<linkVars, ackVars, serverVars, ledgerVars, syncVars, sessionSent,
                  liveCursor, syncEvent>>
  BY DEF PluginActs, PollStarts, PollEnds, PluginReads, GameFinishes, GameRefuses,
         LoadSave, SaveGame, EnterWorld, QuitToMenu, bridgeVars
<1>6. ToClientOK' /\ LiveInv' /\ Lines(toClient') \subseteq Lines(toClient) \cup sent'
  BY <1>2, <1>3, <1>4, <1>5, QueueStep DEF StepFacts, linkVars, ackVars
<1>7. ToPluginOK' /\ Lines(toPlugin') \subseteq Lines(toPlugin)
  <2>1. ToPluginOK /\ Len(toPlugin) \in Nat /\ IsQueue(toPlugin)
    BY <1>1, QueueFacts DEF LinkTypeOK, ToPluginOK
  <2>2. CASE PluginReads
    <3>1. taken > 0 /\ toPlugin' = Tail(toPlugin) /\ taken' = taken - 1
      BY <2>2 DEF PluginReads
    <3>2. toPlugin # <<>>
      BY <1>1, <3>1, HeadLine
    <3>3. /\ IsQueue(toPlugin') /\ Lines(toPlugin') \subseteq Lines(toPlugin)
          /\ Len(toPlugin') = Len(toPlugin) - 1
      BY <2>1, <3>1, <3>2, TailQueue
    <3>4. taken' \in 0..Len(toPlugin')
      BY <2>1, <3>1, <3>3 DEF ToPluginOK
    <3> QED BY <2>1, <3>3, <3>4 DEF ToPluginOK
  <2>3. CASE ~PluginReads
    <3>1. toPlugin' = toPlugin /\ taken' \in {taken, Len(toPlugin)}
      BY <2>3 DEF PluginActs, PollStarts, PollEnds, GameFinishes, GameRefuses,
         LoadSave, SaveGame, EnterWorld, QuitToMenu, bridgeVars
    <3> QED BY <2>1, <3>1 DEF ToPluginOK
  <2> QED BY <2>2, <2>3
<1>8. BridgeOK' /\ SyncInv'
  BY <1>5 DEF LInv, LinkTypeOK, BridgeOK, SyncInv, linkVars, ackVars, serverVars,
              ledgerVars, syncVars
<1>9. FilesOK'
  <2>1. files' = files \/ \E c \in Checksums : files' = files \cup {c}
    BY DEF PluginActs, PollStarts, PollEnds, PluginReads, GameFinishes, GameRefuses,
           LoadSave, SaveGame, EnterWorld, QuitToMenu, gameVars
  <2> QED BY <1>1, <1>4, <2>1 DEF StepFacts, LinkTypeOK, FilesOK
<1> QED BY <1>3, <1>4, <1>6, <1>7, <1>8, <1>9 DEF LInv, LinkTypeOK

-----------------------------------------------------------------------------
\* LInv is inductive: the link and the client.

\* A line for the plugin, if there is a connection.
LEMMA SendStep ==
  ASSUME ToPluginOK, NEW l, ForPlugin(l), Send(l), UNCHANGED taken
  PROVE  ToPluginOK' /\ Lines(toPlugin') \subseteq Lines(toPlugin) \cup {l}
<1>1. /\ IsQueue(toPlugin) /\ taken \in 0..Len(toPlugin) /\ Len(toPlugin) \in Nat
      /\ \A k \in Lines(toPlugin) : ForPlugin(k)
  BY QueueFacts DEF ToPluginOK
<1>2. CASE toPlugin' = toPlugin
  BY <1>2 DEF ToPluginOK
<1>3. CASE toPlugin' = Append(toPlugin, l)
  <2>1. /\ IsQueue(toPlugin') /\ Lines(toPlugin') = Lines(toPlugin) \cup {l}
        /\ Len(toPlugin') = Len(toPlugin) + 1
    BY <1>1, <1>3, AppendQueue
  <2> QED BY <1>1, <2>1 DEF ToPluginOK
<1> QED BY <1>2, <1>3 DEF Send

\* The rest of a step of the client: what remains to be shown is what it does to its
\* own state and to the lines for the plugin.
LEMMA ClientRest ==
  ASSUME LInv, UNCHANGED <<vars, toClient, files>>, ToPluginOK', BridgeOK',
         LiveInv', SyncInv'
  PROVE  LInv'
<1>1. IInv'
  BY StepLemma DEF LInv
<1>2. FilesOK'
  BY FilesKept
<1>3. ToClientOK'
  BY DEF LInv, LinkTypeOK, ToClientOK
<1> QED BY <1>1, <1>2, <1>3 DEF LInv, LinkTypeOK

\* The steps of sync_loop.
LEMMA WakeSyncLoopStep ==
  ASSUME LInv, WakeSyncLoop, UNCHANGED <<vars, taken, toClient, files>>
  PROVE  LInv'
<1> USE DEF WakeSyncLoop, linkVars, ackVars, serverVars, ledgerVars
<1>1. ToPluginOK'
  <2>1. ForPlugin([type |-> "session_ready"])
    BY DEF ForPlugin
  <2>2. ToPluginOK
    BY DEF LInv, LinkTypeOK
  <2>3. CASE Send([type |-> "session_ready"])
    BY <2>1, <2>2, <2>3, SendStep
  <2>4. CASE UNCHANGED toPlugin
    BY <2>2, <2>4 DEF ToPluginOK
  <2> QED BY <2>3, <2>4
<1>2. BridgeOK' /\ SyncInv'
  BY DEF LInv, LinkTypeOK, BridgeOK, SyncInv
<1> QED BY <1>1, <1>2, SameLines, ClientRest

LEMMA SendItemStep ==
  ASSUME LInv, SendItem, UNCHANGED <<vars, taken, toClient, files>>
  PROVE  LInv'
<1> USE DEF SendItem, linkVars, serverVars, ledgerVars
<1>1. liveCursor \in Nat /\ liveCursor < received /\ received \in Cursors
  BY DEF HasItemToSend, LInv, LinkTypeOK, BridgeOK
<1>2. liveCursor \in Cursors /\ liveCursor \in 0..(MaxIndex - 1)
  BY <1>1, SlotAssumption DEF Cursors
<1>3. ToPluginOK'
  <2>1. Inventory[liveCursor] \in Items
    BY <1>2, BridgeAssumption
  <2>2. ForPlugin([type |-> "item", index |-> liveCursor, name |-> Inventory[liveCursor]])
    BY <1>2, <2>1 DEF ForPlugin
  <2> QED BY <2>2, SendStep DEF LInv, LinkTypeOK
<1>4. BridgeOK' /\ SyncInv'
  BY <1>1 DEF LInv, LinkTypeOK, BridgeOK, SyncInv
<1>5. LiveInv'
  BY DEF LInv, LiveInv, Open, vars, sessionVars, deliveryVars, journalVars
<1> QED BY <1>3, <1>4, <1>5, ClientRest

LEMMA AckArrivesStep ==
  ASSUME LInv, AckArrives, UNCHANGED <<vars, taken, toClient, files>>
  PROVE  LInv'
<1> USE DEF AckArrives, linkVars, ackVars, serverVars, ledgerVars
<1>1. ToPluginOK'
  BY DEF LInv, LinkTypeOK, ToPluginOK
<1>2. CASE UNCHANGED liveCursor
  <2>1. BridgeOK' /\ SyncInv'
    BY <1>2 DEF LInv, LinkTypeOK, BridgeOK, SyncInv
  <2> QED BY <1>1, <1>2, <2>1, SameLines, ClientRest
<1>3. CASE ~ContextIsStale /\ AckIsForThisItem /\ liveCursor # None /\ liveCursor' = liveCursor + 1
  <2>1. /\ ~stale /\ liveCursor = syncIndex /\ ack # None /\ ack.index = syncIndex /\ ack.accepted
        /\ liveCursor \in Nat /\ connected
    BY <1>3 DEF LInv, LinkTypeOK, BridgeOK, SyncInv, ContextIsStale, AckIsForThisItem
  <2>2. BridgeOK' /\ SyncInv'
    BY <1>3, <2>1, SlotAssumption DEF LInv, LinkTypeOK, BridgeOK, SyncInv
  <2>3. LiveInv'
    <3>1. Open' = Open /\ nextIndex' = nextIndex /\ nextIndex \in Int
      BY DEF Open, vars, sessionVars, deliveryVars, journalVars, LInv, IInv, DataTypeOK, Cursors
    <3>2. ASSUME Open, NoContext(toClient) PROVE ack.index < nextIndex
      BY <2>1, <3>2, SlotAssumption DEF LInv, LiveInv
    <3> QED BY <1>3, <2>1, <3>1, <3>2 DEF LInv, LiveInv
  <2> QED BY <1>1, <2>2, <2>3, ClientRest
<1> QED BY <1>2, <1>3

LEMMA QuietClientStep ==
  ASSUME LInv, UNCHANGED <<vars, taken, toClient, files>>,
         \/ SessionReadySent \/ ItemSentToPlugin \/ NothingToDeliver \/ RetryDelayEnds
         \/ AckTimesOut \/ OnConnected \/ OnRetrieved \/ OnReceivedItems
         \/ OnConnectionClosed \/ EndSession
  PROVE  LInv' /\ Lines(toPlugin') \subseteq Lines(toPlugin) \cup {[type |-> "session_end"]}
<1> USE DEF SessionReadySent, ItemSentToPlugin, NothingToDeliver, RetryDelayEnds,
            AckTimesOut, OnConnected, OnRetrieved, OnReceivedItems, OnConnectionClosed,
            EndSession, linkVars, ackVars, serverVars, ledgerVars, syncVars
<1>1. ToPluginOK' /\ Lines(toPlugin') \subseteq Lines(toPlugin) \cup {[type |-> "session_end"]}
  <2>1. ToPluginOK /\ ForPlugin([type |-> "session_end"])
    BY DEF LInv, LinkTypeOK, ForPlugin
  <2>2. CASE Send([type |-> "session_end"])
    BY <2>1, <2>2, SendStep
  <2>3. CASE UNCHANGED toPlugin
    BY <2>1, <2>3 DEF ToPluginOK
  <2> QED BY <2>2, <2>3
<1>2. BridgeOK'
  <2>1. BridgeOK
    BY DEF LInv, LinkTypeOK
  <2>2. CASE OnRetrieved
    BY <2>1, <2>2 DEF BridgeOK, CursorMaps
  <2>3. CASE OnReceivedItems
    <3>1. owned + 1 \in Cursors
      BY <2>1, <2>3, SlotAssumption DEF BridgeOK, Cursors
    <3> QED BY <2>1, <2>3, <3>1 DEF BridgeOK
  <2>4. CASE OnConnected \/ EndSession
    <3>1. 0 \in Cursors
      BY SlotAssumption DEF Cursors
    <3> QED BY <2>1, <2>4, <3>1 DEF BridgeOK
  <2>5. CASE ~OnRetrieved /\ ~OnReceivedItems /\ ~OnConnected /\ ~EndSession
    <3>1. UNCHANGED <<owned, received, ledgerVars, liveCursor, syncIndex, ack>>
      BY <2>5
    <3> QED BY <2>1, <3>1 DEF BridgeOK
  <2> QED BY <2>2, <2>3, <2>4, <2>5
<1>3. liveCursor' \in {liveCursor, None} /\ ack' = ack /\ stale' = stale
  OBVIOUS
<1>4. SyncInv'
  BY DEF LInv, SyncInv
<1> QED BY <1>1, <1>2, <1>3, <1>4, SameLines, ClientRest

\* The lines of the plugin.
LEMMA ResolveFacts ==
  ASSUME BridgeOK, NEW c \in Checksums, NEW known, NEW n \in Cursors, NEW items
  PROVE  Resolve(c, known, n, items) \in Cursors \cup {None}
<1>1. ledger[c] \in Cursors \cup {None}
  BY DEF BridgeOK, CursorMaps
<1>2. ServerCursor(c) \in Cursors
  <2>1. remote # None => remote[c] \in Cursors \cup {None}
    BY DEF BridgeOK, CursorMaps
  <2> QED BY <2>1, SlotAssumption DEF ServerCursor, Cursors
<1> QED BY <1>1, <1>2 DEF Resolve

LEMMA PersistFacts ==
  ASSUME BridgeOK, NEW c \in Checksums, NEW n \in Cursors, PersistCursor(c, n)
  PROVE  ledger' \in CursorMaps /\ mirror' \in CursorMaps /\ remote' \in CursorMaps \cup {None}
<1> DEFINE cursors == [NoCursors EXCEPT ![c] = n]
<1>1. ledger \in CursorMaps /\ mirror \in CursorMaps /\ remote \in CursorMaps \cup {None}
  BY DEF BridgeOK
<1>2. ledger' \in CursorMaps
  BY <1>1 DEF PersistCursor, CursorMaps
<1>3. cursors \in CursorMaps
  BY DEF NoCursors, CursorMaps
<1>4. PushRemote(cursors)
  BY DEF PersistCursor
<1> HIDE DEF cursors
<1>5. mirror' \in CursorMaps /\ remote' \in CursorMaps \cup {None}
  BY <1>1, <1>3, <1>4 DEF PushRemote, CursorMaps
<1> QED BY <1>2, <1>5

\* What the client answers to a loaded save.
ContextAnswer(line) ==
  LET n == Resolve(line.checksum, line.snapshotKnown, line.nextIndex, line.items) IN
  \/ UNCHANGED <<ledgerVars, toPlugin>>
  \/ /\ n # None /\ AnswerSaveContext(line.checksum, n)
     /\ \/ ledger[line.checksum] # None /\ UNCHANGED ledgerVars
        \/ ledger[line.checksum] = None /\ PersistCursor(line.checksum, n)

LEMMA AnswerTyped ==
  ASSUME NEW c \in Checksums, NEW n \in Cursors
  PROVE  ForPlugin([type |-> "save_context", checksum |-> c, nextIndex |-> n,
                    items |-> PersistentBefore(n)])
<1>1. PersistentBefore(n) \subseteq Items
  BY SlotAssumption DEF PersistentBefore
<1> QED BY <1>1 DEF ForPlugin

LEMMA OnGameContextStep ==
  ASSUME LInv, NEW line, IsContext(line), ForClient(line), OnGameContext(line),
         UNCHANGED <<taken, files>>
  PROVE  /\ ToPluginOK' /\ BridgeOK'
         /\ SyncInv' \/ ~connected
         /\ stale' = TRUE
         /\ liveCursor' = IF line.needsCursor THEN liveCursor ELSE line.nextIndex
         /\ UNCHANGED connected
         /\ \/ UNCHANGED <<ledgerVars, toPlugin>>
            \/ line.needsCursor /\ ContextAnswer(line)
<1> DEFINE n == Resolve(line.checksum, line.snapshotKnown, line.nextIndex, line.items)
<1>1. /\ stale' = TRUE /\ UNCHANGED <<linkVars, ack, serverVars, syncVars>>
      /\ liveCursor' = IF line.needsCursor THEN liveCursor ELSE line.nextIndex
      /\ \/ UNCHANGED <<ledgerVars, toPlugin>>
         \/ line.needsCursor /\ ContextAnswer(line)
  BY DEF OnGameContext, ContextAnswer
<1>2. line.nextIndex \in Cursors /\ (line.needsCursor => line.checksum \in Checksums)
  BY DEF ForClient
<1>3. ToPluginOK /\ BridgeOK
  BY DEF LInv, LinkTypeOK
<1>4. ToPluginOK' /\ ledger' \in CursorMaps /\ mirror' \in CursorMaps
      /\ remote' \in CursorMaps \cup {None}
  <2>1. CASE UNCHANGED <<ledgerVars, toPlugin>>
    BY <1>3, <2>1 DEF ToPluginOK, BridgeOK, ledgerVars
  <2>2. CASE line.needsCursor /\ ContextAnswer(line) /\ ~UNCHANGED <<ledgerVars, toPlugin>>
    <3>1. /\ n # None /\ AnswerSaveContext(line.checksum, n)
          /\ UNCHANGED ledgerVars \/ PersistCursor(line.checksum, n)
      BY <2>2 DEF ContextAnswer
    <3>2. n \in Cursors /\ line.checksum \in Checksums
      BY <1>2, <1>3, <2>2, <3>1, ResolveFacts
    <3> HIDE DEF n
    <3>3. ToPluginOK'
      BY <1>3, <3>1, <3>2, AnswerTyped, SendStep DEF AnswerSaveContext
    <3>4. CASE UNCHANGED ledgerVars
      BY <1>3, <3>3, <3>4 DEF BridgeOK, ledgerVars
    <3>5. CASE PersistCursor(line.checksum, n)
      BY <1>3, <3>2, <3>3, <3>5, PersistFacts
    <3> QED BY <3>1, <3>4, <3>5
  <2> QED BY <1>1, <2>1, <2>2
<1>5. BridgeOK'
  BY <1>1, <1>2, <1>3, <1>4 DEF BridgeOK, serverVars, syncVars, Cursors
<1>6. SyncInv' \/ ~connected
  BY <1>1 DEF SyncInv, linkVars
<1> QED BY <1>1, <1>4, <1>5, <1>6 DEF linkVars

LEMMA OnSaveRevisionStep ==
  ASSUME LInv, NEW line, line.type = "save_revision", ForClient(line), OnSaveRevision(line),
         UNCHANGED <<taken, files>>
  PROVE  /\ ToPluginOK' /\ BridgeOK' /\ SyncInv'
         /\ UNCHANGED <<liveCursor, ack, stale>>
<1> DEFINE Answer(accepted) == [type |-> "save_revision_ack", checksum |-> line.checksum,
                                nextIndex |-> line.nextIndex, accepted |-> accepted]
<1>1. line.nextIndex \in Cursors /\ line.checksum \in Checksums
  BY DEF ForClient
<1>2. /\ UNCHANGED <<linkVars, ackVars, serverVars, syncVars, liveCursor>>
      /\ Send(Answer(TRUE)) \/ Send(Answer(FALSE))
      /\ UNCHANGED ledgerVars \/ PersistCursor(line.checksum, line.nextIndex)
  BY DEF OnSaveRevision
<1>3. ForPlugin(Answer(TRUE)) /\ ForPlugin(Answer(FALSE))
  BY <1>1 DEF ForPlugin
<1> HIDE DEF Answer
<1>4. ToPluginOK /\ BridgeOK /\ SyncInv
  BY DEF LInv, LinkTypeOK
<1>5. ToPluginOK'
  BY <1>2, <1>3, <1>4, SendStep
<1>6. ledger' \in CursorMaps /\ mirror' \in CursorMaps /\ remote' \in CursorMaps \cup {None}
  <2>1. CASE UNCHANGED ledgerVars
    BY <1>4, <2>1 DEF BridgeOK, ledgerVars
  <2>2. CASE PersistCursor(line.checksum, line.nextIndex)
    BY <1>1, <1>4, <2>2, PersistFacts
  <2> QED BY <1>2, <2>1, <2>2
<1>7. BridgeOK' /\ SyncInv'
  BY <1>2, <1>4, <1>6 DEF BridgeOK, SyncInv, linkVars, ackVars, serverVars, syncVars
<1> QED BY <1>2, <1>5, <1>7 DEF ackVars

LEMMA ReadsStep ==
  ASSUME LInv, ClientReads
  PROVE  LInv'
<1> DEFINE line == Head(toClient)
<1>1. /\ connected /\ toClient # <<>> /\ HandleMessage(line) /\ toClient' = Tail(toClient)
      /\ UNCHANGED <<vars, taken, files>>
  BY DEF ClientReads, gameVars
<1>2. /\ IsQueue(toClient) /\ \A l \in Lines(toClient) : ForClient(l)
      /\ ToPluginOK /\ BridgeOK /\ SyncInv
  BY DEF LInv, LinkTypeOK, ToClientOK
<1>3. /\ IsQueue(toClient') /\ Lines(toClient') \subseteq Lines(toClient)
      /\ line \in Lines(toClient) /\ ForClient(line)
  BY <1>1, <1>2, TailQueue
<1>4. Open' = Open /\ nextIndex' = nextIndex
  BY <1>1 DEF Open, vars, sessionVars, deliveryVars, journalVars
<1>5. ASSUME Open PROVE /\ NewestFit(toClient', nextIndex')
                        /\ NoContext(toClient') => LineFits(line, nextIndex)
  BY <1>1, <1>2, <1>4, <1>5, FitTail DEF LInv, LiveInv
<1>6. ASSUME NoContext(toClient'), ~IsContext(line) PROVE NoContext(toClient)
  <2> SUFFICES ASSUME NEW l \in Lines(toClient) PROVE ~IsContext(l)
    BY DEF NoContext
  <2>1. PICK i \in 1..Len(toClient) : l = toClient[i]
    BY <1>2, QueueFacts
  <2>2. CASE i = 1
    BY <1>1, <1>2, <1>6, <2>1, <2>2, TailQueue
  <2>3. CASE i # 1
    <3>1. Len(toClient) \in Nat /\ i - 1 \in 1..(Len(toClient) - 1) /\ (i - 1) + 1 = i
      BY <1>2, <2>3, QueueFacts
    <3>2. Len(toClient') = Len(toClient) - 1 /\ toClient'[i - 1] = toClient[i]
      BY <1>1, <1>2, <3>1, TailQueue
    <3>3. i - 1 \in DOMAIN toClient'
      BY <1>3, <3>1, <3>2, QueueFacts
    <3>4. toClient'[i - 1] \in Lines(toClient')
      BY <3>3 DEF Lines
    <3> QED BY <1>6, <2>1, <3>2, <3>4 DEF NoContext
  <2> QED BY <2>2, <2>3
<1>7. IInv' /\ FilesOK' /\ ToClientOK'
  BY <1>1, <1>2, <1>3, StepLemma, FilesKept DEF LInv, ToClientOK
<1> HIDE DEF line
<1>8. SUFFICES ToPluginOK' /\ BridgeOK' /\ SyncInv' /\ LiveInv'
  BY <1>7 DEF LInv, LinkTypeOK
<1>9. CASE line.type = "game_context" /\ OnGameContext(line)
  <2>1. /\ ToPluginOK' /\ BridgeOK' /\ SyncInv'
        /\ stale' = TRUE
        /\ liveCursor' = IF line.needsCursor THEN liveCursor ELSE line.nextIndex
    BY <1>1, <1>3, <1>9, OnGameContextStep DEF IsContext
  <2>2. ASSUME Open, NoContext(toClient'), liveCursor' # None
        PROVE  liveCursor' <= nextIndex'
    BY <1>4, <1>5, <1>9, <2>1, <2>2 DEF LineFits, IsContext
  <2> QED BY <1>4, <1>5, <2>1, <2>2 DEF LiveInv
<1>10. CASE line.type = "item_ack" /\ OnItemAck(line)
  <2>1. /\ ack' = ack \/ (ack'.index = line.index /\ ack'.accepted = line.accepted)
        /\ UNCHANGED <<linkVars, stale, serverVars, ledgerVars, syncVars, liveCursor, toPlugin>>
    BY <1>10 DEF OnItemAck
  <2>2. line.index \in Nat
    BY <1>3, <1>10 DEF ForClient, IsAck, Cursors
  <2>3. ToPluginOK' /\ BridgeOK'
    BY <1>1, <1>2, <2>1, <2>2 DEF ToPluginOK, BridgeOK, serverVars, ledgerVars, syncVars
  <2>4. SyncInv'
    BY <1>2, <2>1 DEF SyncInv, linkVars, syncVars
  <2>5. ASSUME Open, NoContext(toClient'), liveCursor' # None
        PROVE  /\ liveCursor' <= nextIndex'
               /\ ~stale' /\ ack' # None /\ ack'.accepted => ack'.index < nextIndex'
    <3>1. NoContext(toClient)
      BY <1>6, <1>10, <2>5 DEF IsContext
    <3>2. /\ liveCursor <= nextIndex
          /\ ~stale /\ ack # None /\ ack.accepted => ack.index < nextIndex
      BY <2>1, <2>5, <3>1 DEF LInv, LiveInv
    <3>3. line.accepted => line.index < nextIndex
      BY <1>5, <1>10, <2>5 DEF LineFits, IsAck
    <3> QED BY <1>4, <2>1, <3>2, <3>3
  <2> QED BY <1>4, <1>5, <2>3, <2>4, <2>5 DEF LiveInv
<1>11. ASSUME ~IsContext(line), ToPluginOK', BridgeOK', SyncInv', UNCHANGED <<liveCursor, ack, stale>>
       PROVE  LiveInv'
  BY <1>4, <1>5, <1>6, <1>11 DEF LInv, LiveInv
<1>12. CASE line.type = "save_revision" /\ OnSaveRevision(line)
  <2>1. /\ ToPluginOK' /\ BridgeOK' /\ SyncInv' /\ UNCHANGED <<liveCursor, ack, stale>>
    BY <1>1, <1>3, <1>12, OnSaveRevisionStep
  <2> QED BY <1>11, <1>12, <2>1 DEF IsContext
<1>13. CASE (line.type = "hello" /\ OnHello) \/ OnOtherLine(line)
  <2>1. /\ ~IsContext(line)
        /\ UNCHANGED <<connected, ackVars, serverVars, ledgerVars, syncVars, liveCursor, toPlugin>>
    BY <1>13 DEF OnHello, OnOtherLine, bridgeVars, linkVars, IsContext
  <2>2. ToPluginOK' /\ BridgeOK' /\ SyncInv'
    BY <1>1, <1>2, <2>1 DEF ToPluginOK, BridgeOK, SyncInv, ackVars, serverVars, ledgerVars, syncVars
  <2> QED BY <1>11, <2>1, <2>2 DEF ackVars
<1> QED BY <1>1, <1>9, <1>10, <1>12, <1>13 DEF HandleMessage

\* The link comes up and goes down.
LEMMA LinkUpStep ==
  ASSUME LInv, LinkUp
  PROVE  /\ LInv'
         /\ Lines(toPlugin') \subseteq Lines(toPlugin) \cup {[type |-> "connected"]}
         /\ Lines(toClient') \subseteq Lines(toClient) \cup {[type |-> "hello"]}
<1>1. /\ AcceptPlugin /\ toClient' = <<[type |-> "hello"]>> \o toClient
      /\ toPlugin' = Append(toPlugin, [type |-> "connected"])
      /\ UNCHANGED <<vars, taken, files>>
  BY DEF LinkUp, gameVars
<1>2. /\ IsQueue(toPlugin) /\ IsQueue(toClient) /\ BridgeOK /\ SyncInv /\ ToPluginOK
      /\ \A l \in Lines(toClient) : ForClient(l)
      /\ Len(toPlugin) \in Nat
  BY QueueFacts DEF LInv, LinkTypeOK, ToPluginOK, ToClientOK
<1>3. /\ IsQueue(<<[type |-> "hello"]>>) /\ Lines(<<[type |-> "hello"]>>) \subseteq {[type |-> "hello"]}
  <2>1. <<[type |-> "hello"]>> \in Seq({[type |-> "hello"]})
    OBVIOUS
  <2> QED BY <2>1, SeqIsQueue
<1>4. ForClient([type |-> "hello"]) /\ ~IsContext([type |-> "hello"]) /\ ~IsAck([type |-> "hello"])
      /\ ForPlugin([type |-> "connected"])
  BY DEF ForClient, IsContext, IsAck, ForPlugin
<1>5. IsQueue(toClient') /\ Lines(toClient') \subseteq Lines(toClient) \cup {[type |-> "hello"]}
  BY <1>1, <1>2, <1>3, ConcatQueue
<1>6. /\ IsQueue(toPlugin') /\ Len(toPlugin') = Len(toPlugin) + 1
      /\ Lines(toPlugin') = Lines(toPlugin) \cup {[type |-> "connected"]}
  BY <1>1, <1>2, AppendQueue
<1>7. ToPluginOK' /\ ToClientOK'
  BY <1>1, <1>2, <1>4, <1>5, <1>6 DEF ToPluginOK, ToClientOK
<1>8. liveCursor' = None /\ BridgeOK' /\ SyncInv'
  BY <1>1, <1>2 DEF AcceptPlugin, ResetConnection, BridgeOK, SyncInv, serverVars, ledgerVars, syncVars
<1>9. ASSUME Open PROVE NewestFit(toClient', nextIndex)
  BY <1>1, <1>2, <1>4, <1>9, FitHello DEF LInv, LiveInv
<1>10. LiveInv'
  BY <1>1, <1>8, <1>9 DEF LiveInv, Open, vars, sessionVars, deliveryVars, journalVars
<1>11. IInv' /\ FilesOK'
  BY <1>1, StepLemma, FilesKept DEF LInv
<1> QED BY <1>5, <1>6, <1>7, <1>8, <1>10, <1>11 DEF LInv, LinkTypeOK

LEMMA LinkDownStep ==
  ASSUME LInv, LinkDown
  PROVE  /\ LInv'
         /\ Lines(toPlugin') \subseteq Lines(toPlugin) \cup {[type |-> "disconnected"]}
         /\ Lines(toClient') = {}
<1>1. /\ LosePlugin /\ toClient' = <<>> /\ UNCHANGED <<vars, taken, files>>
  BY DEF LinkDown, gameVars
<1>2. PICK kept \in taken..Len(toPlugin) :
        toPlugin' = Append(SubSeq(toPlugin, 1, kept), [type |-> "disconnected"])
  BY DEF LinkDown
<1>3. /\ IsQueue(toPlugin) /\ BridgeOK /\ SyncInv /\ ToPluginOK
      /\ Len(toPlugin) \in Nat /\ taken \in 0..Len(toPlugin)
  BY QueueFacts DEF LInv, LinkTypeOK, ToPluginOK
<1> DEFINE read == SubSeq(toPlugin, 1, kept)
<1>4. /\ IsQueue(read) /\ Lines(read) \subseteq Lines(toPlugin) /\ Len(read) = kept
      /\ kept \in Nat
  <2>1. kept \in 0..Len(toPlugin) /\ 1 \in Nat \ {0}
    BY <1>3
  <2> QED BY <1>3, <2>1, PartOfQueue
<1> HIDE DEF read
<1>5. /\ IsQueue(toPlugin') /\ Len(toPlugin') = kept + 1
      /\ Lines(toPlugin') = Lines(read) \cup {[type |-> "disconnected"]}
  BY <1>2, <1>4, AppendQueue DEF read
<1>6. ForPlugin([type |-> "disconnected"])
  BY DEF ForPlugin
<1>7. taken' \in 0..Len(toPlugin')
  BY <1>1, <1>3, <1>4, <1>5
<1>8. ToPluginOK' /\ Lines(toPlugin') \subseteq Lines(toPlugin) \cup {[type |-> "disconnected"]}
  BY <1>3, <1>4, <1>5, <1>6, <1>7 DEF ToPluginOK
<1>9. IsQueue(toClient') /\ Lines(toClient') = {}
  BY <1>1, EmptyQueue
<1>10. liveCursor' = None /\ BridgeOK' /\ SyncInv' /\ ToClientOK'
  BY <1>1, <1>3, <1>9 DEF LosePlugin, ResetConnection, BridgeOK, SyncInv, ToClientOK,
                          serverVars, ledgerVars
<1>11. NewestFit(toClient', nextIndex')
  BY <1>9, FitAll
<1>12. IInv' /\ FilesOK'
  BY <1>1, StepLemma, FilesKept DEF LInv
<1> QED BY <1>8, <1>9, <1>10, <1>11, <1>12 DEF LInv, LinkTypeOK, LiveInv

-----------------------------------------------------------------------------
\* The inductive invariant and what follows from it.

LEMMA LinkInit == LInit => LInv
<1> SUFFICES ASSUME LInit PROVE LInv
  OBVIOUS
<1>1. IInv
  BY InitLemma DEF LInit
<1>2. /\ toPlugin = <<>> /\ toClient = <<>> /\ taken = 0 /\ files \subseteq Checksums
      /\ context = "Waiting" /\ active = FALSE
  BY DEF LInit, BInit, Init, InitVolatile
<1>3. ToPluginOK /\ ToClientOK
  BY <1>2, EmptyQueue DEF ToPluginOK, ToClientOK
<1>4. NoCursors \in CursorMaps
  BY DEF NoCursors, CursorMaps
<1>5. BridgeOK /\ SyncInv
  BY <1>4, SlotAssumption DEF LInit, BInit, BridgeOK, SyncInv, Cursors
<1>6. FilesOK /\ LiveInv
  BY <1>2 DEF FilesOK, WaitsForFile, LiveInv, Open
<1> QED BY <1>1, <1>3, <1>5, <1>6 DEF LInv, LinkTypeOK

\* The steps of the link and of the client.
ClientActs ==
  \/ LinkUp \/ LinkDown \/ ClientReads \/ SyncLoop \/ AckIsLost \/ AckIsLate
  \/ ServerSession \/ ServerMirror \/ ServerItems \/ ServerLost \/ SessionEnds

LEMMA StepsOfLink == LNext => PluginActs \/ ClientActs
BY DEF LNext, PluginActs, ClientActs

LEMMA ClientSide ==
  ASSUME LInv, ClientActs
  PROVE  LInv' /\ UNCHANGED <<vars, files>>
<1>1. CASE LinkUp
  BY <1>1, LinkUpStep DEF LinkUp, gameVars
<1>2. CASE LinkDown
  BY <1>2, LinkDownStep DEF LinkDown, gameVars
<1>3. CASE ClientReads
  BY <1>3, ReadsStep DEF ClientReads, gameVars
<1>4. CASE SyncLoop
  <2>1. UNCHANGED <<vars, taken, toClient, files>>
    BY <1>4 DEF SyncLoop, ClientStep, gameVars
  <2>2. \/ SessionReadySent \/ ItemSentToPlugin \/ NothingToDeliver \/ RetryDelayEnds
        \/ WakeSyncLoop \/ SendItem \/ AckArrives
    BY <1>4 DEF SyncLoop, ClientStep
  <2> QED BY <2>1, <2>2, QuietClientStep, WakeSyncLoopStep, SendItemStep, AckArrivesStep
<1>5. CASE AckIsLost \/ AckIsLate
  <2>1. AckTimesOut /\ UNCHANGED <<vars, taken, toClient, files>>
    BY <1>5 DEF AckIsLost, AckIsLate, ClientStep, gameVars
  <2> QED BY <2>1, QuietClientStep
<1>6. CASE ServerSession \/ ServerMirror \/ ServerItems \/ ServerLost \/ SessionEnds
  <2>1. /\ OnConnected \/ OnRetrieved \/ OnReceivedItems \/ OnConnectionClosed \/ EndSession
        /\ UNCHANGED <<vars, taken, toClient, files>>
    BY <1>6 DEF ServerSession, ServerMirror, ServerItems, ServerLost, SessionEnds,
                ClientStep, gameVars
  <2> QED BY <2>1, QuietClientStep
<1> QED BY <1>1, <1>2, <1>3, <1>4, <1>5, <1>6 DEF ClientActs

LEMMA LinkStep ==
  ASSUME LInv, [LNext]_linkAll
  PROVE  LInv' /\ [Next]_vars
<1>1. CASE PluginActs
  BY <1>1, PluginSide, RuntimeOfPlugin DEF LInv
<1>2. CASE ClientActs
  BY <1>2, ClientSide
<1>3. CASE UNCHANGED linkAll
  <2>1. /\ UNCHANGED <<vars, taken, toClient, files, toPlugin, linkVars, ackVars, serverVars,
                       ledgerVars, syncVars, liveCursor>>
    BY <1>3 DEF linkAll, bridgeVars, gameVars
  <2>2. IInv' /\ FilesOK'
    BY <2>1, StepLemma, FilesKept DEF LInv
  <2>3. ToPluginOK' /\ ToClientOK' /\ BridgeOK' /\ SyncInv'
    BY <2>1 DEF LInv, LinkTypeOK, ToPluginOK, ToClientOK, BridgeOK, SyncInv, linkVars,
                ackVars, serverVars, ledgerVars, syncVars
  <2>4. LiveInv'
    BY <2>1, SameLines DEF ackVars
  <2> QED BY <2>1, <2>2, <2>3, <2>4 DEF LInv, LinkTypeOK
<1> QED BY <1>1, <1>2, <1>3, StepsOfLink

\* The inductive invariant holds in every reachable state of the link.
THEOREM LinkInvariant == LSpec => []LInv
BY LinkInit, LinkStep, PTL DEF LSpec

\* Whatever the client, the link and the player do, the plugin in the link is a
\* SessionRuntime: every property proved of that module holds here (the lines that
\* reach the plugin are those its environment may send).
THEOREM RuntimeOfLink == LSpec => Spec
<1>1. LInit => Init
  BY DEF LInit
<1> QED BY <1>1, LinkInit, LinkStep, PTL DEF LSpec, Spec

\* The item the client would send next is never past the one the plugin expects,
\* once it has read every context and no revision holds contexts back: for any
\* number of items, saves, lost links, late acknowledgements and sessions.
THEOREM NeverPast == LSpec => []NeverPastCursor
<1>1. LInv => NeverPastCursor
  <2> SUFFICES ASSUME LInv, liveCursor # None, active, Ready(context), ~revisionsPending,
                      ~ContextOnItsWay
               PROVE  liveCursor <= nextIndex
    BY DEF NeverPastCursor
  <2>1. NoContext(toClient)
    BY DEF ContextOnItsWay, NoContext, Lines, IsContext
  <2> QED BY <2>1 DEF LInv, LiveInv, Open
<1> QED BY <1>1, LinkInvariant, PTL

-----------------------------------------------------------------------------
\* The two stores.  The ledger is that of Slot, so this is about a client that logs
\* in with no other slot.

OneSlot == OfferedSlots = {Slot}

Snap(c) == journal.snapshots[Slot][c]

SlotInv ==
  /\ session \in {None, Slot}
  /\ pending.kind = "Policies" => pending.name = Slot

\* The journal file may lack what the journal has, but has nothing else; only saves of
\* the game are known, and a save known to both stores has one cursor.
CursorsAgree ==
  \A c \in Checksums :
    /\ disk.snapshots[Slot][c] \in {None, Snap(c)}
    /\ ledger[c] # None /\ Snap(c) # None => ledger[c] = Snap(c).nextIndex
    /\ c \notin files => Snap(c) = None /\ ledger[c] = None

\* The lines on their way carry those cursors.  A context whose save the journal does
\* not know is still right once the ledger knows the save.
AnswerFits(l) == l.type = "save_context" => ledger[l.checksum] = l.nextIndex
SavedFits(l) ==
  /\ l.type = "save_revision" =>
       Snap(l.checksum) # None /\ Snap(l.checksum).nextIndex = l.nextIndex
  /\ IsContext(l) /\ l.needsCursor =>
       /\ l.checksum \in files
       /\ l.snapshotKnown =>
            Snap(l.checksum) # None /\ Snap(l.checksum).nextIndex = l.nextIndex
       /\ ~l.snapshotKnown => Snap(l.checksum) = None \/ ledger[l.checksum] # None

AgreeInv ==
  /\ SlotInv /\ CursorsAgree
  /\ \A l \in Lines(toPlugin) : AnswerFits(l)
  /\ \A l \in Lines(toClient) : SavedFits(l)

\* What a step of the plugin does to the stores: at most one save becomes known, which
\* the game has just written or which the ledger knows.
Learns(c) ==
  \/ Snap(c)' = Snap(c)
  \/ /\ Snap(c) = None /\ Snap(c)' # None /\ c \in files'
     /\ c \notin files \/ (ledger[c] # None /\ ledger[c] = Snap(c)'.nextIndex)

AgreeFacts ==
  /\ SlotInv' /\ disk' \in {disk, journal'}
  /\ \A c \in Checksums : Learns(c)
  /\ \A l \in sent' : SavedFits(l)'

LEMMA OtherLinesFit ==
  ASSUME NEW l, ~IsContext(l), l.type # "save_revision"
  PROVE  SavedFits(l)'
BY DEF SavedFits, IsContext

LEMMA ContextFits ==
  ASSUME NEW a, NEW b, NEW ctx, NEW c, NEW n,
         NEW l \in ContextLines(a, b, Slot, journal', ctx, c, n),
         ctx = "AwaitingCursor" => c \in files', files' \subseteq Checksums
  PROVE  SavedFits(l)'
<1>1. /\ l.type = "game_context" /\ l.checksum = c
      /\ l.needsCursor => ctx = "AwaitingCursor"
      /\ l.snapshotKnown =>
           /\ journal'.snapshots[Slot][c] # None
           /\ l.nextIndex = journal'.snapshots[Slot][c].nextIndex
      /\ ~l.snapshotKnown /\ ctx = "AwaitingCursor" =>
           Slot = None \/ c = None \/ journal'.snapshots[Slot][c] = None
  BY ContextFacts
<1>2. Slot # None /\ (ctx = "AwaitingCursor" => c # None)
  BY LinkAssumption, NoneAssumption, SlotAssumption
<1> QED BY <1>1, <1>2 DEF SavedFits, IsContext, Snap

LEMMA RevisionFits ==
  ASSUME NEW l \in RevisionLines(journal', Slot), IInv'
  PROVE  SavedFits(l)'
<1>1. journal' \in Journals /\ Coherent(journal') /\ Slot \in Sessions
  BY LinkAssumption DEF IInv, DataTypeOK, JournalInv
<1>2. /\ l.type = "save_revision" /\ l.checksum \in PendingRevisions(journal', Slot)
      /\ l.nextIndex = journal'.pending[Slot][l.checksum] /\ ~IsContext(l)
  BY <1>1, RevisionFacts
<1>3. /\ journal'.snapshots[Slot][l.checksum] # None
      /\ journal'.snapshots[Slot][l.checksum].nextIndex = l.nextIndex
  BY <1>1, <1>2 DEF Coherent, PendingRevisions
<1> QED BY <1>2, <1>3 DEF SavedFits, Snap

LEMMA SameJournal ==
  ASSUME UNCHANGED <<journal, disk>>, SlotInv', \A l \in sent' : SavedFits(l)'
  PROVE  AgreeFacts
BY DEF AgreeFacts, Learns, Snap

\* A context of the plugin's own session and save.
LEMMA OwnContextFits ==
  ASSUME LInv, SlotInv, NEW b, NEW ctx, NEW c, NEW n,
         NEW l \in ContextLines(active, b, session, journal', ctx, c, n),
         ctx = "AwaitingCursor" => c \in files', files' \subseteq Checksums
  PROVE  SavedFits(l)'
<1>1. active
  BY ContextFacts
<1>2. session = Slot
  BY <1>1 DEF LInv, IInv, SessionInv, SlotInv
<1> QED BY <1>2, ContextFits

LEMMA BeginSyncAgree ==
  ASSUME LInv, IInv', BeginSync(Slot), UNCHANGED <<journal, files>>
  PROVE  \A l \in sent' : SavedFits(l)'
<1>1. PICK owed : sent' = RevisionLines(journal', Slot) \cup
               ContextLines(TRUE, owed, Slot, journal', context, checksum, nextIndex)
  BY DEF BeginSync
<1>2. /\ context = "AwaitingCursor" => checksum \in files'
      /\ files' \subseteq Checksums
  BY DEF LInv, LinkTypeOK, FilesOK, WaitsForFile
<1>3. ASSUME NEW l \in RevisionLines(journal', Slot) PROVE SavedFits(l)'
  BY RevisionFits
<1>4. ASSUME NEW l \in ContextLines(TRUE, owed, Slot, journal', context, checksum, nextIndex)
      PROVE  SavedFits(l)'
  BY <1>2, ContextFits
<1> QED BY <1>1, <1>3, <1>4

\* The snapshots of a journal after record and store_snapshot.
LEMMA SnapshotAfter ==
  ASSUME NEW j \in Journals, NEW c \in Checksums, NEW n, NEW items, NEW k,
         \/ k = Record(j, Slot, c, n, items)
         \/ k = StoreSnapshot(j, Slot, c, n, items)
  PROVE  \A d \in Checksums :
           k.snapshots[Slot][d] = IF d = c THEN [nextIndex |-> n, items |-> items]
                                  ELSE j.snapshots[Slot][d]
<1>1. Slot \in Sessions
  BY LinkAssumption
<1>2. j.snapshots \in [Sessions -> [Checksums -> Snapshots \cup {None}]]
  BY DEF Journals
<1>3. k.snapshots = [j.snapshots EXCEPT ![Slot][c] = [nextIndex |-> n, items |-> items]]
  BY DEF Record, StoreSnapshot, Journals
<1> QED BY <1>1, <1>2, <1>3

LEMMA SnapshotIsSome ==
  ASSUME NEW n \in Cursors, NEW items \in SUBSET Items
  PROVE  [nextIndex |-> n, items |-> items] # None
BY NoneAssumption DEF Snapshots

-----------------------------------------------------------------------------
\* The stores and the steps of the plugin.

LEMMA SaveWrittenAgree ==
  ASSUME LInv, IInv', AgreeInv, NEW c \in Checksums, c \notin files, files' = files \cup {c},
         SaveWritten(c)
  PROVE  AgreeFacts
<1>1. SlotInv'
  BY DEF AgreeInv, SlotInv, SaveWritten, sessionVars, requestVars
<1>2. CASE sent' = {} /\ UNCHANGED journalVars
  BY <1>1, <1>2, SameJournal DEF journalVars
<1>3. CASE /\ session # None
           /\ \E ok \in PersistOutcomes :
                /\ journal' = Record(journal, session, c, nextIndex, persistentItems)
                /\ Persist(journal', ok)
                /\ sent' = IF ok /\ active THEN RevisionLines(journal', session) ELSE {}
  <2>1. session = Slot
    BY <1>3 DEF AgreeInv, SlotInv
  <2>2. /\ journal' = Record(journal, Slot, c, nextIndex, persistentItems)
        /\ disk' \in {disk, journal'}
        /\ sent' \subseteq RevisionLines(journal', Slot)
    BY <1>3, <2>1 DEF Persist
  <2>3. journal \in Journals /\ nextIndex \in Cursors /\ persistentItems \in SUBSET Items
    BY DEF LInv, IInv, DataTypeOK
  <2>4. \A d \in Checksums :
          journal'.snapshots[Slot][d] =
            IF d = c THEN [nextIndex |-> nextIndex, items |-> persistentItems]
            ELSE journal.snapshots[Slot][d]
    BY <2>2, <2>3, SnapshotAfter
  <2>5. [nextIndex |-> nextIndex, items |-> persistentItems] # None
    BY <2>3, SnapshotIsSome
  <2>6. Snap(c) = None
    BY DEF AgreeInv, CursorsAgree
  <2>7. \A d \in Checksums : Learns(d)
    BY <2>4, <2>5, <2>6 DEF Learns, Snap
  <2>8. \A l \in sent' : SavedFits(l)'
    BY <2>2, RevisionFits
  <2> QED BY <1>1, <2>2, <2>7, <2>8 DEF AgreeFacts
<1> QED BY <1>2, <1>3 DEF SaveWritten

LEMMA OnSaveContextAgree ==
  ASSUME LInv, IInv', AgreeInv, NEW c \in Checksums, NEW n \in Cursors,
         NEW items \in SUBSET Items, OnSaveContext(c, n, TRUE, items),
         ledger[c] = n, UNCHANGED files
  PROVE  AgreeFacts
<1>1. SlotInv'
  BY DEF AgreeInv, SlotInv, OnSaveContext, sessionVars, requestVars
<1>2. \A l \in sent' : SavedFits(l)'
  <2> SUFFICES ASSUME NEW l \in sent' PROVE SavedFits(l)'
    OBVIOUS
  <2>1. sent' = {} \/ sent' = ContextLines(active, revisionsPending, session, journal,
                                           "ActiveRevision", c, n)
    BY DEF OnSaveContext, RejectSaveContext, ActivateSave
  <2>2. IsContext(l) /\ l.type = "game_context" /\ (l.needsCursor => FALSE)
    BY <2>1, ContextFacts
  <2> QED BY <2>2 DEF SavedFits
<1>3. CASE UNCHANGED <<journal, disk>>
  BY <1>1, <1>2, <1>3, SameJournal
<1>4. CASE /\ ContextWelcome(c, items) /\ journal.snapshots[session][c] = None
           /\ \E ok \in PersistOutcomes :
                LET recovered == StoreSnapshot(journal, session, c, n, items) IN
                /\ Persist(recovered, ok)
                /\ IF ok THEN journal' = recovered ELSE UNCHANGED journal
  <2>1. active /\ context = "AwaitingCursor" /\ checksum = c
    BY <1>4 DEF ContextWelcome
  <2>2. session = Slot /\ c \in files
    BY <2>1 DEF LInv, IInv, SessionInv, AgreeInv, SlotInv, LinkTypeOK, FilesOK, WaitsForFile
  <2>3. CASE UNCHANGED <<journal, disk>>
    BY <1>3, <2>3
  <2>4. CASE /\ journal' = StoreSnapshot(journal, Slot, c, n, items) /\ disk' = journal'
    <3>1. journal \in Journals
      BY DEF LInv, IInv, DataTypeOK
    <3>2. \A d \in Checksums :
            journal'.snapshots[Slot][d] = IF d = c THEN [nextIndex |-> n, items |-> items]
                                          ELSE journal.snapshots[Slot][d]
      BY <2>4, <3>1, SnapshotAfter
    <3>3. [nextIndex |-> n, items |-> items] # None /\ Snap(c) = None
      BY <1>4, <2>2, SnapshotIsSome DEF Snap
    <3>4. n # None
      BY SlotAssumption DEF Cursors
    <3>5. \A d \in Checksums : Learns(d)
      BY <2>2, <3>2, <3>3, <3>4 DEF Learns, Snap
    <3> QED BY <1>1, <1>2, <2>4, <3>5 DEF AgreeFacts
  <2> QED BY <1>4, <2>2, <2>3, <2>4 DEF Persist
<1> QED BY <1>3, <1>4 DEF OnSaveContext

LEMMA OnSaveRevisionAckAgree ==
  ASSUME LInv, IInv', AgreeInv, NEW c \in Checksums, NEW n, NEW accepted,
         OnSaveRevisionAck(c, n, accepted), UNCHANGED files
  PROVE  AgreeFacts
<1>1. SlotInv'
  BY DEF AgreeInv, SlotInv, OnSaveRevisionAck, sessionVars, requestVars
<1>2. CASE sent' = {} /\ UNCHANGED journalVars
  BY <1>1, <1>2, SameJournal DEF journalVars
<1>3. CASE /\ AckMatches(c, n, accepted)
           /\ journal' = Acknowledged(journal, session, c)
           /\ disk' \in {disk, journal'}
           /\ \/ sent' = {}
              \/ sent' = ContextLines(active, FALSE, session, journal',
                                      context, checksum, nextIndex)
  <2>1. session \in Sessions /\ journal \in Journals
    BY <1>3 DEF LInv, IInv, DataTypeOK, AckMatches
  <2>2. \A d \in Checksums : Learns(d)
    <3>1. journal'.snapshots = journal.snapshots
      BY <1>3, <2>1 DEF Acknowledged, Journals
    <3> QED BY <3>1 DEF Learns, Snap
  <2>3. /\ context = "AwaitingCursor" => checksum \in files'
        /\ files' \subseteq Checksums
    BY DEF LInv, LinkTypeOK, FilesOK, WaitsForFile
  <2>4. \A l \in sent' : SavedFits(l)'
    BY <1>3, <2>3, OwnContextFits DEF AgreeInv
  <2> QED BY <1>1, <1>3, <2>2, <2>4 DEF AgreeFacts
<1>4. CASE AckMatches(c, n, accepted)
  <2>1. PICK ok \in PersistOutcomes :
          /\ journal' = Acknowledged(journal, session, c)
          /\ Persist(journal', ok)
          /\ \/ sent' = {}
             \/ sent' = ContextLines(active, FALSE, session, journal',
                                     context, checksum, nextIndex)
    BY <1>4 DEF OnSaveRevisionAck
  <2> QED BY <1>3, <1>4, <2>1 DEF Persist
<1> QED BY <1>2, <1>4 DEF OnSaveRevisionAck

\* A step that leaves the journal alone and sends neither contexts nor revisions.
LEMMA QuietAgree ==
  ASSUME UNCHANGED <<journal, disk>>, SlotInv',
         \A l \in sent' : ~IsContext(l) /\ l.type # "save_revision"
  PROVE  AgreeFacts
BY OtherLinesFit, SameJournal

LEMMA OnSessionReadyAgree ==
  ASSUME LInv, IInv', AgreeInv, OnSessionReady(Slot, TRUE), UNCHANGED files
  PROVE  AgreeFacts
<1>1. UNCHANGED <<journal, disk, session, context, checksum, nextIndex>>
  BY DEF OnSessionReady, deliveryVars
<1>2. SlotInv'
  <2>1. \/ pending' = pending
        \/ pending' = [kind |-> "Policies", index |-> 0, name |-> Slot]
    BY DEF OnSessionReady, HandOut, requestVars
  <2> QED BY <1>1, <2>1 DEF AgreeInv, SlotInv
<1>3. CASE BeginSync(Slot)
  BY <1>1, <1>2, <1>3, BeginSyncAgree, SameJournal
<1>4. CASE sent' = {} \/ sent' = {[type |-> "session_rejected"]}
  <2>1. \A l \in sent' : ~IsContext(l) /\ l.type # "save_revision"
    BY <1>4 DEF IsContext
  <2> QED BY <1>1, <1>2, <2>1, QuietAgree
<1> QED BY <1>3, <1>4 DEF OnSessionReady

LEMMA OnItemAgree ==
  ASSUME LInv, AgreeInv, NEW i, NEW name, NEW interactive, OnItem(i, name, interactive)
  PROVE  AgreeFacts
<1>1. UNCHANGED <<journal, disk, session>>
  BY DEF OnItem, journalVars, sessionVars
<1>2. SlotInv'
  <2>1. pending' = pending \/ pending' = [kind |-> "Item", index |-> i, name |-> name]
    BY DEF OnItem, HandOut, requestVars
  <2> QED BY <1>1, <2>1 DEF AgreeInv, SlotInv
<1>3. \A l \in sent' : l.type = "item_ack"
  BY DEF OnItem, AckLine
<1> QED BY <1>1, <1>2, <1>3, QuietAgree DEF IsContext

LEMMA HandleLineAgree ==
  ASSUME LInv, IInv', AgreeInv, OneSlot, NEW line, ForPlugin(line), AnswerFits(line),
         HandleLine(line), UNCHANGED files
  PROVE  AgreeFacts
<1>1. CASE line.type = "session_ready" /\ \E s \in OfferedSlots : OnSessionReady(s, TRUE)
  BY <1>1, OnSessionReadyAgree DEF OneSlot
<1>2. CASE Connected \/ Disconnected \/ OnSessionEnd
  <2>1. UNCHANGED <<journal, disk, session, pending>> /\ sent' = {}
    BY <1>2 DEF Connected, Disconnected, OnSessionEnd, journalVars, requestVars
  <2> QED BY <2>1, QuietAgree DEF AgreeInv, SlotInv
<1>3. CASE /\ line.type = "save_context"
           /\ OnSaveContext(line.checksum, line.nextIndex, TRUE, line.items)
  BY <1>3, OnSaveContextAgree DEF ForPlugin, AnswerFits
<1>4. CASE /\ line.type = "save_revision_ack"
           /\ OnSaveRevisionAck(line.checksum, line.nextIndex, line.accepted)
  BY <1>4, OnSaveRevisionAckAgree DEF ForPlugin
<1>5. CASE line.type = "item" /\ OnItem(line.index, line.name, world = "Playing")
  BY <1>5, OnItemAgree
<1> QED BY <1>1, <1>2, <1>3, <1>4, <1>5 DEF HandleLine

LEMMA ReportResultAgree ==
  ASSUME LInv, IInv', AgreeInv, NEW accepted \in BOOLEAN, ReportResult(accepted),
         UNCHANGED files
  PROVE  AgreeFacts
<1>1. UNCHANGED <<journal, disk, context, checksum>> /\ pending' = NoRequest
  BY DEF ReportResult
<1>2. CASE sent' = {} /\ UNCHANGED session
  BY <1>1, <1>2, QuietAgree DEF AgreeInv, SlotInv, NoRequest
<1>3. CASE InstallResult(accepted) /\ accepted
  <2>1. session' = Slot /\ BeginSync(Slot) /\ UNCHANGED nextIndex
    BY <1>3 DEF InstallResult, AgreeInv, SlotInv
  <2>2. SlotInv'
    BY <1>1, <2>1 DEF SlotInv, NoRequest
  <2> QED BY <1>1, <2>1, <2>2, BeginSyncAgree, SameJournal
<1>4. CASE ItemResult(accepted)
  <2>1. UNCHANGED session /\ \A l \in sent' : l.type = "item_ack"
    BY <1>4 DEF ItemResult, AckLine
  <2>2. SlotInv'
    BY <1>1, <2>1 DEF AgreeInv, SlotInv, NoRequest
  <2> QED BY <1>1, <2>1, <2>2, QuietAgree DEF IsContext
<1>5. CASE InstallResult(accepted) /\ ~accepted
  BY <1>2, <1>5 DEF InstallResult
<1>6. CASE ResetResult(accepted) \/ ReplayResult(accepted)
  BY <1>2, <1>6 DEF ResetResult, ReplayResult
<1> QED BY <1>3, <1>4, <1>5, <1>6 DEF ReportResult

LEMMA LoadSaveAgree ==
  ASSUME LInv, AgreeInv, NEW c \in files, SaveLoaded(c), UNCHANGED files
  PROVE  AgreeFacts
<1>1. /\ UNCHANGED <<journal, disk, session>>
      /\ sent' = ContextLines(active, revisionsPending, session, journal',
                              "AwaitingCursor", c, 0)
  BY DEF SaveLoaded, sessionVars, journalVars
<1>2. SlotInv'
  BY <1>1 DEF AgreeInv, SlotInv, SaveLoaded, CancelGameplayRequest, NoRequest
<1>3. files' \subseteq Checksums /\ c \in files'
  BY DEF LInv, LinkTypeOK, FilesOK
<1>4. \A l \in sent' : SavedFits(l)'
  BY <1>1, <1>3, OwnContextFits DEF AgreeInv
<1> QED BY <1>1, <1>2, <1>4, SameJournal

LEMMA UpdateReadinessAgree ==
  ASSUME LInv, AgreeInv, NEW menu, NEW loaded, UpdateReadiness(menu, loaded), UNCHANGED files
  PROVE  AgreeFacts
<1>1. /\ UNCHANGED <<journal, disk, session>>
      /\ \/ sent' = {}
         \/ sent' = ContextLines(active, revisionsPending, session, journal',
                                 "Provisional", checksum, nextIndex)
  BY DEF UpdateReadiness, sessionVars, journalVars
<1>2. SlotInv'
  <2>1. pending' = pending \/ pending' = NoRequest
    BY DEF UpdateReadiness, CancelGameplayRequest, requestVars
  <2> QED BY <1>1, <2>1 DEF AgreeInv, SlotInv, NoRequest
<1>3. files' \subseteq Checksums
  BY DEF LInv, LinkTypeOK, FilesOK
<1>4. \A l \in sent' : SavedFits(l)'
  BY <1>1, <1>3, OwnContextFits DEF AgreeInv
<1> QED BY <1>1, <1>2, <1>4, SameJournal

LEMMA PluginAgree ==
  ASSUME LInv, IInv', AgreeInv, OneSlot, PluginActs
  PROVE  AgreeFacts
<1>1. CASE PollStarts \/ PollEnds
  <2>1. UNCHANGED <<journal, disk, session>> /\ sent' = {}
    BY <1>1 DEF PollStarts, PollEnds, PluginStep, NextRequest, DrainEnds, sessionVars, journalVars
  <2>2. pending' = pending \/ pending'.kind \in {"Reset", "Replay"}
    BY <1>1 DEF PollStarts, PollEnds, PluginStep, NextRequest, DrainEnds, SkipDeferredRestore,
                RequestReset, RequestReplay, FinishEmptyReplay, NothingToRestore, HandOut
  <2> QED BY <2>1, <2>2, QuietAgree DEF AgreeInv, SlotInv
<1>2. CASE PluginReads
  <2>1. taken > 0 /\ HandleLine(Head(toPlugin)) /\ UNCHANGED files
    BY <1>2 DEF PluginReads, PluginStep, gameVars
  <2>2. ForPlugin(Head(toPlugin)) /\ AnswerFits(Head(toPlugin))
    BY <2>1, HeadLine DEF LInv, AgreeInv
  <2> QED BY <2>1, <2>2, HandleLineAgree
<1>3. CASE GameFinishes \/ GameRefuses
  <2>1. PICK accepted \in BOOLEAN : ResultOf(accepted) /\ UNCHANGED files
    BY <1>3 DEF GameFinishes, GameRefuses, PluginStep, gameVars
  <2>2. CASE ReportResult(accepted)
    BY <2>1, <2>2, ReportResultAgree
  <2>3. CASE IgnoreCompletion(requestId)
    <3>1. UNCHANGED <<journal, disk, session, pending>> /\ sent' = {}
      BY <2>3 DEF IgnoreCompletion, sessionVars, journalVars, requestVars
    <3> QED BY <3>1, QuietAgree DEF AgreeInv, SlotInv
  <2> QED BY <2>1, <2>2, <2>3 DEF ResultOf, CompleteRequest
<1>4. ASSUME NEW c \in Checksums, LoadSave(c)
      PROVE  AgreeFacts
  BY <1>4, LoadSaveAgree DEF LoadSave, PluginStep
<1>5. ASSUME NEW c \in Checksums, SaveGame(c)
      PROVE  AgreeFacts
  <2>1. CASE SaveWritten(c)
    BY <1>5, <2>1, SaveWrittenAgree DEF SaveGame
  <2>2. CASE IgnoreSaveWritten
    <3>1. UNCHANGED <<journal, disk, session, pending>> /\ sent' = {}
      BY <2>2 DEF IgnoreSaveWritten, sessionVars, journalVars, requestVars
    <3> QED BY <3>1, QuietAgree DEF AgreeInv, SlotInv
  <2> QED BY <1>5, <2>1, <2>2 DEF SaveGame, PluginStep
<1>6. CASE EnterWorld \/ QuitToMenu
  BY <1>6, UpdateReadinessAgree DEF EnterWorld, QuitToMenu, PluginStep
<1> QED BY <1>1, <1>2, <1>3, <1>4, <1>5, <1>6 DEF PluginActs

\* Lines that were right stay right while cursors are only added.
LEMMA LinesStayRight ==
  ASSUME files \subseteq files',
         \A c \in Checksums : Learns(c) /\ ledger'[c] \in {ledger[c]} \cup
                                (IF ledger[c] = None THEN Cursors ELSE {}),
         CursorsAgree, files \subseteq Checksums, NEW l
  PROVE  /\ ForClient(l) /\ SavedFits(l) => SavedFits(l)'
         /\ ForPlugin(l) /\ AnswerFits(l) => AnswerFits(l)'
<1>1. None \notin Cursors
  BY SlotAssumption DEF Cursors
<1>2. ASSUME ForClient(l), SavedFits(l), l.type = "save_revision"
      PROVE  Snap(l.checksum)' # None /\ Snap(l.checksum)'.nextIndex = l.nextIndex
  BY <1>2 DEF ForClient, SavedFits, Learns
<1>3. ASSUME ForClient(l), SavedFits(l), IsContext(l), l.needsCursor
      PROVE  /\ l.checksum \in files'
             /\ l.snapshotKnown =>
                  Snap(l.checksum)' # None /\ Snap(l.checksum)'.nextIndex = l.nextIndex
             /\ ~l.snapshotKnown => Snap(l.checksum)' = None \/ ledger'[l.checksum] # None
  <2>1. l.checksum \in files /\ l.checksum \in Checksums
    BY <1>3 DEF SavedFits
  <2>2. /\ l.snapshotKnown =>
            Snap(l.checksum) # None /\ Snap(l.checksum).nextIndex = l.nextIndex
        /\ ~l.snapshotKnown => Snap(l.checksum) = None \/ ledger[l.checksum] # None
    BY <1>3 DEF SavedFits
  <2>3. Learns(l.checksum)
    BY <2>1
  <2>4. ledger[l.checksum] # None => ledger'[l.checksum] # None
    BY <2>1
  <2>5. l.snapshotKnown => Snap(l.checksum)' # None /\ Snap(l.checksum)'.nextIndex = l.nextIndex
    BY <2>2, <2>3 DEF Learns
  <2>6. Snap(l.checksum)' # None => Snap(l.checksum) # None \/ ledger'[l.checksum] # None
    BY <2>1, <2>3, <2>4 DEF Learns
  <2> QED BY <2>1, <2>2, <2>4, <2>5, <2>6
<1>4. ForPlugin(l) /\ AnswerFits(l) => AnswerFits(l)'
  BY <1>1 DEF ForPlugin, AnswerFits
<1> QED BY <1>2, <1>3, <1>4 DEF SavedFits

LEMMA PluginKeepsAgreement ==
  ASSUME LInv, AgreeInv, OneSlot, PluginActs
  PROVE  AgreeInv'
<1>1. /\ LInv' /\ Lines(toClient') \subseteq Lines(toClient) \cup sent'
      /\ Lines(toPlugin') \subseteq Lines(toPlugin)
  BY PluginSide
<1>2. AgreeFacts
  BY <1>1, PluginAgree DEF LInv
<1>3. files \subseteq files' /\ ledger' = ledger
  BY DEF PluginActs, PollStarts, PollEnds, PluginReads, GameFinishes, GameRefuses,
         LoadSave, SaveGame, EnterWorld, QuitToMenu, gameVars, bridgeVars, ledgerVars
<1>4. CursorsAgree /\ files \subseteq Checksums
  BY DEF AgreeInv, LInv, LinkTypeOK, FilesOK
<1>5. CursorsAgree'
  <2> SUFFICES ASSUME NEW c \in Checksums
               PROVE  /\ disk'.snapshots[Slot][c] \in {None, Snap(c)'}
                      /\ ledger'[c] # None /\ Snap(c)' # None =>
                           ledger'[c] = Snap(c)'.nextIndex
                      /\ c \notin files' => Snap(c)' = None /\ ledger'[c] = None
    BY DEF CursorsAgree, Snap
  <2>1. Learns(c) /\ disk' \in {disk, journal'}
    BY <1>2 DEF AgreeFacts
  <2>2. /\ disk.snapshots[Slot][c] \in {None, Snap(c)}
        /\ ledger[c] # None /\ Snap(c) # None => ledger[c] = Snap(c).nextIndex
        /\ c \notin files => Snap(c) = None /\ ledger[c] = None
    BY <1>4 DEF CursorsAgree
  <2>3. disk'.snapshots[Slot][c] \in {None, Snap(c)'}
    <3>1. CASE disk' = disk
      BY <2>1, <2>2, <3>1 DEF Learns
    <3>2. CASE disk' = journal'
      BY <3>2 DEF Snap
    <3> QED BY <2>1, <3>1, <3>2
  <2>4. ledger'[c] # None /\ Snap(c)' # None => ledger'[c] = Snap(c)'.nextIndex
    BY <1>3, <2>1, <2>2 DEF Learns
  <2>5. c \notin files' => Snap(c)' = None /\ ledger'[c] = None
    BY <1>3, <2>1, <2>2 DEF Learns
  <2> QED BY <2>3, <2>4, <2>5
<1>6. \A c \in Checksums : Learns(c) /\ ledger'[c] \in {ledger[c]} \cup
                             (IF ledger[c] = None THEN Cursors ELSE {})
  BY <1>2, <1>3 DEF AgreeFacts
<1>7. \A l \in Lines(toPlugin') : AnswerFits(l)'
  <2> SUFFICES ASSUME NEW l \in Lines(toPlugin') PROVE AnswerFits(l)'
    OBVIOUS
  <2>1. ForPlugin(l) /\ AnswerFits(l)
    BY <1>1 DEF LInv, LinkTypeOK, ToPluginOK, AgreeInv
  <2> QED BY <1>3, <1>4, <1>6, <2>1, LinesStayRight
<1>8. \A l \in Lines(toClient') : SavedFits(l)'
  <2> SUFFICES ASSUME NEW l \in Lines(toClient') PROVE SavedFits(l)'
    OBVIOUS
  <2>1. CASE l \in sent'
    BY <1>2, <2>1 DEF AgreeFacts
  <2>2. CASE l \in Lines(toClient)
    <3>1. ForClient(l) /\ SavedFits(l)
      BY <2>2 DEF LInv, LinkTypeOK, ToClientOK, AgreeInv
    <3> QED BY <1>3, <1>4, <1>6, <3>1, LinesStayRight
  <2> QED BY <1>1, <2>1, <2>2
<1> QED BY <1>2, <1>5, <1>7, <1>8 DEF AgreeInv, AgreeFacts

-----------------------------------------------------------------------------
\* The stores and the steps of the client.

\* The ledger only learns a save the game has, and the cursor the journal has if it
\* knows that save.
LedgerGrows ==
  \/ ledger' = ledger
  \/ \E c \in files, n \in Cursors :
       /\ ledger[c] = None /\ ledger' = [ledger EXCEPT ![c] = n]
       /\ Snap(c) = None \/ Snap(c).nextIndex = n

LEMMA ClientKeepsAgreement ==
  ASSUME LInv, AgreeInv, UNCHANGED <<vars, files>>, LedgerGrows,
         \A l \in Lines(toClient') : l \in Lines(toClient) \/ l = [type |-> "hello"],
         \A l \in Lines(toPlugin') : l \in Lines(toPlugin) \/ AnswerFits(l)'
  PROVE  AgreeInv'
<1>1. UNCHANGED <<session, pending, journal, disk, files>>
  BY DEF vars, sessionVars, requestVars, journalVars
<1>2. CursorsAgree /\ files \subseteq Checksums /\ ledger \in CursorMaps
  BY DEF AgreeInv, LInv, LinkTypeOK, FilesOK, BridgeOK
<1>3. \A c \in Checksums : Snap(c)' = Snap(c)
  BY <1>1 DEF Snap
<1>4. CursorsAgree'
  <2>1. CASE ledger' = ledger
    BY <1>1, <1>2, <2>1 DEF CursorsAgree, Snap
  <2>2. ASSUME NEW c \in files, NEW n \in Cursors, ledger[c] = None,
               ledger' = [ledger EXCEPT ![c] = n],
               Snap(c) = None \/ Snap(c).nextIndex = n
        PROVE  CursorsAgree'
    <3>1. \A d \in Checksums : ledger'[d] = IF d = c THEN n ELSE ledger[d]
      BY <1>2, <2>2 DEF CursorMaps
    <3> QED BY <1>1, <1>2, <2>2, <3>1 DEF CursorsAgree, Snap
  <2> QED BY <2>1, <2>2 DEF LedgerGrows
<1>5. \A c \in Checksums : Learns(c) /\ ledger'[c] \in {ledger[c]} \cup
                             (IF ledger[c] = None THEN Cursors ELSE {})
  <2>1. \A c \in Checksums : Learns(c)
    BY <1>3 DEF Learns
  <2>2. \A c \in Checksums : ledger'[c] = ledger[c] \/ (ledger[c] = None /\ ledger'[c] \in Cursors)
    BY <1>2 DEF LedgerGrows, CursorMaps
  <2> QED BY <2>1, <2>2
<1>6. \A l \in Lines(toPlugin') : AnswerFits(l)'
  <2> SUFFICES ASSUME NEW l \in Lines(toPlugin) PROVE AnswerFits(l)'
    OBVIOUS
  <2>1. ForPlugin(l) /\ AnswerFits(l)
    BY DEF LInv, LinkTypeOK, ToPluginOK, AgreeInv
  <2> QED BY <1>1, <1>2, <1>5, <2>1, LinesStayRight
<1>7. \A l \in Lines(toClient') : SavedFits(l)'
  <2>1. ASSUME NEW l \in Lines(toClient) PROVE SavedFits(l)'
    <3>1. ForClient(l) /\ SavedFits(l)
      BY DEF LInv, LinkTypeOK, ToClientOK, AgreeInv
    <3> QED BY <1>1, <1>2, <1>5, <3>1, LinesStayRight
  <2>2. SavedFits([type |-> "hello"])'
    <3>1. ~IsContext([type |-> "hello"]) /\ [type |-> "hello"].type # "save_revision"
      BY DEF IsContext
    <3> QED BY <3>1, OtherLinesFit
  <2> QED BY <2>1, <2>2
<1> QED BY <1>1, <1>4, <1>6, <1>7 DEF AgreeInv, SlotInv

\* What the client answers to a save that waits for its cursor.
LEMMA ContextAnswerAgree ==
  ASSUME LInv, AgreeInv, NEW line, line.needsCursor, IsContext(line), ForClient(line),
         SavedFits(line), ContextAnswer(line), UNCHANGED <<journal, taken>>
  PROVE  LedgerGrows /\ \A l \in Lines(toPlugin') : l \in Lines(toPlugin) \/ AnswerFits(l)'
<1> DEFINE c == line.checksum
           n == Resolve(line.checksum, line.snapshotKnown, line.nextIndex, line.items)
<1>1. CASE UNCHANGED <<ledgerVars, toPlugin>>
  BY <1>1 DEF LedgerGrows, ledgerVars
<1>2. CASE /\ n # None /\ AnswerSaveContext(c, n)
           /\ \/ ledger[c] # None /\ UNCHANGED ledgerVars
              \/ ledger[c] = None /\ PersistCursor(c, n)
  <2>1. /\ c \in Checksums /\ line.nextIndex \in Cursors /\ c \in files
        /\ ledger \in CursorMaps /\ BridgeOK /\ ToPluginOK
    BY DEF ForClient, SavedFits, LInv, LinkTypeOK, BridgeOK
  <2>2. n \in Cursors
    BY <1>2, <2>1, ResolveFacts
  <2>3. /\ line.snapshotKnown => n = line.nextIndex /\ ledger[c] \in {None, n}
        /\ ~line.snapshotKnown => ledger[c] = None \/ n = ledger[c]
    BY <1>2 DEF Resolve
  <2>4. /\ line.snapshotKnown => Snap(c) # None /\ Snap(c).nextIndex = line.nextIndex
        /\ ~line.snapshotKnown => Snap(c) = None \/ ledger[c] # None
    BY DEF SavedFits
  <2>5. PICK m \in Cursors : m = n
    BY <2>2
  <2> HIDE DEF n
  <2> DEFINE answer == [type |-> "save_context", checksum |-> c, nextIndex |-> m,
                        items |-> PersistentBefore(m)]
  <2>6. ledger'[c] = m /\ LedgerGrows
    <3>1. CASE ledger[c] # None /\ UNCHANGED ledgerVars
      BY <2>3, <2>5, <3>1 DEF ledgerVars, LedgerGrows
    <3>2. CASE ledger[c] = None /\ PersistCursor(c, m)
      <4>1. ledger' = [ledger EXCEPT ![c] = m] /\ ledger'[c] = m
        BY <2>1, <3>2 DEF PersistCursor, CursorMaps
      <4>2. Snap(c) = None \/ Snap(c).nextIndex = m
        BY <2>3, <2>4, <2>5, <3>2
      <4> QED BY <2>1, <3>2, <4>1, <4>2 DEF LedgerGrows
    <3> QED BY <1>2, <2>5, <3>1, <3>2
  <2>7. Lines(toPlugin') \subseteq Lines(toPlugin) \cup {answer}
    BY <1>2, <2>1, <2>5, AnswerTyped, SendStep DEF AnswerSaveContext
  <2>8. AnswerFits(answer)'
    BY <2>6 DEF AnswerFits
  <2> HIDE DEF answer
  <2> QED BY <2>6, <2>7, <2>8
<1> QED BY <1>1, <1>2 DEF ContextAnswer

\* The cursor of a save the plugin recorded.
LEMMA OnSaveRevisionAgree ==
  ASSUME LInv, AgreeInv, NEW line, line.type = "save_revision", ForClient(line),
         SavedFits(line), OnSaveRevision(line), UNCHANGED <<journal, taken>>
  PROVE  LedgerGrows /\ \A l \in Lines(toPlugin') : l \in Lines(toPlugin) \/ AnswerFits(l)'
<1> DEFINE c == line.checksum
           n == line.nextIndex
           Answer(accepted) == [type |-> "save_revision_ack", checksum |-> c,
                                nextIndex |-> n, accepted |-> accepted]
<1>1. /\ n \in Cursors /\ c \in Checksums /\ Snap(c) # None /\ Snap(c).nextIndex = n
      /\ ToPluginOK
  BY DEF ForClient, SavedFits, LInv, LinkTypeOK
<1>2. c \in files
  BY <1>1 DEF AgreeInv, CursorsAgree
<1>3. /\ Send(Answer(TRUE)) \/ Send(Answer(FALSE))
      /\ UNCHANGED ledgerVars \/ (ledger[c] = None /\ PersistCursor(c, n))
  BY DEF OnSaveRevision
<1>4. LedgerGrows
  BY <1>1, <1>2, <1>3 DEF LedgerGrows, PersistCursor, ledgerVars
<1>5. /\ ForPlugin(Answer(TRUE)) /\ Answer(TRUE).type # "save_context"
      /\ ForPlugin(Answer(FALSE)) /\ Answer(FALSE).type # "save_context"
  BY <1>1 DEF ForPlugin
<1> HIDE DEF Answer
<1>6. Lines(toPlugin') \subseteq Lines(toPlugin) \cup {Answer(TRUE), Answer(FALSE)}
  <2>1. CASE Send(Answer(TRUE))
    BY <1>1, <1>5, <2>1, SendStep
  <2>2. CASE Send(Answer(FALSE))
    BY <1>1, <1>5, <2>2, SendStep
  <2> QED BY <1>3, <2>1, <2>2
<1> QED BY <1>4, <1>5, <1>6 DEF AnswerFits

LEMMA ReadsAgree ==
  ASSUME LInv, AgreeInv, ClientReads
  PROVE  AgreeInv'
<1> DEFINE line == Head(toClient)
<1>1. /\ toClient # <<>> /\ HandleMessage(line) /\ toClient' = Tail(toClient)
      /\ UNCHANGED <<vars, taken, files, journal>>
  BY DEF ClientReads, gameVars, vars, journalVars
<1>2. IsQueue(toClient) /\ \A l \in Lines(toClient) : ForClient(l) /\ SavedFits(l)
  BY DEF LInv, LinkTypeOK, ToClientOK, AgreeInv
<1>3. /\ Lines(toClient') \subseteq Lines(toClient)
      /\ ForClient(line) /\ SavedFits(line)
  BY <1>1, <1>2, TailQueue
<1> HIDE DEF line
<1>4. SUFFICES LedgerGrows /\ \A l \in Lines(toPlugin') : l \in Lines(toPlugin) \/ AnswerFits(l)'
  BY <1>1, <1>3, ClientKeepsAgreement
<1>5. CASE UNCHANGED <<ledgerVars, toPlugin>>
  BY <1>5 DEF LedgerGrows, ledgerVars
<1>6. CASE line.type = "game_context" /\ OnGameContext(line)
  <2>1. \/ UNCHANGED <<ledgerVars, toPlugin>>
        \/ line.needsCursor /\ ContextAnswer(line)
    BY <1>1, <1>3, <1>6, OnGameContextStep DEF IsContext
  <2> QED BY <1>1, <1>3, <1>5, <1>6, <2>1, ContextAnswerAgree DEF IsContext
<1>7. CASE line.type = "save_revision" /\ OnSaveRevision(line)
  BY <1>1, <1>3, <1>7, OnSaveRevisionAgree
<1>8. CASE \/ line.type = "hello" /\ OnHello
           \/ line.type = "item_ack" /\ OnItemAck(line)
           \/ OnOtherLine(line)
  BY <1>5, <1>8 DEF OnHello, OnItemAck, OnOtherLine, bridgeVars, ledgerVars
<1> QED BY <1>1, <1>6, <1>7, <1>8 DEF HandleMessage

\* The other steps of the client and of the link.
LEMMA SendAgree ==
  ASSUME LInv, AgreeInv, NEW l, ForPlugin(l), l.type # "save_context",
         Send(l) \/ UNCHANGED toPlugin, UNCHANGED <<vars, taken, toClient, files, ledger>>
  PROVE  AgreeInv'
<1>1. Lines(toPlugin') \subseteq Lines(toPlugin) \cup {l}
  BY SendStep DEF LInv, LinkTypeOK
<1> QED BY <1>1, ClientKeepsAgreement DEF LedgerGrows, AnswerFits

LEMMA ClientAgree ==
  ASSUME LInv, AgreeInv, ClientActs
  PROVE  AgreeInv'
<1>1. CASE LinkUp
  <2>1. /\ Lines(toPlugin') \subseteq Lines(toPlugin) \cup {[type |-> "connected"]}
        /\ Lines(toClient') \subseteq Lines(toClient) \cup {[type |-> "hello"]}
    BY <1>1, LinkUpStep
  <2>2. UNCHANGED <<vars, files, ledger>>
    BY <1>1 DEF LinkUp, AcceptPlugin, gameVars, ledgerVars
  <2> QED BY <2>1, <2>2, ClientKeepsAgreement DEF LedgerGrows, AnswerFits
<1>2. CASE LinkDown
  <2>1. /\ Lines(toPlugin') \subseteq Lines(toPlugin) \cup {[type |-> "disconnected"]}
        /\ Lines(toClient') = {}
    BY <1>2, LinkDownStep
  <2>2. UNCHANGED <<vars, files, ledger>>
    BY <1>2 DEF LinkDown, LosePlugin, gameVars, ledgerVars
  <2> QED BY <2>1, <2>2, ClientKeepsAgreement DEF LedgerGrows, AnswerFits
<1>3. CASE ClientReads
  BY <1>3, ReadsAgree
<1>4. CASE SyncLoop \/ AckIsLost \/ AckIsLate \/ ServerSession \/ ServerMirror
           \/ ServerItems \/ ServerLost \/ SessionEnds
  <2>1. UNCHANGED <<vars, taken, toClient, files>>
    BY <1>4 DEF SyncLoop, AckIsLost, AckIsLate, ServerSession, ServerMirror, ServerItems,
                ServerLost, SessionEnds, ClientStep, gameVars
  <2>2. CASE \/ SessionReadySent \/ ItemSentToPlugin \/ NothingToDeliver \/ RetryDelayEnds
             \/ AckTimesOut \/ OnConnected \/ OnRetrieved \/ OnReceivedItems
             \/ OnConnectionClosed \/ EndSession \/ AckArrives
    <3>1. Send([type |-> "session_end"]) \/ UNCHANGED toPlugin
      BY <2>2 DEF SessionReadySent, ItemSentToPlugin, NothingToDeliver, RetryDelayEnds,
                  AckTimesOut, OnConnected, OnRetrieved, OnReceivedItems,
                  OnConnectionClosed, EndSession, AckArrives
    <3>2. ledger' = ledger
      BY <2>2 DEF SessionReadySent, ItemSentToPlugin, NothingToDeliver, RetryDelayEnds,
                  AckTimesOut, OnConnected, OnRetrieved, OnReceivedItems,
                  OnConnectionClosed, EndSession, AckArrives, ledgerVars
    <3>3. ForPlugin([type |-> "session_end"]) /\ [type |-> "session_end"].type # "save_context"
      BY DEF ForPlugin
    <3> QED BY <2>1, <3>1, <3>2, <3>3, SendAgree
  <2>3. CASE WakeSyncLoop
    <3>1. ForPlugin([type |-> "session_ready"]) /\ [type |-> "session_ready"].type # "save_context"
      BY DEF ForPlugin
    <3>2. /\ Send([type |-> "session_ready"]) \/ UNCHANGED toPlugin
          /\ ledger' = ledger
      BY <2>3 DEF WakeSyncLoop, ledgerVars
    <3> QED BY <2>1, <3>1, <3>2, SendAgree
  <2>4. CASE SendItem
    <3> DEFINE item == [type |-> "item", index |-> liveCursor, name |-> Inventory[liveCursor]]
    <3>1. liveCursor \in Nat /\ liveCursor < received /\ received \in Cursors
      BY <2>4 DEF SendItem, HasItemToSend, LInv, LinkTypeOK, BridgeOK
    <3>2. liveCursor \in Cursors /\ liveCursor \in 0..(MaxIndex - 1)
      BY <3>1, SlotAssumption DEF Cursors
    <3>3. Inventory[liveCursor] \in Items
      BY <3>2, BridgeAssumption
    <3>4. ForPlugin(item) /\ item.type # "save_context"
      BY <3>2, <3>3 DEF ForPlugin
    <3>5. Send(item) /\ ledger' = ledger
      BY <2>4 DEF SendItem, ledgerVars
    <3> HIDE DEF item
    <3> QED BY <2>1, <3>4, <3>5, SendAgree
  <2> QED
    BY <1>4, <2>2, <2>3, <2>4 DEF SyncLoop, AckIsLost, AckIsLate, ServerSession,
       ServerMirror, ServerItems, ServerLost, SessionEnds, ClientStep
<1> QED BY <1>1, <1>2, <1>3, <1>4 DEF ClientActs

LEMMA AgreeInit == LInit => AgreeInv
<1> SUFFICES ASSUME LInit PROVE AgreeInv
  OBVIOUS
<1>1. /\ toPlugin = <<>> /\ toClient = <<>> /\ ledger = NoCursors
      /\ session = None /\ pending = NoRequest
      /\ journal = EmptyJournal /\ disk = EmptyJournal
  BY DEF LInit, BInit, Init, InitVolatile
<1>2. Lines(toPlugin) = {} /\ Lines(toClient) = {}
  BY <1>1, EmptyQueue
<1>3. \A c \in Checksums : EmptyJournal.snapshots[Slot][c] = None /\ ledger[c] = None
  BY <1>1, LinkAssumption DEF EmptyJournal, NoCursors
<1>4. CursorsAgree
  BY <1>1, <1>3 DEF CursorsAgree, Snap
<1>5. SlotInv
  BY <1>1 DEF SlotInv, NoRequest
<1> QED BY <1>2, <1>4, <1>5 DEF AgreeInv

LEMMA AgreeStep ==
  ASSUME LInv, AgreeInv, OneSlot, [LNext]_linkAll
  PROVE  AgreeInv'
<1>1. CASE PluginActs
  BY <1>1, PluginKeepsAgreement
<1>2. CASE ClientActs
  BY <1>2, ClientAgree
<1>3. CASE UNCHANGED linkAll
  <2>1. UNCHANGED <<vars, toClient, files, toPlugin, ledger>>
    BY <1>3 DEF linkAll, bridgeVars, gameVars, ledgerVars
  <2> QED BY <2>1, ClientKeepsAgreement DEF LedgerGrows
<1> QED BY <1>1, <1>2, <1>3, StepsOfLink

\* The two stores that survive a crash agree: a save that both the plugin's journal
\* file and the client's ledger know has one cursor, whatever is lost, late, repeated
\* or refused on the way from one program to the other, and although each writes its
\* file at its own time.  The ledger is that of Slot, so the client offers no other
\* session.
THEOREM Agreement ==
  ASSUME OneSlot
  PROVE  LSpec => []StoresAgree
<1>1. LInit => LInv /\ AgreeInv
  BY LinkInit, AgreeInit
<1>2. LInv /\ AgreeInv /\ [LNext]_linkAll => (LInv /\ AgreeInv)'
  BY LinkStep, AgreeStep
<1>3. AgreeInv => StoresAgree
  BY DEF AgreeInv, CursorsAgree, StoresAgree
<1> QED BY <1>1, <1>2, <1>3, PTL DEF LSpec
=============================================================================
