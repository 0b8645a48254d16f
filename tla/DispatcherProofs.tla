--------------------------- MODULE DispatcherProofs ---------------------------
(***************************************************************************)
(* Theorems about the dispatcher, for any games, gates, entities and       *)
(* connections and any peer traffic.                                       *)
(*                                                                         *)
(* The handlers work on snapshots of the routing state.  Good(s) is the    *)
(* inductive invariant stated of a snapshot; the lemmas show that each     *)
(* step a handler is made of keeps it, and the theorem Inductive puts them *)
(* together, one step per action.                                          *)
(*                                                                         *)
(* The order of calls has an invariant of its own, Order(s, f): the        *)
(* numbers of the calls waiting at the dispatcher rise, f being the        *)
(* number of the next call to be issued; the X...Order lemmas show that    *)
(* the same steps keep it, and OrderInductive puts them together.          *)
(*                                                                         *)
(* What a system with games has to know of the dispatcher comes last: what *)
(* packets tell games of each other (Keeps, Stays), and what they make     *)
(* live or end (Mild).                                                     *)
(***************************************************************************)
EXTENDS Dispatcher, FiniteSetTheorems, WellFoundedInduction, TLAPS

Snapshot(s) ==
  /\ s = [edi |-> s.edi, gdi |-> s.gdi, id |-> s.id, wire |-> s.wire]
  /\ s.edi \in [Entity -> EntityInfo]
  /\ s.gdi \in [Game -> GameInfo]
  /\ s.id \in [Conn -> Game \cup Gate \cup {None}]
  /\ s.wire \in [Conn -> Seq(Packet)]

\* PendingOnlyWhileBlocked of a snapshot's entry; one that is not in the map has
\* no route, so that a game that goes down takes all its routes with it.
Entry(i) == /\ i.pending # <<>> => i.blockUntil # "zero"
            /\ i.known \/ i.gameid = None
Entries(s) == \A e \in Entity : Entry(s.edi[e])

\* The part of ProxyIdentity about games.
Identified(s) ==
  \A g \in Game : s.gdi[g].clientProxy # None =>
    s.gdi[g].known /\ s.id[s.gdi[g].clientProxy] = g

\* Why HeldForAReason is inductive: a block whose time was cleared by a reconnect
\* holds nothing any more, a connected game that is not blocked has nothing held,
\* and a block never runs out while the game is connected.
Queue(i) ==
  /\ i.isBlocked /\ i.blockUntil = "zero" => i.pending = <<>>
  /\ ~i.isBlocked /\ i.clientProxy # None => i.pending = <<>>
  /\ i.clientProxy # None => i.blockUntil # "past"
Queues(s) == "connected" \in FreezeTimeout \/ \A g \in Game : Queue(s.gdi[g])

\* Who is connected.
Proxies(s) == [g \in Game |-> s.gdi[g].clientProxy]

Good(s) == Snapshot(s) /\ Entries(s) /\ Identified(s) /\ Queues(s)

-----------------------------------------------------------------------------
(* Sequences and packets                                                    *)

\* Of some natural numbers one is the least.
LEMMA Least ==
  ASSUME NEW S \in SUBSET Nat, S # {}
  PROVE  \E m \in S : \A k \in S : m <= k
<1> DEFINE R == OpToRel(<, Nat)
<1>1. IsWellFoundedOn(R, Nat)
  BY NatLessThanWellFounded
<1>2. \A x, y \in Nat : <<x, y>> \in R <=> x < y
  BY DEF OpToRel
<1> HIDE DEF R
<1>3. PICK m \in S : \A k \in S : ~(<<k, m>> \in R)
  BY <1>1, WFMin
<1>4. ASSUME NEW k \in S PROVE m <= k
  <2>1. m \in Nat /\ k \in Nat /\ ~(k < m)
    BY <1>2, <1>3
  <2> QED BY <2>1
<1> QED BY <1>4

\* Sequences are put one after the other, in their order.
LEMMA FlattenSteps ==
  ASSUME NEW T, NEW n \in Nat, NEW seqs \in [1..n -> Seq(T)]
  PROVE  \/ n = 0 /\ FlattenSeq(seqs) = <<>>
         \/ /\ n # 0
            /\ \E f \in [1..n -> Seq(T)] :
                 /\ FlattenSeq(seqs) = f[n]
                 /\ \A i \in 1..n : f[i] = IF i = 1 THEN seqs[i] ELSE f[i-1] \o seqs[i]
<1> DEFINE Step(f, i) == IF i = 1 THEN seqs[i] ELSE f[i-1] \o seqs[i]
           Is(f, m) == f = [i \in 1..m |-> Step(f, i)]
           Defined(m) == \E f \in [1..m -> Seq(T)] : Is(f, m)
           Bad == {m \in Nat : m <= n /\ ~Defined(m)}
           flat == CHOOSE f : f = [i \in 1..Len(seqs) |-> IF i = 1 THEN seqs[i] ELSE f[i-1] \o seqs[i]]
<1>1. Len(seqs) = n /\ \A i \in 1..n : seqs[i] \in Seq(T)
  OBVIOUS
<1>2. FlattenSeq(seqs) = IF n = 0 THEN seqs ELSE flat[n]
  BY <1>1 DEF FlattenSeq
<1>3. ASSUME NEW m \in Nat, m + 1 <= n, Defined(m) PROVE Defined(m + 1)
  <2>1. PICK f \in [1..m -> Seq(T)] : Is(f, m)
    BY <1>3
  <2> DEFINE h == [i \in 1..(m + 1) |-> Step(f, i)]
  <2>2. ASSUME NEW i \in 1..(m + 1) PROVE Step(f, i) \in Seq(T)
    <3>1. CASE i = 1
      BY <1>1, <1>3, <3>1
    <3>2. CASE i # 1
      <4>1. i - 1 \in 1..m /\ i \in 1..n
        BY <1>3, <3>2
      <4>2. f[i - 1] \in Seq(T) /\ seqs[i] \in Seq(T)
        BY <1>1, <4>1
      <4> QED BY <3>2, <4>2
    <3> QED BY <3>1, <3>2
  <2>3. h \in [1..(m + 1) -> Seq(T)]
    BY <2>2
  <2>4. \A i \in 1..m : f[i] = Step(f, i)
    BY <2>1
  <2>5. ASSUME NEW i \in 1..(m + 1), i # 1 PROVE h[i - 1] = f[i - 1]
    <3>1. i - 1 \in 1..m /\ i - 1 \in 1..(m + 1)
      BY <2>5
    <3> QED BY <2>4, <3>1
  <2>6. \A i \in 1..(m + 1) : Step(f, i) = Step(h, i)
    BY <2>5
  <2>7. Is(h, m + 1)
    BY <2>6
  <2> QED BY <2>3, <2>7
<1>4. Bad = {}
  <2>1. 0 \notin Bad
    <3>1. [i \in 1..0 |-> << >>] \in [1..0 -> Seq(T)]
      OBVIOUS
    <3>2. Is([i \in 1..0 |-> << >>], 0)
      OBVIOUS
    <3> QED BY <3>1, <3>2
  <2>2. SUFFICES ASSUME Bad # {} PROVE FALSE
    OBVIOUS
  <2>3. PICK m \in Bad : \A k \in Bad : m <= k
    <3>1. Bad \in SUBSET Nat
      OBVIOUS
    <3> HIDE DEF Bad
    <3> QED BY <2>2, <3>1, Least
  <2>4. m \in Nat /\ m <= n /\ m # 0
    BY <2>1
  <2>5. m - 1 \in Nat /\ (m - 1) + 1 = m /\ ~(m <= m - 1)
    BY <2>4
  <2>6. Defined(m - 1) /\ ~Defined(m)
    <3> HIDE DEF Defined
    <3> QED BY <2>3, <2>4, <2>5
  <2> HIDE DEF Defined
  <2> QED BY <1>3, <2>4, <2>5, <2>6
<1>5. PICK f \in [1..n -> Seq(T)] : Is(f, n)
  <2>1. Defined(n)
    <3> HIDE DEF Defined
    <3> QED BY <1>4
  <2> QED BY <2>1
<1>6. Is(flat, n)
  BY <1>1, <1>5
<1>7. CASE n = 0
  <2>1. Len(seqs) = 0 /\ seqs \in Seq(Seq(T))
    BY <1>1, <1>7
  <2>2. seqs = <<>>
    BY <2>1
  <2> QED BY <1>2, <1>7, <2>2
<1>8. CASE n # 0
  <2> DEFINE Off == {i \in 1..n : flat[i] # f[i]}
  <2>1. \A i \in 1..n : f[i] = Step(f, i) /\ flat[i] = Step(flat, i)
    BY <1>5, <1>6
  <2>2. Off = {}
    <3> SUFFICES ASSUME Off # {} PROVE FALSE
      OBVIOUS
    <3>1. PICK m \in Off : \A k \in Off : m <= k
      <4>1. \A i \in Off : i \in Nat
        OBVIOUS
      <4> HIDE DEF Off
      <4>2. Off \in SUBSET Nat
        BY <4>1
      <4> QED BY <4>2, Least
    <3>2. m \in 1..n /\ (m # 1 => m - 1 \in 1..n /\ ~(m <= m - 1))
      OBVIOUS
    <3>3. m # 1 => flat[m - 1] = f[m - 1]
      BY <3>1, <3>2
    <3> QED BY <2>1, <3>2, <3>3
  <2>3. n \in 1..n
    BY <1>8
  <2>4. flat[n] = f[n]
    BY <2>2, <2>3
  <2> HIDE DEF Off
  <2> QED BY <1>2, <1>8, <2>1, <2>4
<1> QED BY <1>7, <1>8

\* Sequences of elements, one after the other, are a sequence of elements.
LEMMA FlattenTyped ==
  ASSUME NEW T, NEW n \in Nat, NEW seqs \in [1..n -> Seq(T)]
  PROVE  FlattenSeq(seqs) \in Seq(T)
  <1>1. CASE n = 0
    <2>1. <<>> \in Seq(T)
      OBVIOUS
    <2> QED BY <1>1, <2>1, FlattenSteps
  <1>2. CASE n # 0
    <2>1. n \in 1..n
      BY <1>2
    <2> QED BY <1>2, <2>1, FlattenSteps
  <1> QED BY <1>1, <1>2

\* What holds of nothing and is kept by adding each sequence in turn holds of all.
LEMMA FlattenInduct ==
  ASSUME NEW T, NEW n \in Nat, NEW seqs \in [1..n -> Seq(T)],
         NEW A \in [0..n -> SUBSET Seq(T)], <<>> \in A[0],
         \A m \in 0..(n - 1) : \A q \in A[m] : q \o seqs[m + 1] \in A[m + 1]
  PROVE  FlattenSeq(seqs) \in A[n]
  <1>1. CASE n = 0
    BY <1>1, FlattenSteps
  <1>2. CASE n # 0
    <2>1. PICK f \in [1..n -> Seq(T)] :
            /\ FlattenSeq(seqs) = f[n]
            /\ \A i \in 1..n : f[i] = IF i = 1 THEN seqs[i] ELSE f[i-1] \o seqs[i]
      BY <1>2, FlattenSteps
    <2> DEFINE Off == {i \in 1..n : f[i] \notin A[i]}
    <2>2. SUFFICES ASSUME Off # {} PROVE FALSE
      <3>1. n \in 1..n
        BY <1>2
      <3> QED BY <2>1, <3>1
    <2>3. PICK m \in Off : \A k \in Off : m <= k
      <3>1. \A i \in Off : i \in Nat
        OBVIOUS
      <3> HIDE DEF Off
      <3>2. Off \in SUBSET Nat
        BY <3>1
      <3> QED BY <2>2, <3>2, Least
    <2>4. m \in 1..n /\ f[m] \notin A[m]
      OBVIOUS
    <2>5. CASE m = 1
      <3>1. 0 \in 0..(n - 1) /\ 0 + 1 = 1 /\ 1 \in 1..n
        BY <1>2
      <3>2. <<>> \o seqs[0 + 1] \in A[0 + 1]
        BY <3>1
      <3>3. seqs[1] \in Seq(T)
        BY <3>1
      <3>4. <<>> \o seqs[1] = seqs[1]
        BY <3>3
      <3> QED BY <2>1, <2>4, <2>5, <3>1, <3>2, <3>4
    <2>6. CASE m # 1
      <3>1. /\ m - 1 \in 1..n /\ m - 1 \in 0..(n - 1) /\ (m - 1) + 1 = m
            /\ ~(m <= m - 1)
        BY <2>4, <2>6
      <3>2. f[m - 1] \in A[m - 1]
        BY <2>3, <3>1
      <3>3. f[m - 1] \o seqs[(m - 1) + 1] \in A[(m - 1) + 1]
        BY <3>1, <3>2
      <3> QED BY <2>1, <2>4, <2>6, <3>1, <3>3
    <2> QED BY <2>5, <2>6
  <1> QED BY <1>1, <1>2

\* The elements of a finite set, in some order.
LEMMA SetToSeqTyped ==
  ASSUME NEW S, IsFiniteSet(S)
  PROVE  SetToSeq(S) \in Seq(S) /\ IsInjective(SetToSeq(S))
<1>1. Cardinality(S) \in Nat
  BY FS_CardinalityType
<1>2. \E f \in [1..Cardinality(S) -> S] : IsInjective(f)
  <2>1. ExistsBijection(1..Cardinality(S), S)
    BY FS_CardinalityType
  <2>2. PICK f : f \in Bijection(1..Cardinality(S), S)
    BY <2>1 DEF ExistsBijection
  <2>3. f \in [1..Cardinality(S) -> S] /\ IsInjective(f)
    BY <2>2 DEF Bijection, Injection, IsInjective
  <2> QED BY <2>3
<1>3. SetToSeq(S) \in [1..Cardinality(S) -> S] /\ IsInjective(SetToSeq(S))
  BY <1>2 DEF SetToSeq
<1> QED BY <1>1, <1>3

LEMMA HoldTyped ==
  ASSUME NEW T, NEW q \in Seq(T), NEW ps \in Seq(T), NEW max \in Nat
  PROVE  Hold(q, ps, max) \in Seq(T)
  <1>1. q \o ps \in Seq(T) /\ Len(q) \in Nat /\ Len(q \o ps) = Len(q) + Len(ps)
        /\ Len(ps) \in Nat
    OBVIOUS
  <1>2. ASSUME NEW n \in Nat, n <= Len(q \o ps)
        PROVE  SubSeq(q \o ps, 1, n) \in Seq(T)
    BY <1>1, <1>2
  <1> QED BY <1>1, <1>2 DEF Hold

LEMMA HoldNothing ==
  ASSUME NEW q \in Seq(Packet), NEW max \in Nat
  PROVE  Hold(q, <<>>, max) = q
  <1>1. q \o <<>> = q /\ SubSeq(q, 1, Len(q)) = q /\ Len(q) \in Nat
    OBVIOUS
  <1>2. CASE Len(q) <= max
    BY <1>1, <1>2 DEF Hold
  <1>3. CASE ~(Len(q) <= max)
    BY <1>1, <1>3, Len(q) > max DEF Hold
  <1> QED BY <1>2, <1>3

-----------------------------------------------------------------------------
(* Dispatching to games                                                     *)

\* A game that is reached, or not, keeps its connection and its block's time.
LEMMA ArriveTyped ==
  ASSUME NEW g, NEW i \in GameInfo, NEW down, NEW reached, NEW q \in Seq(Packet)
  PROVE  LET j == Arrive(g, i, down, reached, q)
         IN /\ j \in GameInfo
            /\ j.known = i.known /\ j.clientProxy = i.clientProxy
            /\ j.blockUntil = i.blockUntil
  <1>1. <<>> \in Seq(Packet) /\ i.pending \in Seq(Packet) /\ GameQueueMax \in Nat
    BY BoundAssumption DEF GameInfo
  <1>2. Hold(IF g \in down THEN <<>> ELSE i.pending, q, GameQueueMax) \in Seq(Packet)
    BY <1>1, HoldTyped
  <1> QED BY <1>1, <1>2 DEF Arrive, GameInfo

\* It keeps nothing back that it has no reason to.
LEMMA ArriveQueue ==
  ASSUME NEW g, NEW i \in GameInfo, NEW down, NEW reached, NEW q \in Seq(Packet), Queue(i), g \notin reached => q = <<>>
  PROVE  Queue(Arrive(g, i, down, reached, q))
  <1> DEFINE j == Arrive(g, i, down, reached, q)
             held == IF g \in down THEN <<>> ELSE i.pending
  <1>1. <<>> \in Seq(Packet) /\ i.pending \in Seq(Packet) /\ GameQueueMax \in Nat
    BY BoundAssumption DEF GameInfo
  <1>2. /\ j.clientProxy = i.clientProxy /\ j.blockUntil = i.blockUntil
        /\ j.isBlocked = (i.isBlocked /\ ~(g \in reached /\ Lapsed(i)))
        /\ j.pending = IF ~j.isBlocked /\ i.clientProxy # None THEN i.pending
                       ELSE Hold(held, q, GameQueueMax)
    BY DEF Arrive, GameInfo
  <1>3. ASSUME j.isBlocked, j.blockUntil = "zero"
        PROVE  j.pending = <<>>
    <2>1. i.isBlocked /\ i.blockUntil = "zero" /\ i.pending = <<>> /\ q = <<>>
      BY <1>2, <1>3 DEF Queue, Lapsed
    <2>2. Hold(held, q, GameQueueMax) = held /\ held = <<>>
      BY <2>1, <1>1, HoldNothing
    <2> QED BY <1>2, <2>1, <2>2
  <1>4. ASSUME ~j.isBlocked, j.clientProxy # None
        PROVE  j.pending = <<>>
    BY <1>2, <1>4 DEF Queue, Lapsed, GameInfo, BlockTime
  <1>5. j.clientProxy # None => j.blockUntil # "past"
    BY <1>2 DEF Queue
  <1> QED BY <1>3, <1>4, <1>5 DEF Queue

\* A snapshot t that differs from s in entities cleaned up, in what games hold and
\* in what was written to connections.
LEMMA GoodAfterDispatch ==
  ASSUME NEW s, NEW t, Good(s),
         t = [edi |-> t.edi, gdi |-> t.gdi, id |-> s.id, wire |-> t.wire],
         t.edi \in [Entity -> EntityInfo],
         \A e \in Entity : t.edi[e] \in {s.edi[e], NoEntityInfo},
         t.gdi \in [Game -> GameInfo],
         \A g \in Game : /\ t.gdi[g].known = s.gdi[g].known
                         /\ t.gdi[g].clientProxy = s.gdi[g].clientProxy
                         /\ "connected" \in FreezeTimeout \/ Queue(t.gdi[g]),
         t.wire \in [Conn -> Seq(Packet)]
  PROVE  Good(t) /\ t.id = s.id /\ Proxies(t) = Proxies(s)
  <1>1. t.id = s.id
    OBVIOUS
  <1>2. Snapshot(t)
    BY <1>1 DEF Good, Snapshot
  <1>3. Entries(t)
    BY DEF Good, Entries, Entry, NoEntityInfo
  <1>4. Identified(t)
    BY <1>1 DEF Good, Identified
  <1>5. Queues(t)
    BY DEF Queues
  <1>6. Proxies(t) = Proxies(s)
    BY DEF Proxies
  <1> QED BY <1>1, <1>2, <1>3, <1>4, <1>5, <1>6 DEF Good

LEMMA DispatchDownGood ==
  ASSUME NEW s, NEW down0 \in SUBSET Game, NEW out \in [Game -> Seq(Packet)], Good(s)
  PROVE  /\ Good(DispatchDown(s, down0, out))
         /\ DispatchDown(s, down0, out).id = s.id
         /\ Proxies(DispatchDown(s, down0, out)) = Proxies(s)
  <1> DEFINE base    == {g \in Game : s.gdi[g].known /\ out[g] # <<>>}
             spread  == down0 # {} \/ \E g \in base : LapsedDead(s.gdi[g])
             down    == IF spread THEN down0 \cup {g \in Game : LapsedDead(s.gdi[g])}
                        ELSE {}
             reached == IF spread THEN {g \in Game : s.gdi[g].known} ELSE base
             notice  == IF spread THEN <<[type |-> "gameDown", games |-> down]>> ELSE <<>>
             queue   == [g \in Game |-> IF g \in reached THEN notice \o out[g] ELSE <<>>]
             after   == [g \in Game |-> Arrive(g, s.gdi[g], down, reached, queue[g])]
             direct  == {g \in Game : ~after[g].isBlocked /\ after[g].clientProxy # None}
             t       == DispatchDown(s, down0, out)
  <1>1. down \in SUBSET Game
    OBVIOUS
  <1>2. notice \in Seq(Packet) /\ <<>> \in Seq(Packet)
    <2>1. [type |-> "gameDown", games |-> down] \in Packet
      BY <1>1 DEF Packet
    <2> QED BY <2>1
  <1>3. ASSUME NEW g \in Game
        PROVE  /\ after[g] \in GameInfo
               /\ after[g].known = s.gdi[g].known
               /\ after[g].clientProxy = s.gdi[g].clientProxy
               /\ "connected" \in FreezeTimeout \/ Queue(after[g])
    <2> HIDE DEF notice, down, reached
    <2>1. queue[g] \in Seq(Packet) /\ (g \notin reached => queue[g] = <<>>)
      BY <1>2
    <2>2. after[g] = Arrive(g, s.gdi[g], down, reached, queue[g])
      BY DEF after
    <2>3. s.gdi[g] \in GameInfo /\ ("connected" \in FreezeTimeout \/ Queue(s.gdi[g]))
      BY DEF Good, Snapshot, Queues
    <2> HIDE DEF queue, after
    <2>4. /\ after[g] \in GameInfo
          /\ after[g].known = s.gdi[g].known
          /\ after[g].clientProxy = s.gdi[g].clientProxy
      BY <2>1, <2>2, <2>3, ArriveTyped
    <2>5. Queue(s.gdi[g]) => Queue(after[g])
      BY <2>1, <2>2, <2>3, ArriveQueue
    <2> QED BY <2>3, <2>4, <2>5
  <1>4. t.gdi = after /\ t = [edi |-> t.edi, gdi |-> t.gdi, id |-> s.id, wire |-> t.wire]
    BY DEF DispatchDown
  <1>5. t.edi = [e \in Entity |-> IF s.edi[e].known /\ s.edi[e].gameid \in down
                                 THEN NoEntityInfo ELSE s.edi[e]]
    BY DEF DispatchDown
  <1>6. t.wire = [c \in Conn |->
                    IF /\ link[c] = "open" /\ s.id[c] \in direct
                       /\ after[s.id[c]].clientProxy = c
                    THEN s.wire[c] \o queue[s.id[c]] ELSE s.wire[c]]
    BY DEF DispatchDown
  <1> HIDE DEF down, t
  <1>11. t.wire \in [Conn -> Seq(Packet)]
    <2>1. \A g \in Game : queue[g] \in Seq(Packet)
      <3> HIDE DEF notice, down, reached
      <3> QED BY <1>2
    <2>2. \A c \in Conn : s.wire[c] \in Seq(Packet)
      BY DEF Good, Snapshot
    <2>3. direct \subseteq Game
      OBVIOUS
    <2> HIDE DEF queue, direct, after
    <2>4. ASSUME NEW c \in Conn
          PROVE  (IF /\ link[c] = "open" /\ s.id[c] \in direct
                     /\ after[s.id[c]].clientProxy = c
                  THEN s.wire[c] \o queue[s.id[c]] ELSE s.wire[c]) \in Seq(Packet)
      BY <2>1, <2>2, <2>3
    <2> QED BY <1>6, <2>4
  <1>7. t.gdi \in [Game -> GameInfo]
    <2>1. after \in [Game -> GameInfo]
      BY <1>3
    <2> QED BY <2>1, <1>4
  <1>8. ASSUME NEW g \in Game
        PROVE  /\ t.gdi[g].known = s.gdi[g].known
               /\ t.gdi[g].clientProxy = s.gdi[g].clientProxy
               /\ "connected" \in FreezeTimeout \/ Queue(t.gdi[g])
    <2> HIDE DEF after
    <2> QED BY <1>3, <1>4
  <1>9. /\ t.edi \in [Entity -> EntityInfo]
        /\ \A e \in Entity : t.edi[e] \in {s.edi[e], NoEntityInfo}
    <2>1. NoEntityInfo \in EntityInfo
      BY DEF NoEntityInfo, EntityInfo, BlockTime
    <2> QED BY <2>1, <1>5 DEF Good, Snapshot
  <1>10. Good(t) /\ t.id = s.id /\ Proxies(t) = Proxies(s)
    <2> HIDE DEF after
    <2> QED BY <1>4, <1>7, <1>8, <1>9, <1>11, GoodAfterDispatch
  <1> QED BY <1>10 DEF t

LEMMA DispatchGood ==
  ASSUME NEW s, NEW out \in [Game -> Seq(Packet)], Good(s)
  PROVE  /\ Good(Dispatch(s, out)) /\ Dispatch(s, out).id = s.id
         /\ Proxies(Dispatch(s, out)) = Proxies(s)
  BY DispatchDownGood DEF Dispatch

LEMMA ToTyped ==
  ASSUME NEW g, NEW ps \in Seq(Packet)
  PROVE  /\ To(g, ps) \in [Game -> Seq(Packet)]
         /\ ToAllExcept(g, ps) \in [Game -> Seq(Packet)]
         /\ Nothing \in [Game -> Seq(Packet)]
  <1>1. <<>> \in Seq(Packet)
    OBVIOUS
  <1> QED BY <1>1 DEF To, ToAllExcept, Nothing

-----------------------------------------------------------------------------
(* One entity, one game, one connection                                     *)

LEMMA EntityUpdate ==
  ASSUME NEW s, NEW e \in Entity, NEW i \in EntityInfo, Good(s), Entry(i)
  PROVE  LET t == [s EXCEPT !.edi[e] = i]
         IN /\ Good(t) /\ t.id = s.id /\ t.gdi = s.gdi /\ t.edi[e] = i
            /\ \A f \in Entity \ {e} : t.edi[f] = s.edi[f]
  <1> DEFINE t == [s EXCEPT !.edi[e] = i]
  <1>1. /\ t = [edi |-> t.edi, gdi |-> s.gdi, id |-> s.id, wire |-> s.wire]
        /\ t.edi = [s.edi EXCEPT ![e] = i]
    <2>1. s = [edi |-> s.edi, gdi |-> s.gdi, id |-> s.id, wire |-> s.wire]
      BY DEF Good, Snapshot
    <2> QED BY <2>1
  <1> HIDE DEF t
  <1>2. /\ t.gdi = s.gdi /\ t.id = s.id /\ t.wire = s.wire
        /\ t.edi \in [Entity -> EntityInfo] /\ t.edi[e] = i
        /\ \A f \in Entity \ {e} : t.edi[f] = s.edi[f]
    BY <1>1 DEF Good, Snapshot
  <1>3. Good(t)
    BY <1>1, <1>2 DEF Good, Snapshot, Entries, Identified, Queues
  <1> QED BY <1>2, <1>3 DEF t

LEMMA GameUpdate ==
  ASSUME NEW s, NEW g \in Game, NEW i \in GameInfo, Good(s),
         i.clientProxy # None => i.known /\ s.id[i.clientProxy] = g,
         "connected" \in FreezeTimeout \/ Queue(i)
  PROVE  LET t == [s EXCEPT !.gdi[g] = i]
         IN /\ Good(t) /\ t.id = s.id /\ t.edi = s.edi /\ t.gdi[g] = i
            /\ \A h \in Game \ {g} : t.gdi[h] = s.gdi[h]
  <1> DEFINE t == [s EXCEPT !.gdi[g] = i]
  <1>1. /\ t = [edi |-> s.edi, gdi |-> t.gdi, id |-> s.id, wire |-> s.wire]
        /\ t.gdi = [s.gdi EXCEPT ![g] = i]
    <2>1. s = [edi |-> s.edi, gdi |-> s.gdi, id |-> s.id, wire |-> s.wire]
      BY DEF Good, Snapshot
    <2> QED BY <2>1
  <1> HIDE DEF t
  <1>2. /\ t.edi = s.edi /\ t.id = s.id /\ t.wire = s.wire
        /\ t.gdi \in [Game -> GameInfo] /\ t.gdi[g] = i
        /\ \A h \in Game \ {g} : t.gdi[h] = s.gdi[h]
    BY <1>1 DEF Good, Snapshot
  <1>3. Good(t)
    BY <1>1, <1>2 DEF Good, Snapshot, Entries, Identified, Queues
  <1> QED BY <1>2, <1>3 DEF t

LEMMA SendPacketGood ==
  ASSUME NEW s, NEW c, NEW ps \in Seq(Packet), Good(s)
  PROVE  LET t == SendPacket(s, c, ps)
         IN Good(t) /\ t.id = s.id /\ t.edi = s.edi /\ t.gdi = s.gdi
  <1> DEFINE t == [s EXCEPT !.wire[c] = s.wire[c] \o ps]
  <1>1. /\ t = [edi |-> s.edi, gdi |-> s.gdi, id |-> s.id, wire |-> t.wire]
        /\ t.wire = [s.wire EXCEPT ![c] = s.wire[c] \o ps]
    <2>1. s = [edi |-> s.edi, gdi |-> s.gdi, id |-> s.id, wire |-> s.wire]
      BY DEF Good, Snapshot
    <2>2. PICK w : w = s.wire[c] \o ps
      OBVIOUS
    <2>3. t = [s EXCEPT !.wire[c] = w]
      BY <2>2
    <2> HIDE DEF t
    <2> QED BY <2>1, <2>2, <2>3
  <1> HIDE DEF t
  <1>2. t.edi = s.edi /\ t.gdi = s.gdi /\ t.id = s.id
    BY <1>1
  <1>3. t.wire \in [Conn -> Seq(Packet)]
    <2>1. c \in Conn => s.wire[c] \o ps \in Seq(Packet)
      BY DEF Good, Snapshot
    <2> QED BY <1>1, <2>1 DEF Good, Snapshot
  <1>4. Snapshot(t)
    BY <1>1, <1>2, <1>3 DEF Good, Snapshot
  <1>5. Entries(t) /\ Identified(t) /\ Queues(t)
    BY <1>2 DEF Good, Entries, Identified, Queues
  <1>6. Good(t)
    BY <1>4, <1>5 DEF Good
  <1> QED BY <1>2, <1>6 DEF t, SendPacket

-----------------------------------------------------------------------------
(* The steps handlers are made of                                           *)

LEMMA ForWriteGood ==
  ASSUME NEW s, NEW e \in Entity, Good(s)
  PROVE  LET t == ForWrite(s, e)
         IN /\ Good(t) /\ t.id = s.id /\ t.gdi = s.gdi
            /\ t.edi[e] \in EntityInfo /\ t.edi[e].known
  <1> DEFINE i == [s.edi[e] EXCEPT !.known = TRUE]
  <1>1. s.edi[e] \in EntityInfo
    BY DEF Good, Snapshot
  <1>2. /\ i \in EntityInfo /\ i.pending = s.edi[e].pending /\ i.known
        /\ i.blockUntil = s.edi[e].blockUntil
    BY <1>1 DEF EntityInfo
  <1>3. Entry(i)
    BY <1>2 DEF Good, Entries, Entry
  <1>4. ForWrite(s, e) = [s EXCEPT !.edi[e] = i]
    BY DEF ForWrite
  <1> HIDE DEF i
  <1> QED BY <1>2, <1>3, <1>4, EntityUpdate

LEMMA BlockRPCGood ==
  ASSUME NEW s, NEW e \in Entity, Good(s)
  PROVE  LET t == BlockRPC(s, e)
         IN Good(t) /\ t.id = s.id /\ t.gdi = s.gdi
  <1> DEFINE i == [s.edi[e] EXCEPT !.blockUntil = "future"]
  <1>1. s.edi[e] \in EntityInfo
    BY DEF Good, Snapshot
  <1>2. /\ i \in EntityInfo /\ i.blockUntil = "future"
        /\ i.known = s.edi[e].known /\ i.gameid = s.edi[e].gameid
    BY <1>1 DEF EntityInfo, BlockTime
  <1>4. Entry(i)
    BY <1>2 DEF Good, Entries, Entry
  <1>3. BlockRPC(s, e) = [s EXCEPT !.edi[e] = i]
    BY DEF BlockRPC
  <1> HIDE DEF i
  <1> QED BY <1>2, <1>3, <1>4, EntityUpdate

\* Routing e anew, with its block and its held packets or without.
LEMMA RouteGood ==
  ASSUME NEW s, NEW e \in Entity, NEW g \in Game \cup {None}, Good(s), s.edi[e].known
  PROVE  LET t == [s EXCEPT !.edi[e].gameid = g]
         IN Good(t) /\ t.id = s.id /\ t.gdi = s.gdi /\ t.edi[e] \in EntityInfo
  <1> DEFINE i == [s.edi[e] EXCEPT !.gameid = g]
             t == [s EXCEPT !.edi[e].gameid = g]
  <1>1. s.edi[e] \in EntityInfo
    BY DEF Good, Snapshot
  <1>2. /\ i \in EntityInfo /\ i.pending = s.edi[e].pending
        /\ i.blockUntil = s.edi[e].blockUntil /\ i.known
    BY <1>1 DEF EntityInfo
  <1>3. Entry(i)
    BY <1>2 DEF Good, Entries, Entry
  <1>4. t = [s EXCEPT !.edi[e] = i]
    OBVIOUS
  <1> HIDE DEF i, t
  <1>5. Good(t) /\ t.id = s.id /\ t.gdi = s.gdi /\ t.edi[e] \in EntityInfo
    BY <1>2, <1>3, <1>4, EntityUpdate
  <1> QED BY <1>5 DEF t

LEMMA ReleasedTyped ==
  ASSUME NEW i \in EntityInfo
  PROVE  /\ Released(i) \in EntityInfo /\ Released(i).pending = <<>>
         /\ Released(i).known = i.known /\ Released(i).gameid = i.gameid
         /\ i.known \/ i.gameid = None => Entry(Released(i))
  <1>1. <<>> \in Seq(Packet)
    OBVIOUS
  <1> QED BY <1>1 DEF Released, EntityInfo, BlockTime, Entry

LEMMA UnblockGood ==
  ASSUME NEW s, NEW e \in Entity, Good(s)
  PROVE  /\ Good(Unblock(s, e)) /\ Unblock(s, e).id = s.id
         /\ Proxies(Unblock(s, e)) = Proxies(s)
  <1> DEFINE i == Released(s.edi[e])
             t == [s EXCEPT !.edi[e] = i]
  <1>1. s.edi[e] \in EntityInfo /\ s.edi[e].pending \in Seq(Packet)
    BY DEF Good, Snapshot, EntityInfo
  <1>2. i \in EntityInfo /\ Entry(i)
    BY <1>1, ReleasedTyped DEF Good, Entries, Entry
  <1> HIDE DEF i
  <1>3. Good(t) /\ t.id = s.id /\ t.gdi = s.gdi
    BY <1>2, EntityUpdate
  <1> HIDE DEF t
  <1>4. LET u == Dispatch(t, To(s.edi[e].gameid, s.edi[e].pending))
        IN Good(u) /\ u.id = s.id /\ Proxies(u) = Proxies(s)
    BY <1>1, <1>3, ToTyped, DispatchGood DEF Proxies
  <1> QED BY <1>4 DEF Unblock, t, i

LEMMA DispatchToEntityGood ==
  ASSUME NEW s, NEW e \in Entity, NEW p \in Packet, Good(s)
  PROVE  LET t == DispatchToEntity(s, e, p)
         IN Good(t) /\ t.id = s.id /\ Proxies(t) = Proxies(s)
  <1>1. s.edi[e] \in EntityInfo /\ s.edi[e].pending \in Seq(Packet) /\ <<p>> \in Seq(Packet)
    BY DEF Good, Snapshot, EntityInfo
  <1>2. CASE s.edi[e].blockUntil = "zero"
    <2>1. LET u == Dispatch(s, To(s.edi[e].gameid, <<p>>))
          IN Good(u) /\ u.id = s.id /\ Proxies(u) = Proxies(s)
      BY <1>1, ToTyped, DispatchGood
    <2> QED BY <1>2, <2>1 DEF DispatchToEntity
  <1>3. CASE s.edi[e].blockUntil = "future"
    <2> DEFINE q == Hold(s.edi[e].pending, <<p>>, EntityQueueMax)
               i == [s.edi[e] EXCEPT !.pending = q]
    <2>1. q \in Seq(Packet)
      BY <1>1, HoldTyped, BoundAssumption
    <2> HIDE DEF q
    <2>2. /\ i \in EntityInfo /\ i.blockUntil = "future"
          /\ i.known = s.edi[e].known /\ i.gameid = s.edi[e].gameid
      BY <1>1, <1>3, <2>1 DEF EntityInfo
    <2> HIDE DEF i
    <2>5. Entry(i)
      BY <2>2 DEF Good, Entries, Entry
    <2>3. LET t == [s EXCEPT !.edi[e] = i]
          IN Good(t) /\ t.id = s.id /\ t.gdi = s.gdi
      BY <2>2, <2>5, EntityUpdate
    <2>4. DispatchToEntity(s, e, p) = [s EXCEPT !.edi[e] = i]
      BY <1>3 DEF DispatchToEntity, i, q
    <2> QED BY <2>3, <2>4 DEF Proxies
  <1>4. CASE s.edi[e].blockUntil \notin {"zero", "future"}
    BY <1>4, UnblockGood DEF DispatchToEntity, OnTimeout
  <1> QED BY <1>2, <1>3, <1>4

\* The disconnect of a game's connection, current or not.
LEMMA GameDisconnectedGood ==
  ASSUME NEW s, NEW c \in Conn, s.id[c] \in Game, Good(s)
  PROVE  LET t == GameDisconnected(s, c)
         IN /\ Good(t) /\ t.id = s.id
            /\ \A h \in Game : h # s.id[c] => t.gdi[h].clientProxy = s.gdi[h].clientProxy
            /\ \A h \in Game : t.gdi[h].clientProxy \in {None, s.gdi[h].clientProxy}
  <1> DEFINE g == s.id[c]
             i == [s.gdi[g] EXCEPT !.clientProxy = None]
             t == [s EXCEPT !.gdi[g] = i]
  <1>1. s.gdi[g] \in GameInfo /\ ("connected" \in FreezeTimeout \/ Queue(s.gdi[g]))
    BY DEF Good, Snapshot, Queues
  <1>2. /\ i \in GameInfo /\ i.clientProxy = None
        /\ "connected" \in FreezeTimeout \/ Queue(i)
    BY <1>1 DEF GameInfo, Queue
  <1>3. [s EXCEPT !.gdi[g].clientProxy = None] = t
    OBVIOUS
  <1> HIDE DEF i, g
  <1>4. /\ Good(t) /\ t.id = s.id
        /\ \A h \in Game : h # g => t.gdi[h] = s.gdi[h]
        /\ \A h \in Game : t.gdi[h].clientProxy \in {None, s.gdi[h].clientProxy}
    <2>1. Good(t) /\ t.id = s.id /\ t.gdi[g] = i /\ \A h \in Game : h # g => t.gdi[h] = s.gdi[h]
      BY <1>2, GameUpdate DEF g
    <2> QED BY <1>2, <2>1
  <1> HIDE DEF t
  <1>5. LET u == DispatchDown(t, {g}, Nothing)
        IN Good(u) /\ u.id = s.id /\ \A h \in Game : u.gdi[h].clientProxy = t.gdi[h].clientProxy
    <2>1. Nothing \in [Game -> Seq(Packet)] /\ {g} \in SUBSET Game
      BY ToTyped DEF g, Nothing
    <2>2. LET u == DispatchDown(t, {g}, Nothing)
          IN Good(u) /\ u.id = s.id /\ Proxies(u) = Proxies(t)
      BY <1>4, <2>1, DispatchDownGood
    <2> QED BY <2>2 DEF Proxies
  <1> QED BY <1>3, <1>4, <1>5 DEF GameDisconnected, g

-----------------------------------------------------------------------------
(* Where packets come from                                                  *)

\* Every packet the dispatcher holds or has written is one of T.
From(T, s) == /\ \A e \in Entity : s.edi[e].pending \in Seq(T)
              /\ \A g \in Game : s.gdi[g].pending \in Seq(T)
              /\ \A c \in Conn : s.wire[c] \in Seq(T)

\* T has every packet that is not a call.
Routine(T) == {p \in Packet : p.type # "call"} \subseteq T

LEMMA ToFrom ==
  ASSUME NEW T, NEW g, NEW ps \in Seq(T)
  PROVE  /\ To(g, ps) \in [Game -> Seq(T)]
         /\ ToAllExcept(g, ps) \in [Game -> Seq(T)]
         /\ Nothing \in [Game -> Seq(T)]
  <1>1. <<>> \in Seq(T)
    OBVIOUS
  <1> QED BY <1>1 DEF To, ToAllExcept, Nothing

LEMMA ArriveFrom ==
  ASSUME NEW T, NEW g, NEW i \in GameInfo, NEW down, NEW reached,
         NEW q \in Seq(T), i.pending \in Seq(T)
  PROVE  Arrive(g, i, down, reached, q).pending \in Seq(T)
  <1> DEFINE held == IF g \in down THEN <<>> ELSE i.pending
  <1>1. held \in Seq(T) /\ GameQueueMax \in Nat
    BY BoundAssumption
  <1>2. Hold(held, q, GameQueueMax) \in Seq(T)
    <2> HIDE DEF held
    <2> QED BY <1>1, HoldTyped
  <1>3. Arrive(g, i, down, reached, q).pending
          \in {i.pending, Hold(held, q, GameQueueMax)}
    BY DEF Arrive, GameInfo
  <1> QED BY <1>2, <1>3

\* Dispatching adds only what is dispatched, and notices.
LEMMA DispatchDownFrom ==
  ASSUME NEW T, NEW s, NEW down0 \in SUBSET Game, NEW out \in [Game -> Seq(T)],
         Good(s), From(T, s), Routine(T)
  PROVE  From(T, DispatchDown(s, down0, out))
  <1> DEFINE base    == {g \in Game : s.gdi[g].known /\ out[g] # <<>>}
             spread  == down0 # {} \/ \E g \in base : LapsedDead(s.gdi[g])
             down    == IF spread THEN down0 \cup {g \in Game : LapsedDead(s.gdi[g])}
                        ELSE {}
             reached == IF spread THEN {g \in Game : s.gdi[g].known} ELSE base
             notice  == IF spread THEN <<[type |-> "gameDown", games |-> down]>> ELSE <<>>
             queue   == [g \in Game |-> IF g \in reached THEN notice \o out[g] ELSE <<>>]
             after   == [g \in Game |-> Arrive(g, s.gdi[g], down, reached, queue[g])]
             direct  == {g \in Game : ~after[g].isBlocked /\ after[g].clientProxy # None}
             t       == DispatchDown(s, down0, out)
  <1>1. down \in SUBSET Game
    OBVIOUS
  <1>2. notice \in Seq(T) /\ <<>> \in Seq(T)
    <2>1. [type |-> "gameDown", games |-> down] \in Packet
      BY <1>1 DEF Packet
    <2> HIDE DEF down
    <2>2. [type |-> "gameDown", games |-> down] \in T
      BY <2>1 DEF Routine
    <2> QED BY <2>2
  <1>3. t.gdi = after
    BY DEF DispatchDown
  <1>4. t.edi = [e \in Entity |-> IF s.edi[e].known /\ s.edi[e].gameid \in down
                                 THEN NoEntityInfo ELSE s.edi[e]]
    BY DEF DispatchDown
  <1>5. t.wire = [c \in Conn |->
                    IF /\ link[c] = "open" /\ s.id[c] \in direct
                       /\ after[s.id[c]].clientProxy = c
                    THEN s.wire[c] \o queue[s.id[c]] ELSE s.wire[c]]
    BY DEF DispatchDown
  <1> HIDE DEF down, t, notice, reached
  <1>6. \A g \in Game : queue[g] \in Seq(T)
    BY <1>2
  <1>7. ASSUME NEW g \in Game PROVE t.gdi[g].pending \in Seq(T)
    <2>1. after[g] = Arrive(g, s.gdi[g], down, reached, queue[g])
      BY DEF after
    <2>2. s.gdi[g] \in GameInfo /\ s.gdi[g].pending \in Seq(T) /\ queue[g] \in Seq(T)
      BY <1>6 DEF Good, Snapshot, From
    <2> HIDE DEF after, queue
    <2> QED BY <1>3, <2>1, <2>2, ArriveFrom
  <1>8. ASSUME NEW e \in Entity PROVE t.edi[e].pending \in Seq(T)
    BY <1>2, <1>4 DEF From, NoEntityInfo
  <1>9. ASSUME NEW c \in Conn PROVE t.wire[c] \in Seq(T)
    <2>1. s.wire[c] \in Seq(T)
      BY DEF From
    <2>2. direct \subseteq Game
      OBVIOUS
    <2> HIDE DEF queue, direct, after
    <2> QED BY <1>5, <1>6, <2>1, <2>2
  <1>10. From(T, t)
    BY <1>7, <1>8, <1>9 DEF From
  <1> QED BY <1>10 DEF t

LEMMA DispatchFrom ==
  ASSUME NEW T, NEW s, NEW out \in [Game -> Seq(T)], Good(s), From(T, s), Routine(T)
  PROVE  From(T, Dispatch(s, out))
  BY DispatchDownFrom DEF Dispatch

LEMMA EntityFrom ==
  ASSUME NEW T, NEW s, NEW e \in Entity, NEW i, Good(s), From(T, s), i.pending \in Seq(T)
  PROVE  From(T, [s EXCEPT !.edi[e] = i])
  <1> DEFINE t == [s EXCEPT !.edi[e] = i]
  <1>1. s = [edi |-> s.edi, gdi |-> s.gdi, id |-> s.id, wire |-> s.wire]
    BY DEF Good, Snapshot
  <1>2. t.gdi = s.gdi /\ t.wire = s.wire /\ t.edi = [s.edi EXCEPT ![e] = i]
    BY <1>1
  <1> HIDE DEF t
  <1>3. \A f \in Entity : t.edi[f] = IF f = e THEN i ELSE s.edi[f]
    BY <1>2 DEF Good, Snapshot
  <1>4. From(T, t)
    BY <1>2, <1>3 DEF From
  <1> QED BY <1>4 DEF t

LEMMA GameFrom ==
  ASSUME NEW T, NEW s, NEW g \in Game, NEW i, Good(s), From(T, s), i.pending \in Seq(T)
  PROVE  From(T, [s EXCEPT !.gdi[g] = i])
  <1> DEFINE t == [s EXCEPT !.gdi[g] = i]
  <1>1. s = [edi |-> s.edi, gdi |-> s.gdi, id |-> s.id, wire |-> s.wire]
    BY DEF Good, Snapshot
  <1>2. t.edi = s.edi /\ t.wire = s.wire /\ t.gdi = [s.gdi EXCEPT ![g] = i]
    BY <1>1
  <1> HIDE DEF t
  <1>3. \A f \in Game : t.gdi[f] = IF f = g THEN i ELSE s.gdi[f]
    BY <1>2 DEF Good, Snapshot
  <1>4. From(T, t)
    BY <1>2, <1>3 DEF From
  <1> QED BY <1>4 DEF t

LEMMA SendPacketFrom ==
  ASSUME NEW T, NEW s, NEW c, NEW ps \in Seq(T), Good(s), From(T, s)
  PROVE  From(T, SendPacket(s, c, ps))
  <1> DEFINE t == [s EXCEPT !.wire[c] = s.wire[c] \o ps]
  <1>1. PICK w : w = s.wire[c] \o ps
    OBVIOUS
  <1>2. t = [s EXCEPT !.wire[c] = w]
    BY <1>1
  <1>3. s = [edi |-> s.edi, gdi |-> s.gdi, id |-> s.id, wire |-> s.wire]
    BY DEF Good, Snapshot
  <1> HIDE DEF t
  <1>4. t.edi = s.edi /\ t.gdi = s.gdi /\ t.wire = [s.wire EXCEPT ![c] = w]
    BY <1>2, <1>3
  <1>5. \A d \in Conn : t.wire[d] = IF d = c THEN w ELSE s.wire[d]
    BY <1>4 DEF Good, Snapshot
  <1>6. ASSUME NEW d \in Conn PROVE t.wire[d] \in Seq(T)
    <2>1. s.wire[d] \in Seq(T)
      BY DEF From
    <2>2. CASE d = c
      <3>1. s.wire[c] \in Seq(T)
        BY <2>1, <2>2
      <3>2. w \in Seq(T)
        BY <1>1, <3>1
      <3> QED BY <1>5, <2>2, <3>2
    <2> QED BY <1>5, <2>1, <2>2
  <1>7. From(T, t)
    BY <1>4, <1>6 DEF From
  <1> QED BY <1>7 DEF t, SendPacket

\* The same for the steps handlers are made of.
LEMMA ForWriteFrom ==
  ASSUME NEW T, NEW s, NEW e \in Entity, Good(s), From(T, s)
  PROVE  From(T, ForWrite(s, e))
  <1> DEFINE i == [s.edi[e] EXCEPT !.known = TRUE]
  <1>1. ForWrite(s, e) = [s EXCEPT !.edi[e] = i]
    BY DEF ForWrite
  <1>2. i.pending = s.edi[e].pending
    BY DEF Good, Snapshot, EntityInfo
  <1> HIDE DEF i
  <1> QED BY <1>1, <1>2, EntityFrom DEF From

LEMMA BlockRPCFrom ==
  ASSUME NEW T, NEW s, NEW e \in Entity, Good(s), From(T, s)
  PROVE  From(T, BlockRPC(s, e))
  <1> DEFINE i == [s.edi[e] EXCEPT !.blockUntil = "future"]
  <1>1. BlockRPC(s, e) = [s EXCEPT !.edi[e] = i]
    BY DEF BlockRPC
  <1>2. i.pending = s.edi[e].pending
    BY DEF Good, Snapshot, EntityInfo
  <1> HIDE DEF i
  <1> QED BY <1>1, <1>2, EntityFrom DEF From

LEMMA RouteFrom ==
  ASSUME NEW T, NEW s, NEW e \in Entity, NEW g, Good(s), From(T, s)
  PROVE  From(T, [s EXCEPT !.edi[e].gameid = g])
  <1> DEFINE i == [s.edi[e] EXCEPT !.gameid = g]
  <1>1. [s EXCEPT !.edi[e].gameid = g] = [s EXCEPT !.edi[e] = i]
    OBVIOUS
  <1>2. i.pending = s.edi[e].pending
    BY DEF Good, Snapshot, EntityInfo
  <1> HIDE DEF i
  <1> QED BY <1>1, <1>2, EntityFrom DEF From

LEMMA UnblockFrom ==
  ASSUME NEW T, NEW s, NEW e \in Entity, Good(s), From(T, s), Routine(T)
  PROVE  From(T, Unblock(s, e))
  <1> DEFINE i == Released(s.edi[e])
             t == [s EXCEPT !.edi[e] = i]
  <1>1. /\ s.edi[e] \in EntityInfo /\ Entry(s.edi[e])
        /\ s.edi[e].pending \in Seq(T) /\ <<>> \in Seq(T)
    BY DEF Good, Snapshot, Entries, From
  <1>2. i \in EntityInfo /\ Entry(i) /\ i.pending \in Seq(T)
    BY <1>1, ReleasedTyped DEF Entry
  <1> HIDE DEF i
  <1>3. Good(t) /\ From(T, t)
    BY <1>2, EntityUpdate, EntityFrom
  <1> HIDE DEF t
  <1>4. From(T, Dispatch(t, To(s.edi[e].gameid, s.edi[e].pending)))
    BY <1>1, <1>3, ToFrom, DispatchFrom
  <1> QED BY <1>4 DEF Unblock, t, i

LEMMA DispatchToEntityFrom ==
  ASSUME NEW T, NEW s, NEW e \in Entity, NEW p \in T, Good(s), From(T, s), Routine(T)
  PROVE  From(T, DispatchToEntity(s, e, p))
  <1>1. s.edi[e] \in EntityInfo /\ s.edi[e].pending \in Seq(T) /\ <<p>> \in Seq(T)
    BY DEF Good, Snapshot, From
  <1>2. CASE s.edi[e].blockUntil = "zero"
    <2>1. From(T, Dispatch(s, To(s.edi[e].gameid, <<p>>)))
      BY <1>1, ToFrom, DispatchFrom
    <2> QED BY <1>2, <2>1 DEF DispatchToEntity
  <1>3. CASE s.edi[e].blockUntil = "future"
    <2> DEFINE q == Hold(s.edi[e].pending, <<p>>, EntityQueueMax)
               i == [s.edi[e] EXCEPT !.pending = q]
    <2>1. q \in Seq(T)
      BY <1>1, HoldTyped, BoundAssumption
    <2> HIDE DEF q
    <2>2. i.pending \in Seq(T)
      BY <1>1, <2>1 DEF EntityInfo
    <2> HIDE DEF i
    <2>3. From(T, [s EXCEPT !.edi[e] = i])
      BY <2>2, EntityFrom
    <2>4. DispatchToEntity(s, e, p) = [s EXCEPT !.edi[e] = i]
      BY <1>3 DEF DispatchToEntity, i, q
    <2> QED BY <2>3, <2>4
  <1>4. CASE s.edi[e].blockUntil \notin {"zero", "future"}
    BY <1>4, UnblockFrom DEF DispatchToEntity, OnTimeout
  <1> QED BY <1>2, <1>3, <1>4

LEMMA GameDisconnectedFrom ==
  ASSUME NEW T, NEW s, NEW c \in Conn, s.id[c] \in Game, Good(s), From(T, s), Routine(T)
  PROVE  From(T, GameDisconnected(s, c))
  <1> DEFINE g == s.id[c]
             i == [s.gdi[g] EXCEPT !.clientProxy = None]
             t == [s EXCEPT !.gdi[g] = i]
  <1>1. /\ s.gdi[g] \in GameInfo /\ s.gdi[g].pending \in Seq(T)
        /\ "connected" \in FreezeTimeout \/ Queue(s.gdi[g])
    BY DEF Good, Snapshot, Queues, From
  <1>2. /\ i \in GameInfo /\ i.clientProxy = None /\ i.pending \in Seq(T)
        /\ "connected" \in FreezeTimeout \/ Queue(i)
    BY <1>1 DEF GameInfo, Queue
  <1>3. [s EXCEPT !.gdi[g].clientProxy = None] = t
    OBVIOUS
  <1> HIDE DEF i, g
  <1>4. Good(t) /\ From(T, t)
    BY <1>2, GameUpdate, GameFrom DEF g
  <1> HIDE DEF t
  <1>5. From(T, DispatchDown(t, {g}, Nothing))
    <2>1. Nothing \in [Game -> Seq(T)] /\ {g} \in SUBSET Game
      BY ToFrom DEF g, Nothing
    <2> QED BY <1>4, <2>1, DispatchDownFrom
  <1> QED BY <1>3, <1>4, <1>5 DEF GameDisconnected, g

LEMMA GateDisconnectedFrom ==
  ASSUME NEW T, NEW s, NEW c \in Conn, s.id[c] \in Gate, Good(s), From(T, s), Routine(T)
  PROVE  From(T, GateDisconnected(s, c))
  <1> DEFINE ps  == <<[type |-> "gateDown", gate |-> s.id[c]]>>
             out == ToAllExcept(None, ps)
  <1>1. ps \in Seq(T)
    <2>1. [type |-> "gateDown", gate |-> s.id[c]] \in T
      BY DEF Packet, Routine
    <2> QED BY <2>1
  <1> HIDE DEF ps
  <1>2. out \in [Game -> Seq(T)]
    BY <1>1, ToFrom
  <1> HIDE DEF out
  <1>3. From(T, Dispatch(s, out))
    BY <1>2, DispatchFrom
  <1> QED BY <1>3 DEF GateDisconnected, out, ps

-----------------------------------------------------------------------------
(* A game adopts a connection and its entities                              *)

\* A game's new connection is connected, and its block is over.
LEMMA AdoptProxyGood ==
  ASSUME NEW s, NEW c \in Conn, NEW g \in Game, Good(s), s.id[c] = g
  PROVE  LET t == AdoptProxy(s, c, g)
         IN /\ Good(t) /\ t.id = s.id
            /\ t.gdi[g].clientProxy = c
            /\ \A h \in Game \ {g} : t.gdi[h] = s.gdi[h]
            /\ \A T : From(T, s) => From(T, t)
  <1> DEFINE i == s.gdi[g]
             ps == IF FlushOnAdopt(i) THEN i.pending ELSE <<>>
             q == IF FlushOnAdopt(i) THEN <<>> ELSE i.pending
             j == [i EXCEPT !.known = TRUE, !.clientProxy = c, !.blockUntil = "zero",
                            !.pending = q]
             t == [s EXCEPT !.gdi[g] = j]
             u == AdoptProxy(s, c, g)
  <1>1. i \in GameInfo /\ ("connected" \in FreezeTimeout \/ Queue(i))
    BY DEF Good, Snapshot, Queues
  <1>2. ps \in Seq(Packet) /\ q \in Seq(Packet)
    BY <1>1 DEF GameInfo
  <1>3. u = SendPacket(t, c, ps)
    BY DEF AdoptProxy
  <1>4. ASSUME NEW T, From(T, s) PROVE ps \in Seq(T) /\ q \in Seq(T)
    <2>1. i.pending \in Seq(T) /\ <<>> \in Seq(T)
      BY <1>4 DEF From
    <2> HIDE DEF i
    <2> QED BY <2>1
  <1>5. (FlushOnAdopt(i) /\ q = <<>>) \/ (~FlushOnAdopt(i) /\ q = i.pending)
    OBVIOUS
  <1> HIDE DEF i, ps, q, u
  <1>6. /\ j \in GameInfo /\ j.known /\ j.clientProxy = c /\ j.blockUntil = "zero"
        /\ j.isBlocked = i.isBlocked /\ j.pending = q
    BY <1>1, <1>2 DEF GameInfo, BlockTime
  <1> HIDE DEF j
  <1>7. "connected" \in FreezeTimeout \/ Queue(j)
    BY <1>1, <1>5, <1>6 DEF Queue, FlushOnAdopt
  <1>8. /\ Good(t) /\ t.id = s.id /\ t.gdi[g] = j
        /\ \A h \in Game \ {g} : t.gdi[h] = s.gdi[h]
    <2> HIDE DEF t
    <2> QED BY <1>6, <1>7, GameUpdate DEF t
  <1>9. ASSUME NEW T, From(T, s) PROVE From(T, t)
    <2> HIDE DEF t
    <2> QED BY <1>4, <1>6, <1>9, GameFrom DEF t
  <1> HIDE DEF t
  <1>10. Good(u) /\ u.id = t.id /\ u.edi = t.edi /\ u.gdi = t.gdi
    BY <1>2, <1>3, <1>8, SendPacketGood
  <1>11. ASSUME NEW T, From(T, s) PROVE From(T, u)
    BY <1>3, <1>4, <1>8, <1>9, <1>11, SendPacketFrom
  <1> QED BY <1>6, <1>8, <1>10, <1>11 DEF u

\* The routes of adopted entities.
Routed(s, mine, g) ==
  [s EXCEPT !.edi = [e \in Entity |->
     IF e \in mine THEN [Released(s.edi[e]) EXCEPT !.known = TRUE, !.gameid = g]
     ELSE s.edi[e]]]

LEMMA RoutedGood ==
  ASSUME NEW s, NEW mine, NEW g \in Game, Good(s)
  PROVE  LET t == Routed(s, mine, g)
         IN /\ Good(t) /\ t.id = s.id /\ t.gdi = s.gdi
            /\ \A T : From(T, s) => From(T, t)
  <1> DEFINE routes == [e \in Entity |->
                IF e \in mine THEN [Released(s.edi[e]) EXCEPT !.known = TRUE, !.gameid = g]
                ELSE s.edi[e]]
             t == Routed(s, mine, g)
  <1>1. ASSUME NEW e \in Entity
        PROVE  /\ routes[e] \in EntityInfo /\ Entry(routes[e])
               /\ routes[e].pending = <<>> \/ routes[e].pending = s.edi[e].pending
    <2>1. s.edi[e] \in EntityInfo
      BY DEF Good, Snapshot
    <2>2. CASE e \in mine
      <3>1. Released(s.edi[e]) \in EntityInfo /\ Released(s.edi[e]).pending = <<>>
        BY <2>1, ReleasedTyped
      <3>2. routes[e] = [Released(s.edi[e]) EXCEPT !.known = TRUE, !.gameid = g]
        BY <2>2
      <3> HIDE DEF routes
      <3> QED BY <3>1, <3>2 DEF EntityInfo, Entry
    <2>3. CASE e \notin mine
      BY <2>1, <2>3 DEF Good, Entries
    <2> QED BY <2>2, <2>3
  <1>2. t = [s EXCEPT !.edi = routes] /\ routes \in [Entity -> EntityInfo]
    BY <1>1 DEF Routed
  <1> HIDE DEF routes, t
  <1>3. t = [edi |-> routes, gdi |-> s.gdi, id |-> s.id, wire |-> s.wire]
    <2>1. s = [edi |-> s.edi, gdi |-> s.gdi, id |-> s.id, wire |-> s.wire]
      BY DEF Good, Snapshot
    <2> QED BY <1>2, <2>1
  <1>4. Good(t) /\ t.id = s.id /\ t.gdi = s.gdi
    BY <1>1, <1>2, <1>3 DEF Good, Snapshot, Entries, Identified, Queues
  <1>5. ASSUME NEW T, From(T, s) PROVE From(T, t)
    <2>1. <<>> \in Seq(T)
      OBVIOUS
    <2> QED BY <1>1, <1>3, <1>5, <2>1 DEF From
  <1> QED BY <1>4, <1>5 DEF t

\* Held packets of adopted entities go to the game that adopts them.
LEMMA AdoptEntitiesGood ==
  ASSUME NEW s, NEW g \in Game, NEW eids \in Seq(Entity), Good(s)
  PROVE  LET t == AdoptEntities(s, g, eids)
         IN /\ Good(t) /\ t.id = s.id /\ Proxies(t) = Proxies(s)
            /\ \A T : Routine(T) /\ From(T, s) => From(T, t)
  <1> DEFINE mine == {e \in ToSet(eids) : s.edi[e].gameid \in {g, None}}
             parts == [i \in DOMAIN eids |->
                         IF eids[i] \in mine THEN s.edi[eids[i]].pending ELSE <<>>]
             held == FlattenSeq(parts)
             t == Routed(s, mine, g)
             u == AdoptEntities(s, g, eids)
  <1>1. u = Dispatch(t, To(g, held))
    BY DEF AdoptEntities, Routed
  <1>2. ASSUME NEW T, \A e \in Entity : s.edi[e].pending \in Seq(T)
        PROVE  held \in Seq(T)
    <2>1. DOMAIN eids = 1..Len(eids) /\ Len(eids) \in Nat
      OBVIOUS
    <2> HIDE DEF mine
    <2>2. ASSUME NEW i \in DOMAIN eids PROVE parts[i] \in Seq(T)
      <3>1. s.edi[eids[i]].pending \in Seq(T) /\ <<>> \in Seq(T)
        BY <1>2
      <3> QED BY <3>1
    <2>3. parts \in [1..Len(eids) -> Seq(T)]
      BY <2>1, <2>2
    <2> HIDE DEF parts
    <2> QED BY <2>1, <2>3, FlattenTyped
  <1> HIDE DEF mine, held, t, u
  <1>3. /\ Good(t) /\ t.id = s.id /\ t.gdi = s.gdi
        /\ \A T : From(T, s) => From(T, t)
    BY RoutedGood DEF t
  <1>4. held \in Seq(Packet)
    <2>1. \A e \in Entity : s.edi[e].pending \in Seq(Packet)
      BY DEF Good, Snapshot, EntityInfo
    <2> QED BY <1>2, <2>1
  <1>5. Good(u) /\ u.id = s.id /\ Proxies(u) = Proxies(s)
    <2>1. To(g, held) \in [Game -> Seq(Packet)]
      BY <1>4, ToTyped
    <2> QED BY <1>1, <1>3, <2>1, DispatchGood DEF Proxies
  <1>6. ASSUME NEW T, Routine(T), From(T, s) PROVE From(T, u)
    <2>1. held \in Seq(T)
      BY <1>2, <1>6 DEF From
    <2>2. To(g, held) \in [Game -> Seq(T)]
      BY <2>1, ToFrom
    <2> QED BY <1>1, <1>3, <1>6, <2>2, DispatchFrom
  <1> QED BY <1>5, <1>6 DEF u

-----------------------------------------------------------------------------
(* The order of calls                                                       *)

\* The numbers of the calls to e in q.
Nos(q, e) == {q[i].no : i \in {k \in DOMAIN q : IsCallOf(q[k], e)}}
Behind(A, B) == \A m \in A, n \in B : m < n

LEMMA NosConcat ==
  ASSUME NEW a \in Seq(Packet), NEW b \in Seq(Packet), NEW e
  PROVE  /\ Nos(a \o b, e) = Nos(a, e) \cup Nos(b, e)
         /\ Rising(a, e) /\ Rising(b, e) /\ Behind(Nos(a, e), Nos(b, e)) => Rising(a \o b, e)
  <1> DEFINE q == a \o b
  <1>1. /\ q \in Seq(Packet) /\ Len(q) = Len(a) + Len(b)
        /\ Len(a) \in Nat /\ Len(b) \in Nat
        /\ DOMAIN a = 1..Len(a) /\ DOMAIN b = 1..Len(b) /\ DOMAIN q = 1..Len(q)
    OBVIOUS
  <1>2. /\ \A i \in 1..Len(a) : q[i] = a[i]
        /\ \A i \in 1..Len(b) : q[Len(a) + i] = b[i]
    OBVIOUS
  <1> HIDE DEF q
  <1>3. ASSUME NEW i \in DOMAIN q
        PROVE  \/ i \in DOMAIN a /\ q[i] = a[i]
               \/ i - Len(a) \in DOMAIN b /\ q[i] = b[i - Len(a)] /\ i > Len(a)
    <2>1. CASE i <= Len(a)
      BY <1>1, <1>2, <2>1
    <2>2. CASE i > Len(a)
      <3>1. i - Len(a) \in 1..Len(b) /\ Len(a) + (i - Len(a)) = i
        BY <1>1, <2>2
      <3> QED BY <1>1, <1>2, <2>2, <3>1
    <2> QED BY <1>1, <2>1, <2>2
  <1>4. Nos(q, e) \subseteq Nos(a, e) \cup Nos(b, e)
    BY <1>3 DEF Nos
  <1>5. Nos(a, e) \subseteq Nos(q, e)
    <2>1. \A i \in DOMAIN a : i \in DOMAIN q /\ q[i] = a[i]
      BY <1>1, <1>2
    <2> QED BY <2>1 DEF Nos
  <1>6. Nos(b, e) \subseteq Nos(q, e)
    <2>1. \A i \in DOMAIN b : Len(a) + i \in DOMAIN q /\ q[Len(a) + i] = b[i]
      BY <1>1, <1>2
    <2> QED BY <2>1 DEF Nos
  <1>7. ASSUME Rising(a, e), Rising(b, e), Behind(Nos(a, e), Nos(b, e))
        PROVE  Rising(q, e)
    <2> SUFFICES ASSUME NEW i \in DOMAIN q, NEW j \in DOMAIN q, i < j,
                        IsCallOf(q[i], e), IsCallOf(q[j], e)
                 PROVE  q[i].no < q[j].no
      BY DEF Rising
    <2>1. CASE j \in DOMAIN a /\ q[j] = a[j]
      <3>1. i \in DOMAIN a /\ q[i] = a[i]
        BY <1>1, <1>2, <2>1
      <3> QED BY <1>7, <2>1, <3>1 DEF Rising
    <2>2. CASE j - Len(a) \in DOMAIN b /\ q[j] = b[j - Len(a)] /\ j > Len(a)
      <3>1. CASE i \in DOMAIN a /\ q[i] = a[i]
        <4>1. q[i].no \in Nos(a, e) /\ q[j].no \in Nos(b, e)
          BY <2>2, <3>1 DEF Nos
        <4> QED BY <1>7, <4>1 DEF Behind
      <3>2. CASE i - Len(a) \in DOMAIN b /\ q[i] = b[i - Len(a)] /\ i > Len(a)
        <4>1. i - Len(a) < j - Len(a)
          BY <1>1
        <4> QED BY <1>7, <2>2, <3>2, <4>1 DEF Rising
      <3> QED BY <1>3, <3>1, <3>2
    <2> QED BY <1>3, <2>1, <2>2
  <1> QED BY <1>4, <1>5, <1>6, <1>7 DEF q

\* A part of a sequence from its beginning, or without it.
LEMMA NosPart ==
  ASSUME NEW q \in Seq(Packet), NEW p \in Seq(Packet), NEW k \in Nat, NEW e,
         \A i \in DOMAIN p : i + k \in DOMAIN q /\ p[i] = q[i + k]
  PROVE  Nos(p, e) \subseteq Nos(q, e) /\ (Rising(q, e) => Rising(p, e))
  <1>1. Nos(p, e) \subseteq Nos(q, e)
    BY DEF Nos
  <1>2. ASSUME Rising(q, e), NEW i \in DOMAIN p, NEW j \in DOMAIN p, i < j,
               IsCallOf(p[i], e), IsCallOf(p[j], e)
        PROVE  p[i].no < p[j].no
    <2>1. i + k < j + k
      BY <1>2
    <2> QED BY <1>2, <2>1 DEF Rising
  <1> QED BY <1>1, <1>2 DEF Rising

LEMMA NosSubSeq ==
  ASSUME NEW q \in Seq(Packet), NEW n \in Nat, n <= Len(q), NEW e
  PROVE  /\ Nos(SubSeq(q, 1, n), e) \subseteq Nos(q, e)
         /\ Rising(q, e) => Rising(SubSeq(q, 1, n), e)
  <1>1. PICK p : p = SubSeq(q, 1, n)
    OBVIOUS
  <1>2. p \in Seq(Packet) /\ \A i \in DOMAIN p : i + 0 \in DOMAIN q /\ p[i] = q[i + 0]
    BY <1>1
  <1> QED BY <1>1, <1>2, NosPart

LEMMA NosTail ==
  ASSUME NEW q \in Seq(Packet), q # <<>>, NEW e
  PROVE  /\ Nos(Tail(q), e) \subseteq Nos(q, e)
         /\ Rising(q, e) => Rising(Tail(q), e)
  <1>1. PICK p : p = Tail(q)
    OBVIOUS
  <1>2. p \in Seq(Packet) /\ Len(p) = Len(q) - 1 /\ Len(q) \in Nat /\ Len(p) \in Nat
    BY <1>1
  <1>3. \A i \in 1..Len(p) : p[i] = q[i + 1]
    BY <1>1
  <1>4. \A i \in DOMAIN p : i + 1 \in DOMAIN q /\ p[i] = q[i + 1]
    BY <1>2, <1>3
  <1> QED BY <1>1, <1>2, <1>4, NosPart

LEMMA NosHold ==
  ASSUME NEW q \in Seq(Packet), NEW ps \in Seq(Packet), NEW max \in Nat, NEW e,
         Rising(q, e), Rising(ps, e), Behind(Nos(q, e), Nos(ps, e))
  PROVE  /\ Nos(Hold(q, ps, max), e) \subseteq Nos(q, e) \cup Nos(ps, e)
         /\ Rising(Hold(q, ps, max), e)
  <1>1. PICK r : r = q \o ps
    OBVIOUS
  <1>2. /\ r \in Seq(Packet) /\ Len(r) = Len(q) + Len(ps) /\ Len(q) \in Nat /\ Len(ps) \in Nat
    BY <1>1
  <1>3. Nos(r, e) = Nos(q, e) \cup Nos(ps, e) /\ Rising(r, e)
    BY <1>1, NosConcat
  <1>4. \/ Hold(q, ps, max) = r
        \/ \E n \in Nat : n <= Len(r) /\ Hold(q, ps, max) = SubSeq(r, 1, n)
    <2>1. CASE Len(r) <= max
      BY <1>1, <2>1 DEF Hold
    <2>2. CASE ~(Len(r) <= max)
      <3>1. PICK n : n = IF Len(q) > max THEN Len(q) ELSE max
        OBVIOUS
      <3>2. n \in Nat /\ n <= Len(r)
        BY <1>2, <2>2, <3>1
      <3>3. Hold(q, ps, max) = SubSeq(r, 1, n)
        BY <1>1, <2>2, <3>1 DEF Hold
      <3> QED BY <3>2, <3>3
    <2> QED BY <2>1, <2>2
  <1> QED BY <1>2, <1>3, <1>4, NosSubSeq

\* A sequence without calls.
Callless(q) == q \in Seq({p \in Packet : p.type # "call"})

LEMMA NosCallless ==
  ASSUME NEW q, Callless(q), NEW e
  PROVE  q \in Seq(Packet) /\ Nos(q, e) = {} /\ Rising(q, e)
  <1>1. \A i \in DOMAIN q : q[i] \in Packet /\ q[i].type # "call"
    BY DEF Callless
  <1>2. Nos(q, e) = {} /\ Rising(q, e)
    BY <1>1 DEF Nos, Rising, IsCallOf
  <1>3. q \in Seq(Packet)
    BY DEF Callless
  <1> QED BY <1>2, <1>3

LEMMA NosNothing ==
  ASSUME NEW e
  PROVE  Nos(<<>>, e) = {} /\ Rising(<<>>, e)
  BY DEF Nos, Rising

LEMMA NosOne ==
  ASSUME NEW p \in Packet, NEW e
  PROVE  /\ <<p>> \in Seq(Packet) /\ Rising(<<p>>, e)
         /\ IsCallOf(p, e) => Nos(<<p>>, e) = {p.no}
         /\ ~IsCallOf(p, e) => Nos(<<p>>, e) = {}
  <1>1. <<p>> \in Seq(Packet) /\ DOMAIN <<p>> = {1} /\ <<p>>[1] = p
    OBVIOUS
  <1> QED BY <1>1 DEF Nos, Rising


\* Where the calls to f are: those held for f itself are the last, those held for
\* a game come before them, and those written to its connection before these.
Order(s, f) ==
  /\ \A d \in Entity \ {f} : Nos(s.edi[d].pending, f) = {}
  /\ Rising(s.edi[f].pending, f)
  /\ \A g \in Game :
       /\ Rising(s.gdi[g].pending, f)
       /\ Behind(Nos(s.gdi[g].pending, f), Nos(s.edi[f].pending, f))
       /\ s.gdi[g].clientProxy # None =>
            Behind(Nos(s.wire[s.gdi[g].clientProxy], f), Nos(s.gdi[g].pending, f))
  /\ \A c \in Conn :
       /\ Rising(s.wire[c], f)
       /\ Behind(Nos(s.wire[c], f), Nos(s.edi[f].pending, f))
       /\ s.id[c] = None => Nos(s.wire[c], f) = {}

\* A connection that got no call and is no game's connection.
Fresh(s, c, f) == /\ Nos(s.wire[c], f) = {}
                  /\ \A g \in Game : s.gdi[g].clientProxy # c

\* Packets that may be dispatched: after all that is on the way to a game, before
\* what is held for f.
Fits(s, out, f) ==
  \A g \in Game :
    /\ Rising(out[g], f)
    /\ Behind(Nos(out[g], f), Nos(s.edi[f].pending, f))
    /\ Behind(Nos(s.gdi[g].pending, f), Nos(out[g], f))
    /\ \A c \in Conn : Behind(Nos(s.wire[c], f), Nos(out[g], f))

NoCall == {p \in Packet : p.type # "call"}

LEMMA QuietFits ==
  ASSUME NEW s, NEW f, NEW out \in [Game -> Seq(NoCall)]
  PROVE  Fits(s, out, f)
  <1>1. \A g \in Game : Nos(out[g], f) = {} /\ Rising(out[g], f)
    BY NosCallless DEF Callless, NoCall
  <1> QED BY <1>1 DEF Fits, Behind

\* What a game holds after q arrived.
LEMMA ArriveOrder ==
  ASSUME NEW g, NEW i \in GameInfo, NEW down, NEW reached, NEW q \in Seq(Packet), NEW f,
         Rising(i.pending, f), Rising(q, f), Behind(Nos(i.pending, f), Nos(q, f))
  PROVE  LET j == Arrive(g, i, down, reached, q)
         IN /\ Rising(j.pending, f)
            /\ Nos(j.pending, f) \subseteq Nos(i.pending, f) \cup Nos(q, f)
  <1> DEFINE held == IF g \in down THEN <<>> ELSE i.pending
             r == Hold(held, q, GameQueueMax)
  <1>1. held \in Seq(Packet) /\ GameQueueMax \in Nat
    BY BoundAssumption DEF GameInfo
  <1>2. /\ Rising(held, f) /\ Nos(held, f) \subseteq Nos(i.pending, f)
        /\ Behind(Nos(held, f), Nos(q, f))
    BY NosNothing DEF Behind
  <1>3. Arrive(g, i, down, reached, q).pending \in {i.pending, r}
    BY DEF Arrive, GameInfo
  <1> HIDE DEF held
  <1>4. Rising(r, f) /\ Nos(r, f) \subseteq Nos(held, f) \cup Nos(q, f)
    BY <1>1, <1>2, NosHold
  <1> HIDE DEF r
  <1> QED BY <1>2, <1>3, <1>4

\* A snapshot t that differs from s in entities cleaned up, and in packets of out
\* held for games or written to their connections.
LEMMA OrderAfterDispatch ==
  ASSUME NEW f \in Entity, NEW s, NEW t, NEW out, Good(s), Order(s, f), Fits(s, out, f),
         t.id = s.id,
         \A e \in Entity : t.edi[e].pending \in {s.edi[e].pending, <<>>},
         \A g \in Game :
           /\ t.gdi[g].clientProxy = s.gdi[g].clientProxy
           /\ Rising(t.gdi[g].pending, f)
           /\ Nos(t.gdi[g].pending, f) \subseteq Nos(s.gdi[g].pending, f) \cup Nos(out[g], f),
         \A c \in Conn :
           \/ t.wire[c] = s.wire[c]
           \/ \E g \in Game :
                /\ s.id[c] = g /\ s.gdi[g].clientProxy = c /\ t.gdi[g].pending = <<>>
                /\ \E q \in Seq(Packet) : /\ Rising(q, f) /\ Nos(q, f) \subseteq Nos(out[g], f)
                                          /\ t.wire[c] = s.wire[c] \o q
  PROVE  Order(t, f) /\ \A c \in Conn : Fresh(s, c, f) => Fresh(t, c, f)
  <1>1. /\ \A d \in Entity \ {f} : Nos(t.edi[d].pending, f) = {}
        /\ Rising(t.edi[f].pending, f)
        /\ Nos(t.edi[f].pending, f) \subseteq Nos(s.edi[f].pending, f)
    BY NosNothing DEF Order
  <1>2. ASSUME NEW g \in Game
        PROVE  Behind(Nos(t.gdi[g].pending, f), Nos(t.edi[f].pending, f))
    <2>1. /\ Behind(Nos(s.gdi[g].pending, f), Nos(s.edi[f].pending, f))
          /\ Behind(Nos(out[g], f), Nos(s.edi[f].pending, f))
          /\ Nos(t.gdi[g].pending, f) \subseteq Nos(s.gdi[g].pending, f) \cup Nos(out[g], f)
      BY DEF Order, Fits
    <2> QED BY <1>1, <2>1 DEF Behind
  <1>3. ASSUME NEW c \in Conn, t.wire[c] = s.wire[c]
        PROVE  /\ Rising(t.wire[c], f)
               /\ Behind(Nos(t.wire[c], f), Nos(t.edi[f].pending, f))
               /\ s.id[c] = None => Nos(t.wire[c], f) = {}
               /\ \A g \in Game : s.gdi[g].clientProxy = c =>
                    Behind(Nos(t.wire[c], f), Nos(t.gdi[g].pending, f))
    <2>1. /\ Rising(s.wire[c], f)
          /\ Behind(Nos(s.wire[c], f), Nos(s.edi[f].pending, f))
          /\ s.id[c] = None => Nos(s.wire[c], f) = {}
      BY DEF Order
    <2>2. ASSUME NEW g \in Game, s.gdi[g].clientProxy = c
          PROVE  Behind(Nos(t.wire[c], f), Nos(t.gdi[g].pending, f))
      <3>1. /\ Behind(Nos(s.wire[c], f), Nos(s.gdi[g].pending, f))
            /\ Behind(Nos(s.wire[c], f), Nos(out[g], f))
            /\ Nos(t.gdi[g].pending, f) \subseteq Nos(s.gdi[g].pending, f) \cup Nos(out[g], f)
        BY <2>2, NoneAssumption DEF Order, Fits
      <3> QED BY <1>3, <3>1 DEF Behind
    <2> QED BY <1>1, <1>3, <2>1, <2>2 DEF Behind
  <1>4. ASSUME NEW c \in Conn, NEW g \in Game, NEW q \in Seq(Packet),
               s.id[c] = g, s.gdi[g].clientProxy = c, t.gdi[g].pending = <<>>,
               Rising(q, f), Nos(q, f) \subseteq Nos(out[g], f), t.wire[c] = s.wire[c] \o q
        PROVE  /\ Rising(t.wire[c], f)
               /\ Behind(Nos(t.wire[c], f), Nos(t.edi[f].pending, f))
               /\ s.id[c] # None
               /\ \A h \in Game : s.gdi[h].clientProxy = c =>
                    Behind(Nos(t.wire[c], f), Nos(t.gdi[h].pending, f))
    <2>1. /\ Rising(s.wire[c], f)
          /\ Behind(Nos(s.wire[c], f), Nos(s.edi[f].pending, f))
          /\ Behind(Nos(s.wire[c], f), Nos(out[g], f))
          /\ Behind(Nos(out[g], f), Nos(s.edi[f].pending, f))
      BY DEF Order, Fits
    <2>2. Behind(Nos(s.wire[c], f), Nos(q, f))
      BY <1>4, <2>1 DEF Behind
    <2>3. s.wire[c] \in Seq(Packet)
      BY DEF Good, Snapshot
    <2>4. Rising(t.wire[c], f) /\ Nos(t.wire[c], f) = Nos(s.wire[c], f) \cup Nos(q, f)
      BY <1>4, <2>1, <2>2, <2>3, NosConcat
    <2>5. Behind(Nos(t.wire[c], f), Nos(t.edi[f].pending, f))
      BY <1>1, <1>4, <2>1, <2>4 DEF Behind
    <2>6. ASSUME NEW h \in Game, s.gdi[h].clientProxy = c PROVE h = g
      BY <1>4, <2>6, NoneAssumption DEF Good, Identified
    <2>7. Behind(Nos(t.wire[c], f), Nos(t.gdi[g].pending, f))
      BY <1>4, NosNothing DEF Behind
    <2> QED BY <1>4, <2>4, <2>5, <2>6, <2>7, NoneAssumption
  <1>5. ASSUME NEW c \in Conn
        PROVE  /\ Rising(t.wire[c], f)
               /\ Behind(Nos(t.wire[c], f), Nos(t.edi[f].pending, f))
               /\ s.id[c] = None => Nos(t.wire[c], f) = {}
               /\ \A h \in Game : s.gdi[h].clientProxy = c =>
                    Behind(Nos(t.wire[c], f), Nos(t.gdi[h].pending, f))
    BY <1>3, <1>4
  <1>6. ASSUME NEW g \in Game, t.gdi[g].clientProxy # None
        PROVE  Behind(Nos(t.wire[t.gdi[g].clientProxy], f), Nos(t.gdi[g].pending, f))
    <2>1. t.gdi[g].clientProxy = s.gdi[g].clientProxy /\ s.gdi[g] \in GameInfo
      BY DEF Good, Snapshot
    <2>2. s.gdi[g].clientProxy \in Conn
      BY <1>6, <2>1 DEF GameInfo
    <2> QED BY <1>5, <2>1, <2>2
  <1>7. Order(t, f)
    BY <1>1, <1>2, <1>5, <1>6 DEF Order
  <1>8. ASSUME NEW c \in Conn, Fresh(s, c, f) PROVE Fresh(t, c, f)
    BY <1>8 DEF Fresh
  <1> QED BY <1>7, <1>8

LEMMA DispatchDownOrder ==
  ASSUME NEW f \in Entity, NEW s, NEW down0 \in SUBSET Game,
         NEW out \in [Game -> Seq(Packet)],
         "connected" \notin FreezeTimeout, Good(s), Order(s, f), Fits(s, out, f)
  PROVE  LET t == DispatchDown(s, down0, out)
         IN Order(t, f) /\ \A c \in Conn : Fresh(s, c, f) => Fresh(t, c, f)
  <1> DEFINE base    == {g \in Game : s.gdi[g].known /\ out[g] # <<>>}
             spread  == down0 # {} \/ \E g \in base : LapsedDead(s.gdi[g])
             down    == IF spread THEN down0 \cup {g \in Game : LapsedDead(s.gdi[g])}
                        ELSE {}
             reached == IF spread THEN {g \in Game : s.gdi[g].known} ELSE base
             notice  == IF spread THEN <<[type |-> "gameDown", games |-> down]>> ELSE <<>>
             queue   == [g \in Game |-> IF g \in reached THEN notice \o out[g] ELSE <<>>]
             after   == [g \in Game |-> Arrive(g, s.gdi[g], down, reached, queue[g])]
             direct  == {g \in Game : ~after[g].isBlocked /\ after[g].clientProxy # None}
             t       == DispatchDown(s, down0, out)
  <1>1. notice \in Seq(NoCall)
    <2>1. down \in SUBSET Game
      OBVIOUS
    <2>2. [type |-> "gameDown", games |-> down] \in NoCall
      BY <2>1 DEF Packet, NoCall
    <2> HIDE DEF down
    <2> QED BY <2>2
  <1>2. t.gdi = after /\ t.id = s.id
    BY DEF DispatchDown
  <1>3. t.edi = [e \in Entity |-> IF s.edi[e].known /\ s.edi[e].gameid \in down
                                 THEN NoEntityInfo ELSE s.edi[e]]
    BY DEF DispatchDown
  <1>4. t.wire = [c \in Conn |->
                    IF /\ link[c] = "open" /\ s.id[c] \in direct
                       /\ after[s.id[c]].clientProxy = c
                    THEN s.wire[c] \o queue[s.id[c]] ELSE s.wire[c]]
    BY DEF DispatchDown
  <1> HIDE DEF down, t, notice, reached
  <1>5. ASSUME NEW g \in Game
        PROVE  /\ queue[g] \in Seq(Packet) /\ Rising(queue[g], f)
               /\ Nos(queue[g], f) \subseteq Nos(out[g], f)
               /\ g \notin reached => queue[g] = <<>>
    <2>1. /\ notice \in Seq(Packet) /\ Nos(notice, f) = {} /\ Rising(notice, f)
          /\ out[g] \in Seq(Packet) /\ Rising(out[g], f)
      BY <1>1, NosCallless DEF Callless, NoCall, Fits
    <2>2. PICK q : q = notice \o out[g]
      OBVIOUS
    <2>3. q \in Seq(Packet) /\ Rising(q, f) /\ Nos(q, f) = Nos(out[g], f)
      <3>1. Behind(Nos(notice, f), Nos(out[g], f))
        BY <2>1 DEF Behind
      <3>2. notice \o out[g] \in Seq(Packet)
        BY <2>1
      <3>3. /\ Nos(notice \o out[g], f) = Nos(notice, f) \cup Nos(out[g], f)
            /\ Rising(notice \o out[g], f)
        BY <2>1, <3>1, NosConcat
      <3> QED BY <2>1, <2>2, <3>2, <3>3
    <2>4. queue[g] = IF g \in reached THEN q ELSE <<>>
      BY <2>2
    <2> HIDE DEF queue
    <2>5. <<>> \in Seq(Packet) /\ Rising(<<>>, f) /\ Nos(<<>>, f) = {}
      BY NosNothing
    <2> QED BY <2>3, <2>4, <2>5
  <1>6. ASSUME NEW g \in Game
        PROVE  /\ t.gdi[g] = Arrive(g, s.gdi[g], down, reached, queue[g])
               /\ t.gdi[g] \in GameInfo
               /\ t.gdi[g].clientProxy = s.gdi[g].clientProxy
               /\ Queue(t.gdi[g])
               /\ Rising(t.gdi[g].pending, f)
               /\ Nos(t.gdi[g].pending, f) \subseteq Nos(s.gdi[g].pending, f) \cup Nos(out[g], f)
    <2>1. t.gdi[g] = Arrive(g, s.gdi[g], down, reached, queue[g])
      BY <1>2
    <2>2. PICK q : q = queue[g]
      OBVIOUS
    <2>3. /\ q \in Seq(Packet) /\ Rising(q, f) /\ Nos(q, f) \subseteq Nos(out[g], f)
          /\ g \notin reached => q = <<>>
      BY <1>5, <2>2
    <2> HIDE DEF queue, after
    <2>4. /\ s.gdi[g] \in GameInfo /\ Queue(s.gdi[g]) /\ Rising(s.gdi[g].pending, f)
          /\ Behind(Nos(s.gdi[g].pending, f), Nos(out[g], f))
      BY DEF Good, Snapshot, Queues, Order, Fits
    <2>5. Behind(Nos(s.gdi[g].pending, f), Nos(q, f))
      BY <2>3, <2>4 DEF Behind
    <2> DEFINE j == Arrive(g, s.gdi[g], down, reached, q)
    <2>6. j \in GameInfo /\ j.clientProxy = s.gdi[g].clientProxy
      BY <2>3, <2>4, ArriveTyped
    <2>7. Queue(j)
      BY <2>3, <2>4, ArriveQueue
    <2>8. Rising(j.pending, f) /\ Nos(j.pending, f) \subseteq Nos(s.gdi[g].pending, f) \cup Nos(q, f)
      BY <2>3, <2>4, <2>5, ArriveOrder
    <2> QED BY <2>1, <2>2, <2>3, <2>6, <2>7, <2>8
  <1>7. ASSUME NEW e \in Entity PROVE t.edi[e].pending \in {s.edi[e].pending, <<>>}
    BY <1>3 DEF NoEntityInfo
  <1>8. ASSUME NEW c \in Conn
        PROVE  \/ t.wire[c] = s.wire[c]
               \/ \E g \in Game :
                    /\ s.id[c] = g /\ s.gdi[g].clientProxy = c /\ t.gdi[g].pending = <<>>
                    /\ \E q \in Seq(Packet) : /\ Rising(q, f) /\ Nos(q, f) \subseteq Nos(out[g], f)
                                              /\ t.wire[c] = s.wire[c] \o q
    <2>1. CASE /\ s.id[c] \in direct /\ after[s.id[c]].clientProxy = c
               /\ t.wire[c] = s.wire[c] \o queue[s.id[c]]
      <3>1. PICK g \in Game : /\ g = s.id[c] /\ ~t.gdi[g].isBlocked /\ t.gdi[g].clientProxy # None
                              /\ t.gdi[g].clientProxy = c
        BY <1>2, <2>1
      <3>2. s.gdi[g].clientProxy = c /\ t.gdi[g].pending = <<>>
        <4> HIDE DEF queue, after
        <4> QED BY <1>6, <3>1 DEF Queue
      <3>3. PICK q : q = queue[g]
        OBVIOUS
      <3>4. q \in Seq(Packet) /\ Rising(q, f) /\ Nos(q, f) \subseteq Nos(out[g], f)
        BY <1>5, <3>3
      <3>5. t.wire[c] = s.wire[c] \o q
        BY <2>1, <3>1, <3>3
      <3> QED BY <3>1, <3>2, <3>4, <3>5
    <2>2. CASE t.wire[c] = s.wire[c]
      BY <2>2
    <2> HIDE DEF queue, direct, after
    <2> QED BY <1>4, <2>1, <2>2
  <1>9. Order(t, f) /\ \A c \in Conn : Fresh(s, c, f) => Fresh(t, c, f)
    <2>1. \A g \in Game : /\ t.gdi[g].clientProxy = s.gdi[g].clientProxy
                          /\ Rising(t.gdi[g].pending, f)
                          /\ Nos(t.gdi[g].pending, f) \subseteq
                               Nos(s.gdi[g].pending, f) \cup Nos(out[g], f)
      BY <1>6
    <2> HIDE DEF queue, direct, after
    <2> QED BY <1>2, <1>7, <1>8, <2>1, OrderAfterDispatch
  <1> QED BY <1>9 DEF t

LEMMA DispatchOrder ==
  ASSUME NEW f \in Entity, NEW s, NEW out \in [Game -> Seq(Packet)],
         "connected" \notin FreezeTimeout, Good(s), Order(s, f), Fits(s, out, f)
  PROVE  LET t == Dispatch(s, out)
         IN Order(t, f) /\ \A c \in Conn : Fresh(s, c, f) => Fresh(t, c, f)
  BY DispatchDownOrder DEF Dispatch

\* One entity, one game, one connection.
LEMMA EntityOrder ==
  ASSUME NEW f \in Entity, NEW s, NEW e \in Entity, NEW i, Good(s), Order(s, f),
         Rising(i.pending, f),
         e # f => Nos(i.pending, f) = {},
         \A g \in Game : Behind(Nos(s.gdi[g].pending, f), Nos(i.pending, f)),
         \A c \in Conn : Behind(Nos(s.wire[c], f), Nos(i.pending, f))
  PROVE  Order([s EXCEPT !.edi[e] = i], f)
  <1> DEFINE t == [s EXCEPT !.edi[e] = i]
  <1>1. s = [edi |-> s.edi, gdi |-> s.gdi, id |-> s.id, wire |-> s.wire]
    BY DEF Good, Snapshot
  <1>2. t.gdi = s.gdi /\ t.wire = s.wire /\ t.id = s.id /\ t.edi = [s.edi EXCEPT ![e] = i]
    BY <1>1
  <1> HIDE DEF t
  <1>3. \A d \in Entity : t.edi[d] = IF d = e THEN i ELSE s.edi[d]
    BY <1>2 DEF Good, Snapshot
  <1>4. t.edi[f] = i \/ t.edi[f] = s.edi[f]
    BY <1>3
  <1>5. \A d \in Entity \ {f} : Nos(t.edi[d].pending, f) = {}
    BY <1>3 DEF Order
  <1>6. /\ Rising(t.edi[f].pending, f)
        /\ \A g \in Game : Behind(Nos(s.gdi[g].pending, f), Nos(t.edi[f].pending, f))
        /\ \A c \in Conn : Behind(Nos(s.wire[c], f), Nos(t.edi[f].pending, f))
    BY <1>4 DEF Order
  <1>7. Order(t, f)
    BY <1>2, <1>5, <1>6 DEF Order
  <1> QED BY <1>7 DEF t

\* An entity's entry that keeps no new packets.
LEMMA EntityKeepsOrder ==
  ASSUME NEW f \in Entity, NEW s, NEW e \in Entity, NEW i, Good(s), Order(s, f),
         i.pending \in {s.edi[e].pending, <<>>}
  PROVE  Order([s EXCEPT !.edi[e] = i], f)
  <1>1. Rising(i.pending, f) /\ Nos(i.pending, f) \subseteq Nos(s.edi[e].pending, f)
    <2>1. Rising(s.edi[e].pending, f)
      <3>1. CASE e = f
        BY <3>1 DEF Order
      <3>2. CASE e # f
        <4>1. Nos(s.edi[e].pending, f) = {}
          BY <3>2 DEF Order
        <4> QED BY <4>1 DEF Nos, Rising
      <3> QED BY <3>1, <3>2
    <2> QED BY <2>1, NosNothing
  <1>2. e # f => Nos(i.pending, f) = {}
    BY <1>1 DEF Order
  <1>3. /\ \A g \in Game : Behind(Nos(s.gdi[g].pending, f), Nos(i.pending, f))
        /\ \A c \in Conn : Behind(Nos(s.wire[c], f), Nos(i.pending, f))
    BY <1>1, <1>2 DEF Order, Behind
  <1> QED BY <1>1, <1>2, <1>3, EntityOrder

LEMMA GameOrder ==
  ASSUME NEW f \in Entity, NEW s, NEW g \in Game, NEW i, Good(s), Order(s, f),
         i.pending \in {s.gdi[g].pending, <<>>},
         i.clientProxy \in {s.gdi[g].clientProxy, None} \/ i.pending = <<>>
  PROVE  LET t == [s EXCEPT !.gdi[g] = i]
         IN /\ Order(t, f)
            /\ \A c \in Conn : i.clientProxy # c /\ Fresh(s, c, f) => Fresh(t, c, f)
  <1> DEFINE t == [s EXCEPT !.gdi[g] = i]
  <1>1. s = [edi |-> s.edi, gdi |-> s.gdi, id |-> s.id, wire |-> s.wire]
    BY DEF Good, Snapshot
  <1>2. t.edi = s.edi /\ t.wire = s.wire /\ t.id = s.id /\ t.gdi = [s.gdi EXCEPT ![g] = i]
    BY <1>1
  <1> HIDE DEF t
  <1>3. \A h \in Game : t.gdi[h] = IF h = g THEN i ELSE s.gdi[h]
    BY <1>2 DEF Good, Snapshot
  <1>4. Rising(i.pending, f) /\ Nos(i.pending, f) \subseteq Nos(s.gdi[g].pending, f)
    BY NosNothing DEF Order
  <1>5. Behind(Nos(i.pending, f), Nos(s.edi[f].pending, f))
    BY <1>4 DEF Order, Behind
  <1>6. i.clientProxy # None => Behind(Nos(s.wire[i.clientProxy], f), Nos(i.pending, f))
    <2>1. i.pending = <<>> => Behind(Nos(s.wire[i.clientProxy], f), Nos(i.pending, f))
      BY NosNothing DEF Behind
    <2>2. i.clientProxy = s.gdi[g].clientProxy /\ i.clientProxy # None
            /\ i.pending = s.gdi[g].pending =>
          Behind(Nos(s.wire[i.clientProxy], f), Nos(i.pending, f))
      BY DEF Order
    <2> QED BY <2>1, <2>2
  <1>7. \A h \in Game :
          /\ Rising(t.gdi[h].pending, f)
          /\ Behind(Nos(t.gdi[h].pending, f), Nos(t.edi[f].pending, f))
          /\ t.gdi[h].clientProxy # None =>
               Behind(Nos(t.wire[t.gdi[h].clientProxy], f), Nos(t.gdi[h].pending, f))
    BY <1>2, <1>3, <1>4, <1>5, <1>6 DEF Order
  <1>8. Order(t, f)
    BY <1>2, <1>7 DEF Order
  <1>9. ASSUME NEW c \in Conn, i.clientProxy # c, Fresh(s, c, f) PROVE Fresh(t, c, f)
    BY <1>2, <1>3, <1>9 DEF Fresh
  <1> QED BY <1>8, <1>9 DEF t

LEMMA SendPacketOrder ==
  ASSUME NEW f \in Entity, NEW s, NEW c, NEW ps \in Seq(Packet), Good(s), Order(s, f),
         Rising(ps, f), Behind(Nos(ps, f), Nos(s.edi[f].pending, f)),
         c \in Conn => Behind(Nos(s.wire[c], f), Nos(ps, f)),
         s.id[c] = None => Nos(ps, f) = {},
         \A g \in Game : s.gdi[g].clientProxy = c =>
           Behind(Nos(ps, f), Nos(s.gdi[g].pending, f))
  PROVE  Order(SendPacket(s, c, ps), f)
  <1> DEFINE t == [s EXCEPT !.wire[c] = s.wire[c] \o ps]
  <1>1. PICK w : w = s.wire[c] \o ps
    OBVIOUS
  <1>2. t = [s EXCEPT !.wire[c] = w]
    BY <1>1
  <1>3. s = [edi |-> s.edi, gdi |-> s.gdi, id |-> s.id, wire |-> s.wire]
    BY DEF Good, Snapshot
  <1> HIDE DEF t
  <1>4. t.edi = s.edi /\ t.gdi = s.gdi /\ t.id = s.id /\ t.wire = [s.wire EXCEPT ![c] = w]
    BY <1>2, <1>3
  <1>5. \A d \in Conn : t.wire[d] = IF d = c THEN w ELSE s.wire[d]
    BY <1>4 DEF Good, Snapshot
  <1>6. ASSUME c \in Conn
        PROVE  Rising(w, f) /\ Nos(w, f) = Nos(s.wire[c], f) \cup Nos(ps, f)
    <2>1. s.wire[c] \in Seq(Packet) /\ Rising(s.wire[c], f)
      BY <1>6 DEF Good, Snapshot, Order
    <2> QED BY <1>1, <1>6, <2>1, NosConcat
  <1>7. ASSUME NEW d \in Conn
        PROVE  /\ Rising(t.wire[d], f)
               /\ Behind(Nos(t.wire[d], f), Nos(t.edi[f].pending, f))
               /\ t.id[d] = None => Nos(t.wire[d], f) = {}
               /\ \A g \in Game : s.gdi[g].clientProxy = d =>
                    Behind(Nos(t.wire[d], f), Nos(s.gdi[g].pending, f))
    <2>1. /\ Rising(s.wire[d], f)
          /\ Behind(Nos(s.wire[d], f), Nos(s.edi[f].pending, f))
          /\ s.id[d] = None => Nos(s.wire[d], f) = {}
          /\ \A g \in Game : s.gdi[g].clientProxy = d =>
               Behind(Nos(s.wire[d], f), Nos(s.gdi[g].pending, f))
      BY NoneAssumption DEF Order
    <2>2. CASE d = c
      BY <1>4, <1>5, <1>6, <2>1, <2>2 DEF Behind
    <2>3. CASE d # c
      BY <1>4, <1>5, <2>1, <2>3
    <2> QED BY <2>2, <2>3
  <1>8. ASSUME NEW g \in Game, t.gdi[g].clientProxy # None
        PROVE  Behind(Nos(t.wire[t.gdi[g].clientProxy], f), Nos(t.gdi[g].pending, f))
    <2>1. s.gdi[g] \in GameInfo
      BY DEF Good, Snapshot
    <2>2. s.gdi[g].clientProxy \in Conn
      BY <1>4, <1>8, <2>1 DEF GameInfo
    <2> QED BY <1>4, <1>7, <2>2
  <1>9. Order(t, f)
    BY <1>4, <1>7, <1>8 DEF Order
  <1> QED BY <1>9 DEF t, SendPacket

LEMMA SendQuietOrder ==
  ASSUME NEW f \in Entity, NEW s, NEW c, NEW ps \in Seq(NoCall), Good(s), Order(s, f)
  PROVE  Order(SendPacket(s, c, ps), f)
  <1>1. ps \in Seq(Packet) /\ Rising(ps, f) /\ Nos(ps, f) = {}
    BY NosCallless DEF Callless, NoCall
  <1> QED BY <1>1, SendPacketOrder DEF Behind

-----------------------------------------------------------------------------
(* The steps handlers are made of keep the order                            *)

LEMMA ForWriteOrder ==
  ASSUME NEW f \in Entity, NEW s, NEW e \in Entity, Good(s), Order(s, f)
  PROVE  Order(ForWrite(s, e), f)
  <1> DEFINE i == [s.edi[e] EXCEPT !.known = TRUE]
  <1>1. ForWrite(s, e) = [s EXCEPT !.edi[e] = i]
    BY DEF ForWrite
  <1>2. i.pending = s.edi[e].pending
    BY DEF Good, Snapshot, EntityInfo
  <1> HIDE DEF i
  <1> QED BY <1>1, <1>2, EntityKeepsOrder

LEMMA BlockRPCOrder ==
  ASSUME NEW f \in Entity, NEW s, NEW e \in Entity, Good(s), Order(s, f)
  PROVE  Order(BlockRPC(s, e), f)
  <1> DEFINE i == [s.edi[e] EXCEPT !.blockUntil = "future"]
  <1>1. BlockRPC(s, e) = [s EXCEPT !.edi[e] = i]
    BY DEF BlockRPC
  <1>2. i.pending = s.edi[e].pending
    BY DEF Good, Snapshot, EntityInfo
  <1> HIDE DEF i
  <1> QED BY <1>1, <1>2, EntityKeepsOrder

LEMMA RouteOrder ==
  ASSUME NEW f \in Entity, NEW s, NEW e \in Entity, NEW g, Good(s), Order(s, f)
  PROVE  Order([s EXCEPT !.edi[e].gameid = g], f)
  <1> DEFINE i == [s.edi[e] EXCEPT !.gameid = g]
  <1>1. [s EXCEPT !.edi[e].gameid = g] = [s EXCEPT !.edi[e] = i]
    OBVIOUS
  <1>2. i.pending = s.edi[e].pending
    BY DEF Good, Snapshot, EntityInfo
  <1> HIDE DEF i
  <1> QED BY <1>1, <1>2, EntityKeepsOrder

\* What was held for an entity may be dispatched once it is held no more.
LEMMA ReleasedFits ==
  ASSUME NEW f \in Entity, NEW s, NEW e \in Entity, NEW i, NEW g, NEW ps \in Seq(Packet),
         Good(s), Order(s, f), i.pending = <<>>,
         Rising(ps, f), Nos(ps, f) = Nos(s.edi[e].pending, f)
  PROVE  LET t == [s EXCEPT !.edi[e] = i]
         IN Order(t, f) /\ Fits(t, To(g, ps), f)
  <1> DEFINE t == [s EXCEPT !.edi[e] = i]
  <1>1. Order(t, f)
    BY EntityKeepsOrder
  <1>2. s = [edi |-> s.edi, gdi |-> s.gdi, id |-> s.id, wire |-> s.wire]
    BY DEF Good, Snapshot
  <1>3. t.gdi = s.gdi /\ t.wire = s.wire /\ t.edi = [s.edi EXCEPT ![e] = i]
    BY <1>2
  <1> HIDE DEF t
  <1>4. e = f => Nos(t.edi[f].pending, f) = {}
    BY <1>3, NosNothing DEF Good, Snapshot
  <1>5. e # f => Nos(ps, f) = {}
    BY DEF Order
  <1>6. /\ Behind(Nos(ps, f), Nos(t.edi[f].pending, f))
        /\ \A h \in Game : Behind(Nos(t.gdi[h].pending, f), Nos(ps, f))
        /\ \A c \in Conn : Behind(Nos(t.wire[c], f), Nos(ps, f))
    BY <1>3, <1>4, <1>5 DEF Order, Behind
  <1>7. Fits(t, To(g, ps), f)
    BY <1>6, NosNothing DEF Fits, To, Behind
  <1> QED BY <1>1, <1>7 DEF t

LEMMA UnblockOrder ==
  ASSUME NEW f \in Entity, NEW s, NEW e \in Entity,
         "connected" \notin FreezeTimeout, Good(s), Order(s, f)
  PROVE  Order(Unblock(s, e), f)
  <1> DEFINE i == Released(s.edi[e])
             t == [s EXCEPT !.edi[e] = i]
  <1>1. s.edi[e] \in EntityInfo /\ s.edi[e].pending \in Seq(Packet) /\ Entry(s.edi[e])
    BY DEF Good, Snapshot, EntityInfo, Entries
  <1>2. i \in EntityInfo /\ Entry(i) /\ i.pending = <<>>
    BY <1>1, ReleasedTyped DEF Entry
  <1>3. Rising(s.edi[e].pending, f)
    BY DEF Order, Nos, Rising
  <1> HIDE DEF i
  <1>4. Good(t)
    BY <1>2, EntityUpdate
  <1>5. Order(t, f) /\ Fits(t, To(s.edi[e].gameid, s.edi[e].pending), f)
    BY <1>1, <1>2, <1>3, ReleasedFits
  <1> HIDE DEF t
  <1>6. Order(Dispatch(t, To(s.edi[e].gameid, s.edi[e].pending)), f)
    BY <1>1, <1>4, <1>5, ToTyped, DispatchOrder
  <1> QED BY <1>6 DEF Unblock, t, i

\* Packets whose calls are among the first n.
Upto(n) == {p \in Packet : p.type = "call" => p.no <= n}

LEMMA NosUpto ==
  ASSUME NEW n \in Nat, NEW q \in Seq(Upto(n)), NEW f
  PROVE  q \in Seq(Packet) /\ \A m \in Nos(q, f) : m <= n
  <1>1. \A i \in DOMAIN q : q[i] \in Upto(n)
    OBVIOUS
  <1>2. q \in Seq(Packet)
    BY DEF Upto
  <1> QED BY <1>1, <1>2 DEF Upto, Nos, IsCallOf

\* A new call comes after all there are.
LEMMA NewCallLast ==
  ASSUME NEW f \in Entity, NEW s, NEW n \in Nat, NEW B, From(Upto(n), s),
         B \in SUBSET {n + 1}
  PROVE  /\ Behind(Nos(s.edi[f].pending, f), B)
         /\ \A g \in Game : Behind(Nos(s.gdi[g].pending, f), B)
         /\ \A c \in Conn : Behind(Nos(s.wire[c], f), B)
  <1>1. ASSUME NEW q \in Seq(Upto(n)) PROVE Behind(Nos(q, f), B)
    <2>1. \A m \in Nos(q, f) : m <= n /\ m \in Nat
      <3>1. \A i \in DOMAIN q : IsCallOf(q[i], f) => q[i].no \in Nat
        <4>1. \A i \in DOMAIN q : q[i] \in Packet
          BY NosUpto
        <4> QED BY <4>1 DEF IsCallOf, Packet
      <3> QED BY <3>1, NosUpto DEF Nos
    <2> QED BY <2>1 DEF Behind
  <1> QED BY <1>1 DEF From

LEMMA DispatchToEntityOrder ==
  ASSUME NEW f \in Entity, NEW s, NEW e \in Entity, NEW n \in Nat, NEW p,
         "connected" \notin FreezeTimeout, Good(s), Order(s, f), From(Upto(n), s),
         p = [type |-> "call", entity |-> e, no |-> n + 1]
  PROVE  Order(DispatchToEntity(s, e, p), f)
  <1>1. p \in Packet /\ (e = f => IsCallOf(p, f)) /\ (e # f => ~IsCallOf(p, f)) /\ p.no = n + 1
    BY DEF Packet, IsCallOf
  <1>2. PICK q : q = <<p>>
    OBVIOUS
  <1>3. q \in Seq(Packet) /\ Rising(q, f) /\ Nos(q, f) = IF e = f THEN {n + 1} ELSE {}
    BY <1>1, <1>2, NosOne
  <1>4. s.edi[e] \in EntityInfo /\ s.edi[e].pending \in Seq(Packet) /\ Entry(s.edi[e])
    BY DEF Good, Snapshot, EntityInfo, Entries
  <1>5. /\ Behind(Nos(s.edi[f].pending, f), Nos(q, f))
        /\ \A g \in Game : Behind(Nos(s.gdi[g].pending, f), Nos(q, f))
        /\ \A c \in Conn : Behind(Nos(s.wire[c], f), Nos(q, f))
    BY <1>3, NewCallLast
  <1>6. CASE s.edi[e].blockUntil = "zero"
    <2>1. e = f => Nos(s.edi[f].pending, f) = {}
      BY <1>4, <1>6, NosNothing DEF Entry
    <2>2. Behind(Nos(q, f), Nos(s.edi[f].pending, f))
      BY <1>3, <2>1 DEF Behind
    <2>3. Fits(s, To(s.edi[e].gameid, q), f)
      BY <1>3, <1>5, <2>2, NosNothing DEF Fits, To, Behind
    <2>4. Order(Dispatch(s, To(s.edi[e].gameid, q)), f)
      BY <1>3, <2>3, ToTyped, DispatchOrder
    <2> QED BY <1>2, <1>6, <2>4 DEF DispatchToEntity
  <1>7. CASE s.edi[e].blockUntil = "future"
    <2> DEFINE r == Hold(s.edi[e].pending, q, EntityQueueMax)
               i == [s.edi[e] EXCEPT !.pending = r]
    <2>1. Rising(s.edi[e].pending, f)
      <3>1. CASE e = f
        BY <3>1 DEF Order
      <3>2. CASE e # f
        BY <3>2 DEF Order, Nos, Rising
      <3> QED BY <3>1, <3>2
    <2>2. Behind(Nos(s.edi[e].pending, f), Nos(q, f))
      BY <1>3, <1>5 DEF Order, Behind
    <2>3. Rising(r, f) /\ Nos(r, f) \subseteq Nos(s.edi[e].pending, f) \cup Nos(q, f)
      BY <1>3, <1>4, <2>1, <2>2, NosHold, BoundAssumption
    <2>4. i.pending = r
      BY <1>4 DEF EntityInfo
    <2>5. DispatchToEntity(s, e, p) = [s EXCEPT !.edi[e] = i]
      BY <1>2, <1>7 DEF DispatchToEntity
    <2> HIDE DEF r, i
    <2>6. e # f => Nos(r, f) = {}
      BY <1>3, <2>3 DEF Order
    <2>7. /\ \A g \in Game : Behind(Nos(s.gdi[g].pending, f), Nos(r, f))
          /\ \A c \in Conn : Behind(Nos(s.wire[c], f), Nos(r, f))
      BY <1>5, <2>3, <2>6 DEF Order, Behind
    <2> QED BY <2>3, <2>4, <2>5, <2>6, <2>7, EntityOrder
  <1>8. CASE s.edi[e].blockUntil \notin {"zero", "future"}
    BY <1>8, UnblockOrder DEF DispatchToEntity, OnTimeout
  <1> QED BY <1>6, <1>7, <1>8

LEMMA GameDisconnectedOrder ==
  ASSUME NEW f \in Entity, NEW s, NEW c \in Conn, s.id[c] \in Game,
         "connected" \notin FreezeTimeout, Good(s), Order(s, f)
  PROVE  LET t == GameDisconnected(s, c)
         IN Order(t, f) /\ \A d \in Conn : Fresh(s, d, f) => Fresh(t, d, f)
  <1> DEFINE g == s.id[c]
             i == [s.gdi[g] EXCEPT !.clientProxy = None]
             t == [s EXCEPT !.gdi[g] = i]
  <1>1. s.gdi[g] \in GameInfo /\ Queue(s.gdi[g])
    BY DEF Good, Snapshot, Queues
  <1>2. i \in GameInfo /\ i.clientProxy = None /\ i.pending = s.gdi[g].pending /\ Queue(i)
    BY <1>1 DEF GameInfo, Queue
  <1>3. [s EXCEPT !.gdi[g].clientProxy = None] = t
    OBVIOUS
  <1> HIDE DEF i, g
  <1>4. Good(t) /\ Order(t, f) /\ \A d \in Conn : Fresh(s, d, f) => Fresh(t, d, f)
    <2>1. g \in Game
      BY DEF g
    <2>2. Good(t)
      BY <1>2, <2>1, GameUpdate
    <2>3. i.clientProxy \notin Conn
      BY <1>2, NoneAssumption
    <2> QED BY <1>2, <2>1, <2>2, <2>3, GameOrder
  <1> HIDE DEF t
  <1>5. LET u == DispatchDown(t, {g}, Nothing)
        IN Order(u, f) /\ \A d \in Conn : Fresh(t, d, f) => Fresh(u, d, f)
    <2>1. Nothing \in [Game -> Seq(Packet)] /\ {g} \in SUBSET Game
      BY ToTyped DEF g, Nothing
    <2>2. Fits(t, Nothing, f)
      <3>1. <<>> \in Seq(NoCall)
        OBVIOUS
      <3>2. Nothing \in [Game -> Seq(NoCall)]
        BY <3>1 DEF Nothing
      <3> QED BY <3>2, QuietFits
    <2> QED BY <1>4, <2>1, <2>2, DispatchDownOrder
  <1> QED BY <1>3, <1>4, <1>5 DEF GameDisconnected, g

\* Packets without a call, to any games.
LEMMA QuietOrder ==
  ASSUME NEW f \in Entity, NEW s, NEW out \in [Game -> Seq(NoCall)],
         "connected" \notin FreezeTimeout, Good(s), Order(s, f)
  PROVE  Order(Dispatch(s, out), f)
  <1>1. ASSUME NEW q \in Seq(NoCall) PROVE q \in Seq(Packet)
    BY DEF NoCall
  <1>2. out \in [Game -> Seq(Packet)]
    BY <1>1
  <1> QED BY <1>2, QuietFits, DispatchOrder

LEMMA GateDisconnectedOrder ==
  ASSUME NEW f \in Entity, NEW s, NEW c \in Conn, s.id[c] \in Gate,
         "connected" \notin FreezeTimeout, Good(s), Order(s, f)
  PROVE  Order(GateDisconnected(s, c), f)
  <1> DEFINE ps  == <<[type |-> "gateDown", gate |-> s.id[c]]>>
             out == ToAllExcept(None, ps)
  <1>1. ps \in Seq(NoCall)
    <2>1. [type |-> "gateDown", gate |-> s.id[c]] \in NoCall
      BY DEF Packet, NoCall
    <2> QED BY <2>1
  <1> HIDE DEF ps
  <1>2. out \in [Game -> Seq(NoCall)]
    BY <1>1, ToFrom
  <1> HIDE DEF out
  <1>3. Order(Dispatch(s, out), f)
    BY <1>2, QuietOrder
  <1> QED BY <1>3 DEF GateDisconnected, out, ps

-----------------------------------------------------------------------------
(* A game that connects, with its entities, keeps the order                 *)

\* What was held for the game is all that goes to its new connection.
LEMMA AdoptProxyOrder ==
  ASSUME NEW f \in Entity, NEW s, NEW c \in Conn, NEW g \in Game,
         "connected" \notin FreezeTimeout, Good(s), Order(s, f),
         s.id[c] = g, Fresh(s, c, f)
  PROVE  Order(AdoptProxy(s, c, g), f)
  <1> DEFINE i == s.gdi[g]
             ps == IF FlushOnAdopt(i) THEN i.pending ELSE <<>>
             q == IF FlushOnAdopt(i) THEN <<>> ELSE i.pending
             j == [i EXCEPT !.known = TRUE, !.clientProxy = c, !.blockUntil = "zero",
                            !.pending = q]
             t == [s EXCEPT !.gdi[g] = j]
  <1>1. i \in GameInfo /\ Queue(i)
    BY DEF Good, Snapshot, Queues
  <1>2. AdoptProxy(s, c, g) = SendPacket(t, c, ps)
    BY DEF AdoptProxy
  <1>3. ps \in Seq(Packet) /\ q = <<>> /\ ps \in {i.pending, <<>>}
    BY <1>1 DEF GameInfo, Queue, FlushOnAdopt
  <1>4. /\ Rising(ps, f) /\ Nos(ps, f) \subseteq Nos(i.pending, f)
        /\ Behind(Nos(ps, f), Nos(s.edi[f].pending, f))
    BY <1>3, NosNothing DEF Order, Behind
  <1> HIDE DEF i, ps, q
  <1>5. /\ j \in GameInfo /\ j.known /\ j.clientProxy = c /\ j.blockUntil = "zero"
        /\ j.pending = <<>> /\ Queue(j)
    <2>1. <<>> \in Seq(Packet)
      OBVIOUS
    <2> QED BY <1>1, <1>3, <2>1 DEF GameInfo, BlockTime, Queue
  <1> HIDE DEF j
  <1>6. /\ Good(t) /\ t.id = s.id /\ t.edi = s.edi /\ t.gdi[g] = j
        /\ \A h \in Game \ {g} : t.gdi[h] = s.gdi[h]
    <2>1. /\ j \in GameInfo /\ (j.clientProxy # None => j.known /\ s.id[j.clientProxy] = g)
          /\ "connected" \in FreezeTimeout \/ Queue(j)
      BY <1>5
    <2> HIDE DEF t
    <2> QED BY <2>1, GameUpdate DEF t
  <1>7. Order(t, f)
    <2> HIDE DEF t
    <2> QED BY <1>5, GameOrder DEF t
  <1>8. t.wire = s.wire
    <2>1. s = [edi |-> s.edi, gdi |-> s.gdi, id |-> s.id, wire |-> s.wire]
      BY DEF Good, Snapshot
    <2> QED BY <2>1
  <1> HIDE DEF t
  <1>9. Behind(Nos(t.wire[c], f), Nos(ps, f)) /\ t.id[c] # None
    BY <1>6, <1>8, NoneAssumption DEF Fresh, Behind
  <1>10. ASSUME NEW h \in Game, t.gdi[h].clientProxy = c
         PROVE  Behind(Nos(ps, f), Nos(t.gdi[h].pending, f))
    <2>1. h = g
      BY <1>6, <1>10 DEF Fresh
    <2> QED BY <1>5, <1>6, <2>1, NosNothing DEF Behind
  <1>11. Order(SendPacket(t, c, ps), f)
    BY <1>3, <1>4, <1>6, <1>7, <1>9, <1>10, SendPacketOrder
  <1> QED BY <1>2, <1>11

\* What is held for the adopted entities, f or not f among them.
LEMMA HeldOrder ==
  ASSUME NEW f \in Entity, NEW s, NEW mine, NEW eids \in Seq(Entity), IsInjective(eids),
         Good(s), Order(s, f), mine \subseteq ToSet(eids)
  PROVE  LET held == FlattenSeq([i \in DOMAIN eids |->
                       IF eids[i] \in mine THEN s.edi[eids[i]].pending ELSE <<>>])
         IN /\ held \in Seq(Packet) /\ Rising(held, f)
            /\ Nos(held, f) = IF f \in mine THEN Nos(s.edi[f].pending, f) ELSE {}
  <1> DEFINE n == Len(eids)
             parts == [i \in DOMAIN eids |->
                         IF eids[i] \in mine THEN s.edi[eids[i]].pending ELSE <<>>]
             Seen(m) == f \in mine /\ \E i \in 1..m : eids[i] = f
             N(m) == IF Seen(m) THEN Nos(s.edi[f].pending, f) ELSE {}
             A == [m \in 0..n |-> {q \in Seq(Packet) : Rising(q, f) /\ Nos(q, f) = N(m)}]
  <1>1. n \in Nat /\ DOMAIN eids = 1..n /\ \A i \in 1..n : eids[i] \in Entity
    OBVIOUS
  <1>2. ASSUME NEW i \in 1..n
        PROVE  /\ parts[i] \in Seq(Packet) /\ Rising(parts[i], f)
               /\ Nos(parts[i], f) = IF eids[i] = f /\ f \in mine
                                     THEN Nos(s.edi[f].pending, f) ELSE {}
    <2>1. /\ s.edi[eids[i]].pending \in Seq(Packet)
          /\ eids[i] # f => Nos(s.edi[eids[i]].pending, f) = {}
          /\ Rising(s.edi[f].pending, f)
      BY <1>1 DEF Good, Snapshot, EntityInfo, Order
    <2>2. parts[i] = IF eids[i] \in mine THEN s.edi[eids[i]].pending ELSE <<>>
      BY <1>1
    <2> HIDE DEF parts
    <2>3. CASE eids[i] \in mine
      <3>1. CASE eids[i] = f
        BY <2>1, <2>2, <2>3, <3>1
      <3>2. CASE eids[i] # f
        <4>1. Nos(parts[i], f) = {}
          BY <2>1, <2>2, <2>3, <3>2
        <4>2. Rising(parts[i], f)
          BY <4>1 DEF Nos, Rising
        <4> QED BY <2>1, <2>2, <2>3, <3>2, <4>1, <4>2
      <3> QED BY <3>1, <3>2
    <2>4. CASE eids[i] \notin mine
      BY <2>2, <2>4, NosNothing
    <2> QED BY <2>3, <2>4
  <1>3. parts \in [1..n -> Seq(Packet)]
    BY <1>1, <1>2
  <1> HIDE DEF parts
  <1>4. A \in [0..n -> SUBSET Seq(Packet)]
    OBVIOUS
  <1>5. <<>> \in A[0]
    <2>1. ~Seen(0) /\ 0 \in 0..n
      BY <1>1
    <2> HIDE DEF Seen
    <2>2. N(0) = {}
      BY <2>1
    <2> HIDE DEF N
    <2>3. A[0] = {q \in Seq(Packet) : Rising(q, f) /\ Nos(q, f) = N(0)}
      BY <2>1
    <2>4. <<>> \in Seq(Packet)
      OBVIOUS
    <2> HIDE DEF A
    <2> QED BY <2>2, <2>3, <2>4, NosNothing
  <1>6. ASSUME NEW m \in 0..(n - 1), NEW q \in A[m]
        PROVE  q \o parts[m + 1] \in A[m + 1]
    <2>1. m \in 0..n /\ m + 1 \in 0..n /\ m + 1 \in 1..n
      BY <1>1
    <2>2. q \in Seq(Packet) /\ Rising(q, f) /\ Nos(q, f) = N(m)
      BY <2>1
    <2> DEFINE p == parts[m + 1]
               new == eids[m + 1] = f /\ f \in mine
    <2>3. /\ p \in Seq(Packet) /\ Rising(p, f)
          /\ Nos(p, f) = IF new THEN Nos(s.edi[f].pending, f) ELSE {}
      BY <1>2, <2>1
    <2>4. Seen(m + 1) <=> Seen(m) \/ new
      BY <2>1
    <2>5. ~(Seen(m) /\ new)
      <3> SUFFICES ASSUME NEW i \in 1..m, eids[i] = f, eids[m + 1] = f PROVE FALSE
        OBVIOUS
      <3>1. i \in DOMAIN eids /\ m + 1 \in DOMAIN eids /\ i # m + 1
        BY <1>1, <2>1
      <3> QED BY <3>1 DEF IsInjective
    <2> HIDE DEF p, new, Seen
    <2>6. /\ Behind(Nos(q, f), Nos(p, f))
          /\ Nos(q, f) \cup Nos(p, f) = N(m + 1)
      BY <2>2, <2>3, <2>4, <2>5 DEF Behind
    <2>7. PICK r : r = q \o p
      OBVIOUS
    <2>8. r \in Seq(Packet) /\ Rising(r, f) /\ Nos(r, f) = N(m + 1)
      <3> HIDE DEF N
      <3>1. q \o p \in Seq(Packet)
        BY <2>2, <2>3
      <3>2. Nos(q \o p, f) = Nos(q, f) \cup Nos(p, f) /\ Rising(q \o p, f)
        BY <2>2, <2>3, <2>6, NosConcat
      <3> QED BY <2>6, <2>7, <3>1, <3>2
    <2> HIDE DEF N
    <2>9. r \in A[m + 1]
      BY <2>1, <2>8
    <2> QED BY <2>7, <2>9 DEF p
  <1>7. FlattenSeq(parts) \in A[n]
    <2> HIDE DEF A, n
    <2> QED BY <1>1, <1>3, <1>4, <1>5, <1>6, FlattenInduct
  <1>8. n \in 0..n /\ (Seen(n) <=> f \in mine)
    <2>1. f \in mine => \E i \in 1..n : eids[i] = f
      BY <1>1 DEF ToSet
    <2> QED BY <1>1, <2>1
  <1>9. FlattenSeq(parts) \in {q \in Seq(Packet) : Rising(q, f) /\ Nos(q, f) = N(n)}
    BY <1>7, <1>8
  <1> HIDE DEF Seen
  <1> QED BY <1>8, <1>9 DEF parts

LEMMA RoutedOrder ==
  ASSUME NEW f \in Entity, NEW s, NEW mine, NEW g \in Game, Good(s), Order(s, f)
  PROVE  Order(Routed(s, mine, g), f)
  <1> DEFINE routes == [e \in Entity |->
                IF e \in mine THEN [Released(s.edi[e]) EXCEPT !.known = TRUE, !.gameid = g]
                ELSE s.edi[e]]
             t == Routed(s, mine, g)
  <1>1. ASSUME NEW e \in Entity PROVE routes[e].pending \in {s.edi[e].pending, <<>>}
    <2>1. s.edi[e] \in EntityInfo
      BY DEF Good, Snapshot
    <2>2. Released(s.edi[e]) \in EntityInfo /\ Released(s.edi[e]).pending = <<>>
      BY <2>1, ReleasedTyped
    <2>3. routes[e] = IF e \in mine
                      THEN [Released(s.edi[e]) EXCEPT !.known = TRUE, !.gameid = g]
                      ELSE s.edi[e]
      OBVIOUS
    <2> HIDE DEF routes
    <2> QED BY <2>2, <2>3 DEF EntityInfo
  <1>2. t = [s EXCEPT !.edi = routes]
    BY DEF Routed
  <1> HIDE DEF routes, t
  <1>3. t.edi = routes /\ t.gdi = s.gdi /\ t.id = s.id /\ t.wire = s.wire
    <2>1. s = [edi |-> s.edi, gdi |-> s.gdi, id |-> s.id, wire |-> s.wire]
      BY DEF Good, Snapshot
    <2> QED BY <1>2, <2>1
  <1>4. Fits(s, Nothing, f)
    <2>1. <<>> \in Seq(NoCall)
      OBVIOUS
    <2>2. Nothing \in [Game -> Seq(NoCall)]
      BY <2>1 DEF Nothing
    <2> QED BY <2>2, QuietFits
  <1>5. \A h \in Game : Rising(s.gdi[h].pending, f)
    BY DEF Order
  <1>6. Order(t, f)
    BY <1>1, <1>3, <1>4, <1>5, OrderAfterDispatch
  <1> QED BY <1>6 DEF t

LEMMA AdoptEntitiesOrder ==
  ASSUME NEW f \in Entity, NEW s, NEW g \in Game, NEW eids \in Seq(Entity),
         IsInjective(eids), "connected" \notin FreezeTimeout, Good(s), Order(s, f)
  PROVE  Order(AdoptEntities(s, g, eids), f)
  <1> DEFINE mine == {e \in ToSet(eids) : s.edi[e].gameid \in {g, None}}
             held == FlattenSeq([i \in DOMAIN eids |->
                       IF eids[i] \in mine THEN s.edi[eids[i]].pending ELSE <<>>])
             t == Routed(s, mine, g)
  <1>1. AdoptEntities(s, g, eids) = Dispatch(t, To(g, held))
    BY DEF AdoptEntities, Routed
  <1>2. mine \subseteq ToSet(eids)
    OBVIOUS
  <1> HIDE DEF mine
  <1>3. /\ held \in Seq(Packet) /\ Rising(held, f)
        /\ Nos(held, f) = IF f \in mine THEN Nos(s.edi[f].pending, f) ELSE {}
    BY <1>2, HeldOrder
  <1> HIDE DEF held
  <1>4. Good(t) /\ t.gdi = s.gdi /\ Order(t, f)
    BY RoutedGood, RoutedOrder
  <1>5. t.wire = s.wire /\ (f \in mine => t.edi[f].pending = <<>>)
    <2>1. s = [edi |-> s.edi, gdi |-> s.gdi, id |-> s.id, wire |-> s.wire]
      BY DEF Good, Snapshot
    <2>2. s.edi[f] \in EntityInfo
      BY DEF Good, Snapshot
    <2>3. Released(s.edi[f]) \in EntityInfo /\ Released(s.edi[f]).pending = <<>>
      BY <2>2, ReleasedTyped
    <2>4. t.wire = s.wire
      BY <2>1 DEF Routed
    <2>5. f \in mine => t.edi[f] = [Released(s.edi[f]) EXCEPT !.known = TRUE, !.gameid = g]
      BY <2>1 DEF Routed
    <2> HIDE DEF t
    <2> QED BY <2>3, <2>4, <2>5 DEF EntityInfo
  <1> HIDE DEF t
  <1>6. /\ Behind(Nos(held, f), Nos(t.edi[f].pending, f))
        /\ \A h \in Game : Behind(Nos(t.gdi[h].pending, f), Nos(held, f))
        /\ \A c \in Conn : Behind(Nos(t.wire[c], f), Nos(held, f))
    <2>1. CASE f \in mine
      BY <1>3, <1>4, <1>5, <2>1, NosNothing DEF Order, Behind
    <2>2. CASE f \notin mine
      BY <1>3, <2>2 DEF Behind
    <2> QED BY <2>1, <2>2
  <1>7. Fits(t, To(g, held), f)
    BY <1>3, <1>6, NosNothing DEF Fits, To, Behind
  <1>8. Order(Dispatch(t, To(g, held)), f)
    BY <1>3, <1>4, <1>7, ToTyped, DispatchOrder
  <1> QED BY <1>1, <1>8

-----------------------------------------------------------------------------
(* The inductive invariant                                                  *)

Inv ==
  /\ Good(Now)
  /\ gates \in [Gate -> Conn \cup {None}]
  /\ \A t \in Gate : gates[t] # None => id[gates[t]] = t
  /\ link \in [Conn -> {"unused", "open", "closed", "gone"}]
  /\ ready \in BOOLEAN
  /\ syncs \subseteq Game \cup {None}
  /\ msgs \in Nat

\* No game is left without a connection, and one it gets was accepted before.
Connected ==
  /\ \A g \in Game : gdi[g].clientProxy # None => gdi'[g].clientProxy # None
  /\ \A g \in Game : gdi'[g].clientProxy # gdi[g].clientProxy =>
       link[gdi'[g].clientProxy] # "unused"

\* No packet is there that was not there before, calls aside.
Carried(s) == \A T : Routine(T) /\ From(T, Now) => From(T, s)
Carries == \A T : Routine(T) /\ From(T, Now) => From(T, Now')

\* The calls stay in order.
Ordered(s) == "connected" \notin FreezeTimeout =>
                \A f \in Entity : Order(Now, f) => Order(s, f)
Orders == "connected" \notin FreezeTimeout =>
            \A f \in Entity : Order(Now, f) => Order(Now', f)

LEMMA NowGood ==
  ASSUME NEW s, Good(s), Commit(s)
  PROVE  Good(Now)' /\ id' = s.id /\ Proxies(Now)' = Proxies(s)
  BY DEF Proxies, Commit, Now, Good, Snapshot, Entries, Identified, Queues

LEMMA NowFrom ==
  ASSUME NEW T, NEW s, From(T, s), Commit(s)
  PROVE  From(T, Now')
  BY DEF Commit, Now, From

LEMMA NowOrder ==
  ASSUME NEW f, NEW s, Order(s, f), Commit(s)
  PROVE  Order(Now', f)
  BY DEF Commit, Now, Order

LEMMA ReadyOrder ==
  ASSUME NEW f \in Entity, NEW s, NEW gs, Good(s), CommitAndCheckReady(s, gs),
         "connected" \notin FreezeTimeout, Order(s, f)
  PROVE  Order(Now', f)
  <1> DEFINE ps == <<[type |-> "ready"]>>
             out == ToAllExcept(None, ps)
             t == Dispatch(s, out)
  <1>1. ps \in Seq(NoCall)
    <2>1. [type |-> "ready"] \in NoCall
      BY DEF Packet, NoCall
    <2> QED BY <2>1
  <1>2. Commit(t) \/ Commit(s)
    BY DEF CommitAndCheckReady
  <1> HIDE DEF ps
  <1>3. out \in [Game -> Seq(NoCall)]
    BY <1>1, ToFrom
  <1> HIDE DEF out
  <1>4. Order(t, f)
    BY <1>3, QuietOrder
  <1> HIDE DEF t
  <1> QED BY <1>2, <1>4, NowOrder

LEMMA ReadyGood ==
  ASSUME NEW s, NEW gs, Good(s), ready \in BOOLEAN, CommitAndCheckReady(s, gs)
  PROVE  /\ Good(Now)' /\ id' = s.id /\ ready' \in BOOLEAN /\ Proxies(Now)' = Proxies(s)
         /\ \A T : Routine(T) /\ From(T, s) => From(T, Now')
  <1> DEFINE ps == <<[type |-> "ready"]>>
             t == Dispatch(s, ToAllExcept(None, ps))
  <1>1. /\ Good(t) /\ t.id = s.id /\ Proxies(t) = Proxies(s)
        /\ \A T : Routine(T) /\ From(T, s) => From(T, t)
    <2>1. [type |-> "ready"] \in Packet
      BY DEF Packet
    <2>2. ps \in Seq(Packet) /\ \A T : Routine(T) => ps \in Seq(T)
      BY <2>1 DEF Routine
    <2> HIDE DEF ps
    <2>3. ToAllExcept(None, ps) \in [Game -> Seq(Packet)]
      BY <2>2, ToTyped
    <2>4. Good(t) /\ t.id = s.id /\ Proxies(t) = Proxies(s)
      BY <2>3, DispatchGood
    <2>5. ASSUME NEW T, Routine(T), From(T, s) PROVE From(T, t)
      BY <2>2, <2>5, ToFrom, DispatchFrom
    <2> QED BY <2>4, <2>5
  <1> HIDE DEF t
  <1>2. \/ ready' = TRUE /\ Commit(t)
        \/ ready' = ready /\ Commit(s)
    BY DEF CommitAndCheckReady, t
  <1>3. Good(Now)' /\ id' = s.id /\ ready' \in BOOLEAN /\ Proxies(Now)' = Proxies(s)
    BY <1>1, <1>2, NowGood
  <1>4. ASSUME NEW T, Routine(T), From(T, s) PROVE From(T, Now')
    BY <1>1, <1>2, <1>4, NowFrom
  <1> QED BY <1>3, <1>4

\* A step that only changes the routing, and no identity.
LEMMA RoutingStep ==
  ASSUME Inv, NEW s, Good(s), s.id = id, Proxies(s) = Proxies(Now), Commit(s),
         UNCHANGED <<gates, link, ready>>, syncs' \subseteq Game \cup {None}, msgs' \in Nat
  PROVE  Inv' /\ Connected /\ (Carried(s) => Carries) /\ (Ordered(s) => Orders)
  <1>1. Inv'
    BY NowGood DEF Inv
  <1>2. Proxies(Now)' = Proxies(Now)
    BY NowGood
  <1>3. Now'.gdi = gdi' /\ Now.gdi = gdi
    BY DEF Now
  <1>4. \A g \in Game : gdi'[g].clientProxy = gdi[g].clientProxy
    BY <1>2, <1>3 DEF Proxies
  <1>5. Carried(s) => Carries
    BY NowFrom DEF Carried, Carries
  <1>6. Ordered(s) => Orders
    BY NowOrder DEF Ordered, Orders
  <1> QED BY <1>1, <1>4, <1>5, <1>6 DEF Connected

LEMMA HandlingMsgs ==
  ASSUME Inv, NEW c, Handling(c)
  PROVE  msgs' \in Nat /\ msgs' = msgs + 1
  BY DEF Inv, Handling

LEMMA NowTyped ==
  ASSUME Inv
  PROVE  /\ Now.edi = edi /\ Now.gdi = gdi /\ Now.id = id /\ Now.wire = wire
         /\ edi \in [Entity -> EntityInfo] /\ gdi \in [Game -> GameInfo]
         /\ id \in [Conn -> Game \cup Gate \cup {None}]
         /\ wire \in [Conn -> Seq(Packet)]
  BY DEF Inv, Good, Snapshot, Now

LEMMA GateDisconnectedGood ==
  ASSUME NEW s, NEW c \in Conn, s.id[c] \in Gate, Good(s)
  PROVE  LET t == GateDisconnected(s, c)
         IN Good(t) /\ t.id = s.id /\ Proxies(t) = Proxies(s)
  <1> DEFINE out == ToAllExcept(None, <<[type |-> "gateDown", gate |-> s.id[c]]>>)
  <1>1. <<[type |-> "gateDown", gate |-> s.id[c]]>> \in Seq(Packet)
    BY DEF Packet
  <1>2. out \in [Game -> Seq(Packet)]
    BY <1>1, ToTyped
  <1> HIDE DEF out
  <1>3. LET t == Dispatch(s, out)
        IN Good(t) /\ t.id = s.id /\ Proxies(t) = Proxies(s)
    BY <1>2, DispatchGood
  <1> QED BY <1>3 DEF GateDisconnected, out

\* A connection that had no identity gets one.
LEMMA NamedGood ==
  ASSUME Inv, NEW c \in Conn, NEW p \in Game \cup Gate, id[c] = None
  PROVE  LET s == Named(c, p)
         IN /\ Good(s) /\ s.id = [id EXCEPT ![c] = p] /\ s.gdi = gdi
            /\ s.id[c] = p
            /\ \A t \in Gate : gates[t] # None => gates[t] # c /\ s.id[gates[t]] = t
            /\ \A g \in Game : gdi[g].clientProxy # None =>
                 gdi[g].clientProxy # c /\ s.id[gdi[g].clientProxy] = g
  <1> DEFINE s == Named(c, p)
  <1>1. s = [edi |-> edi, gdi |-> gdi, id |-> [id EXCEPT ![c] = p], wire |-> wire]
    BY DEF Named, Now
  <1> HIDE DEF s
  <1>2. /\ s.edi = edi /\ s.gdi = gdi /\ s.wire = wire /\ s.id = [id EXCEPT ![c] = p]
        /\ s.id \in [Conn -> Game \cup Gate \cup {None}]
        /\ s.id[c] = p /\ \A d \in Conn \ {c} : s.id[d] = id[d]
    BY <1>1, NowTyped
  <1>3. Snapshot(s) /\ Entries(s) /\ Queues(s)
    BY <1>1, <1>2, NowTyped DEF Inv, Good, Snapshot, Entries, Queues, Now
  <1>4. \A t \in Gate : gates[t] # None => gates[t] # c /\ s.id[gates[t]] = t
    BY <1>2, NoneAssumption DEF Inv
  <1>5. ASSUME NEW g \in Game, gdi[g].clientProxy # None
        PROVE  /\ gdi[g].clientProxy # c /\ s.id[gdi[g].clientProxy] = g
               /\ gdi[g].known
    <2>1. gdi[g].known /\ id[gdi[g].clientProxy] = g
      BY <1>5, NowTyped DEF Inv, Good, Identified
    <2>2. gdi[g].clientProxy \in Conn
      BY <1>5, NowTyped DEF GameInfo
    <2> QED BY <1>2, <2>1, <2>2, NoneAssumption
  <1>6. Good(s)
    BY <1>2, <1>3, <1>5 DEF Good, Identified
  <1> QED BY <1>2, <1>4, <1>5, <1>6 DEF s

LEMMA NamedOrder ==
  ASSUME Inv, NEW c \in Conn, NEW p \in Game \cup Gate, id[c] = None,
         NEW f \in Entity, Order(Now, f)
  PROVE  Order(Named(c, p), f) /\ Fresh(Named(c, p), c, f)
  <1> DEFINE s == Named(c, p)
  <1>1. s = [edi |-> edi, gdi |-> gdi, id |-> [id EXCEPT ![c] = p], wire |-> wire]
    BY DEF Named, Now
  <1>2. \A g \in Game : gdi[g].clientProxy # None => gdi[g].clientProxy # c
    BY NamedGood
  <1> HIDE DEF s
  <1>3. /\ s.edi = edi /\ s.gdi = gdi /\ s.wire = wire
        /\ \A d \in Conn : s.id[d] = None => id[d] = None
    BY <1>1, NowTyped
  <1>4. Nos(wire[c], f) = {}
    BY NowTyped DEF Order
  <1>5. Order(s, f)
    BY <1>3, NowTyped DEF Order
  <1>6. Fresh(s, c, f)
    BY <1>2, <1>3, <1>4, NoneAssumption DEF Fresh
  <1> QED BY <1>5, <1>6 DEF s

LEMMA ClosedTyped ==
  ASSUME Inv, NEW c
  PROVE  Closed(c) \in [Conn -> {"unused", "open", "closed", "gone"}]
  BY DEF Inv, Closed

-----------------------------------------------------------------------------
(* One lemma per handler that does more than route one entity               *)

LEMMA SetGameIDKeeps ==
  ASSUME Inv, NEW c \in Conn, NEW g \in Game, NEW eids \in Seq(Entity),
         HandleSetGameID(c, g, eids)
  PROVE  Inv' /\ Connected /\ Carries /\ (IsInjective(eids) => Orders)
  <1> DEFINE old    == gdi[g].clientProxy
             named  == Named(c, g)
             freed  == IF old = None THEN named ELSE GameDisconnected(named, old)
             taken  == AdoptProxy(freed, c, g)
             routed == AdoptEntities(taken, g, eids)
             ack    == [type |-> "setGameIDAck", ready |-> ready,
                        online |-> {h \in Game : routed.gdi[h].clientProxy # None},
                        reject |-> Rejected(taken, g, eids)]
             acked  == SendPacket(routed, c, <<ack>>)
             told   == Dispatch(acked, ToAllExcept(g, <<[type |-> "gameUp", game |-> g]>>))
  <1>1. /\ id[c] = None /\ link' = Closed(old) /\ Handling(c)
        /\ CommitAndCheckReady(told, gates)
        /\ UNCHANGED <<gates, syncs>>
    BY DEF HandleSetGameID
  <1> HIDE DEF named, freed, taken, routed, acked, told
  <1>2. /\ Good(named) /\ named.id = [id EXCEPT ![c] = g] /\ named.gdi = gdi
        /\ named.id[c] = g
        /\ \A t \in Gate : gates[t] # None => named.id[gates[t]] = t
        /\ old # None => named.id[old] = g
    BY <1>1, NamedGood DEF named
  <1>3. /\ Good(freed) /\ freed.id = named.id
        /\ \A h \in Game \ {g} : freed.gdi[h].clientProxy = gdi[h].clientProxy
    <2>1. old # None => old \in Conn
      BY NowTyped DEF GameInfo
    <2> HIDE DEF old
    <2>2. CASE old = None
      BY <1>2, <2>2 DEF freed
    <2>3. CASE old # None
      <3>1. old \in Conn /\ named.id[old] = g /\ freed = GameDisconnected(named, old)
        BY <1>2, <2>1, <2>3 DEF old, freed
      <3>2. named.id[old] \in Game
        BY <3>1
      <3> HIDE DEF old
      <3>3. LET t == GameDisconnected(named, old)
            IN /\ Good(t) /\ t.id = named.id
               /\ \A h \in Game : h # named.id[old] =>
                    t.gdi[h].clientProxy = named.gdi[h].clientProxy
        BY <1>2, <3>1, <3>2, GameDisconnectedGood
      <3> QED BY <1>2, <3>1, <3>3
    <2> QED BY <2>2, <2>3
  <1>4. /\ Good(taken) /\ taken.id = named.id
        /\ taken.gdi[g].clientProxy = c
        /\ \A h \in Game \ {g} : taken.gdi[h] = freed.gdi[h]
    <2>1. freed.id[c] = g
      BY <1>2, <1>3
    <2> HIDE DEF old
    <2>2. LET t == AdoptProxy(freed, c, g)
          IN /\ Good(t) /\ t.id = freed.id
             /\ t.gdi[g].clientProxy = c
             /\ \A h \in Game \ {g} : t.gdi[h] = freed.gdi[h]
      BY <1>3, <2>1, AdoptProxyGood
    <2> QED BY <1>3, <2>2 DEF taken
  <1>5. Good(routed) /\ routed.id = named.id /\ Proxies(routed) = Proxies(taken)
    BY <1>4, AdoptEntitiesGood DEF routed
  <1>6. Good(acked) /\ acked.id = named.id /\ acked.gdi = routed.gdi
    <2>1. Rejected(taken, g, eids) \in SUBSET Entity
      BY DEF Rejected, ToSet
    <2>2. ack \in Packet
      BY <2>1 DEF Packet, Inv
    <2>3. <<ack>> \in Seq(Packet)
      BY <2>2
    <2> HIDE DEF ack
    <2> QED BY <1>5, <2>3, SendPacketGood DEF acked
  <1>7. Good(told) /\ told.id = named.id /\ Proxies(told) = Proxies(acked)
    <2>1. <<[type |-> "gameUp", game |-> g]>> \in Seq(Packet)
      BY DEF Packet
    <2> QED BY <1>6, <2>1, ToTyped, DispatchGood DEF told
  <1>8. /\ Good(Now)' /\ id' = named.id /\ ready' \in BOOLEAN
        /\ Proxies(Now)' = Proxies(told)
    BY <1>1, <1>7, ReadyGood DEF Inv
  <1>9. msgs' \in Nat /\ link' \in [Conn -> {"unused", "open", "closed", "gone"}]
    BY <1>1, HandlingMsgs, ClosedTyped
  <1>10. Inv'
    BY <1>1, <1>2, <1>8, <1>9 DEF Inv
  <1>11. \A h \in Game : gdi'[h].clientProxy = taken.gdi[h].clientProxy
    <2>1. Proxies(Now)' = Proxies(taken) /\ Now'.gdi = gdi'
      BY <1>5, <1>6, <1>7, <1>8 DEF Proxies, Now
    <2> QED BY <2>1 DEF Proxies
  <1>12. Connected
    <2>1. gdi'[g].clientProxy = c /\ link[c] # "unused" /\ c # None
      BY <1>1, <1>4, <1>11, NoneAssumption DEF Handling
    <2>2. \A h \in Game : h # g => gdi'[h].clientProxy = gdi[h].clientProxy
      BY <1>3, <1>4, <1>11
    <2> QED BY <2>1, <2>2 DEF Connected
  <1>13. ASSUME NEW T, Routine(T), From(T, Now) PROVE From(T, Now')
    <2>1. From(T, named)
      BY <1>13 DEF named, Named, Now, From
    <2>2. From(T, freed)
      <3>1. CASE old = None
        BY <2>1, <3>1 DEF freed
      <3>2. CASE old # None
        <4>1. old \in Conn
          BY <3>2, NowTyped DEF GameInfo
        <4> HIDE DEF old
        <4>2. From(T, GameDisconnected(named, old))
          BY <1>2, <1>13, <2>1, <3>2, <4>1, GameDisconnectedFrom
        <4> QED BY <3>2, <4>2 DEF freed
      <3> QED BY <3>1, <3>2
    <2>3. From(T, taken)
      <3>1. freed.id[c] = g
        BY <1>2, <1>3
      <3> HIDE DEF old
      <3> QED BY <1>3, <2>2, <3>1, AdoptProxyGood DEF taken
    <2>4. From(T, routed)
      BY <1>4, <1>13, <2>3, AdoptEntitiesGood DEF routed
    <2>5. From(T, acked)
      <3>1. Rejected(taken, g, eids) \in SUBSET Entity
        BY DEF Rejected, ToSet
      <3>2. ack \in Packet /\ ack.type # "call"
        BY <3>1 DEF Packet, Inv
      <3> HIDE DEF ack
      <3>3. <<ack>> \in Seq(T)
        BY <1>13, <3>2 DEF Routine
      <3> QED BY <1>5, <2>4, <3>3, SendPacketFrom DEF acked
    <2>6. From(T, told)
      <3> DEFINE ps == <<[type |-> "gameUp", game |-> g]>>
      <3>1. ps \in Seq(T)
        BY <1>13 DEF Packet, Routine
      <3>2. told = Dispatch(acked, ToAllExcept(g, ps))
        BY DEF told
      <3> HIDE DEF ps
      <3> QED BY <1>6, <1>13, <2>5, <3>1, <3>2, ToFrom, DispatchFrom
    <2> QED BY <1>1, <1>7, <1>13, <2>6, ReadyGood DEF Inv
  <1>14. ASSUME IsInjective(eids), NEW f \in Entity, "connected" \notin FreezeTimeout,
                Order(Now, f)
         PROVE  Order(Now', f)
    <2>1. Order(named, f) /\ Fresh(named, c, f)
      BY <1>1, <1>14, NamedOrder DEF named
    <2>2. Order(freed, f) /\ Fresh(freed, c, f)
      <3>1. CASE old = None
        BY <2>1, <3>1 DEF freed
      <3>2. CASE old # None
        <4>1. old \in Conn
          BY <3>2, NowTyped DEF GameInfo
        <4> HIDE DEF old
        <4>2. named.id[old] \in Game
          BY <1>2, <3>2
        <4>3. LET t == GameDisconnected(named, old)
              IN Order(t, f) /\ \A d \in Conn : Fresh(named, d, f) => Fresh(t, d, f)
          BY <1>2, <1>14, <2>1, <4>1, <4>2, GameDisconnectedOrder
        <4> QED BY <2>1, <3>2, <4>3 DEF freed
      <3> QED BY <3>1, <3>2
    <2>3. Order(taken, f)
      <3>1. freed.id[c] = g
        BY <1>2, <1>3
      <3> HIDE DEF old
      <3> QED BY <1>3, <1>14, <2>2, <3>1, AdoptProxyOrder DEF taken
    <2>4. Order(routed, f)
      BY <1>4, <1>14, <2>3, AdoptEntitiesOrder DEF routed
    <2>5. Order(acked, f)
      <3>1. Rejected(taken, g, eids) \in SUBSET Entity
        BY DEF Rejected, ToSet
      <3>2. ack \in NoCall
        BY <3>1 DEF Packet, NoCall, Inv
      <3> HIDE DEF ack
      <3>3. <<ack>> \in Seq(NoCall)
        BY <3>2
      <3> QED BY <1>5, <2>4, <3>3, SendQuietOrder DEF acked
    <2>6. Order(told, f)
      <3> DEFINE ps == <<[type |-> "gameUp", game |-> g]>>
                 out == ToAllExcept(g, ps)
      <3>1. ps \in Seq(NoCall)
        BY DEF Packet, NoCall
      <3>2. told = Dispatch(acked, out)
        BY DEF told
      <3> HIDE DEF ps
      <3>3. out \in [Game -> Seq(NoCall)]
        BY <3>1, ToFrom
      <3> HIDE DEF out
      <3> QED BY <1>6, <1>14, <2>5, <3>2, <3>3, QuietOrder
    <2> QED BY <1>1, <1>7, <1>14, <2>6, ReadyOrder
  <1> QED BY <1>10, <1>12, <1>13, <1>14 DEF Carries, Orders

LEMMA SetGateIDKeeps ==
  ASSUME Inv, NEW c \in Conn, NEW t \in Gate, HandleSetGateID(c, t)
  PROVE  Inv' /\ Connected /\ Carries /\ Orders
  <1> DEFINE old   == gates[t]
             named == Named(c, t)
             freed == IF old = None THEN named ELSE GateDisconnected(named, old)
  <1>1. /\ id[c] = None /\ link' = Closed(old) /\ Handling(c)
        /\ gates' = [gates EXCEPT ![t] = c]
        /\ CommitAndCheckReady(freed, gates')
        /\ UNCHANGED syncs
    BY DEF HandleSetGateID
  <1> HIDE DEF named, freed
  <1>2. /\ Good(named) /\ named.id[c] = t /\ named.gdi = gdi
        /\ \A u \in Gate : gates[u] # None => named.id[gates[u]] = u
    <2>1. t \in Game \cup Gate /\ id[c] = None
      BY <1>1
    <2> DEFINE s == Named(c, t)
    <2>2. /\ Good(s) /\ s.id = [id EXCEPT ![c] = t] /\ s.gdi = gdi
          /\ s.id[c] = t
          /\ \A u \in Gate : gates[u] # None => gates[u] # c /\ s.id[gates[u]] = u
          /\ \A g \in Game : gdi[g].clientProxy # None =>
               gdi[g].clientProxy # c /\ s.id[gdi[g].clientProxy] = g
      BY ONLY Inv, c \in Conn, <2>1, NamedGood
    <2> QED BY <2>2 DEF named
  <1>3. Good(freed) /\ freed.id = named.id /\ Proxies(freed) = Proxies(named)
    <2>1. old # None => old \in Conn
      BY DEF Inv
    <2> QED BY <1>2, <2>1, GateDisconnectedGood DEF freed
  <1>4. /\ Good(Now)' /\ id' = named.id /\ ready' \in BOOLEAN
        /\ Proxies(Now)' = Proxies(named)
    BY <1>1, <1>3, ReadyGood DEF Inv
  <1>5. msgs' \in Nat /\ link' \in [Conn -> {"unused", "open", "closed", "gone"}]
    BY <1>1, HandlingMsgs, ClosedTyped
  <1>6. /\ gates' \in [Gate -> Conn \cup {None}]
        /\ \A u \in Gate : gates'[u] # None => id'[gates'[u]] = u
    BY <1>1, <1>2, <1>4 DEF Inv
  <1>7. Inv'
    BY <1>1, <1>4, <1>5, <1>6 DEF Inv
  <1>8. Connected
    <2>1. Proxies(Now)' = Proxies(named) /\ Now'.gdi = gdi'
      BY <1>4 DEF Now
    <2> QED BY <1>2, <2>1 DEF Proxies, Connected
  <1>9. ASSUME NEW T, Routine(T), From(T, Now) PROVE From(T, Now')
    <2>1. From(T, named)
      BY <1>9 DEF named, Named, Now, From
    <2>2. From(T, freed)
      <3>1. old # None => old \in Conn
        BY DEF Inv
      <3> QED BY <1>2, <1>9, <2>1, <3>1, GateDisconnectedFrom DEF freed
    <2> QED BY <1>1, <1>3, <1>9, <2>2, ReadyGood DEF Inv
  <1>10. ASSUME NEW f \in Entity, "connected" \notin FreezeTimeout, Order(Now, f)
         PROVE  Order(Now', f)
    <2>1. Order(named, f)
      <3>1. t \in Game \cup Gate /\ id[c] = None
        BY <1>1
      <3>2. Order(Named(c, t), f)
        BY ONLY Inv, c \in Conn, f \in Entity, <1>10, <3>1, NamedOrder
      <3> QED BY <3>2 DEF named
    <2>2. Order(freed, f)
      <3>1. old # None => old \in Conn
        BY DEF Inv
      <3> QED BY <1>2, <1>10, <2>1, <3>1, GateDisconnectedOrder DEF freed
    <2> QED BY <1>1, <1>3, <1>10, <2>2, ReadyOrder
  <1> QED BY <1>7, <1>8, <1>9, <1>10 DEF Carries, Orders

\* The disconnect of c costs a game its connection only by running
\* handleGameDisconnected for the game c was identified as.
LEMMA DisconnectKeeps ==
  ASSUME Inv, NEW c \in Conn, HandleDispatcherClientDisconnect(c)
  PROVE  /\ Inv' /\ Carries /\ Orders
         /\ \/ Connected
            \/ id[c] \in Game /\ Commit(GameDisconnected(Now, c))
  <1>1. /\ link' \in [Conn -> {"unused", "open", "closed", "gone"}]
        /\ ready' = ready /\ syncs' = syncs /\ msgs' = msgs
    BY DEF HandleDispatcherClientDisconnect, Inv
  <1>2. Good(Now) /\ Now.id = id /\ Now.gdi = gdi /\ id[c] \in Game \cup Gate \cup {None}
    BY NowTyped DEF Inv
  <1>3. CASE /\ id[c] \in Gate
             /\ gates' = IF gates[id[c]] = c THEN [gates EXCEPT ![id[c]] = None] ELSE gates
             /\ Commit(GateDisconnected(Now, c))
    <2>1. Good(Now)' /\ id' = id /\ Proxies(Now)' = Proxies(Now)
      BY <1>2, <1>3, GateDisconnectedGood, NowGood
    <2>2. /\ gates' \in [Gate -> Conn \cup {None}]
          /\ \A u \in Gate : gates'[u] # None => id'[gates'[u]] = u
      BY <1>3, <2>1 DEF Inv
    <2>3. Inv'
      BY <1>1, <2>1, <2>2 DEF Inv
    <2>4. Now'.gdi = gdi'
      BY DEF Now
    <2>5. Connected
      BY <1>2, <2>1, <2>4 DEF Connected, Proxies
    <2>6. Carries
      BY <1>2, <1>3, GateDisconnectedFrom, NowFrom DEF Carries
    <2>7. Orders
      BY <1>2, <1>3, GateDisconnectedOrder, NowOrder DEF Orders
    <2> QED BY <2>3, <2>5, <2>6, <2>7
  <1>4. CASE /\ id[c] \in Game
             /\ Commit(GameDisconnected(Now, c))
             /\ gates' = gates
    <2>1. Good(Now)' /\ id' = id
      BY <1>2, <1>4, GameDisconnectedGood, NowGood
    <2>2. Carries
      BY <1>2, <1>4, GameDisconnectedFrom, NowFrom DEF Carries
    <2>3. Orders
      BY <1>2, <1>4, GameDisconnectedOrder, NowOrder DEF Orders
    <2> QED BY <1>1, <1>4, <2>1, <2>2, <2>3 DEF Inv
  <1>5. CASE UNCHANGED <<edi, gdi, gates, id, wire>>
    <2>1. Now' = Now
      BY <1>5 DEF Now
    <2>2. Inv'
      BY <1>1, <1>5, <2>1 DEF Inv
    <2>3. Connected /\ Carries /\ Orders
      BY <1>5, <2>1 DEF Connected, Carries, Orders
    <2> QED BY <2>2, <2>3
  <1> QED BY <1>3, <1>4, <1>5 DEF HandleDispatcherClientDisconnect

-----------------------------------------------------------------------------
(* The handlers that only route                                             *)

LEMMA NotifyCreateKeeps ==
  ASSUME Inv, NEW c \in Conn, NEW e \in Entity, HandleNotifyCreateEntity(c, e)
  PROVE  Inv' /\ Connected /\ Carries /\ Orders
  <1> DEFINE r == ForWrite(Now, e)
             s == [r EXCEPT !.edi[e].gameid = GameOf(c)]
  <1>1. /\ Handling(c) /\ Commit(Unblock(s, e))
        /\ UNCHANGED <<gates, link, ready, syncs>>
    BY DEF HandleNotifyCreateEntity
  <1> HIDE DEF r, s
  <1>2. Good(r) /\ r.id = id /\ r.gdi = gdi /\ r.edi[e].known
    BY ForWriteGood, NowTyped DEF r, Inv
  <1>3. GameOf(c) \in Game \cup {None}
    BY DEF GameOf
  <1>4. Good(s) /\ s.id = id /\ s.gdi = gdi
    BY <1>2, <1>3, RouteGood DEF s
  <1>5. /\ Good(Unblock(s, e)) /\ Unblock(s, e).id = id
        /\ Proxies(Unblock(s, e)) = Proxies(Now)
    BY <1>4, UnblockGood, NowTyped DEF Proxies
  <1>6. ASSUME NEW T, Routine(T), From(T, Now) PROVE From(T, Unblock(s, e))
    <2>1. From(T, r)
      BY <1>6, ForWriteFrom DEF r, Inv
    <2>2. From(T, s)
      BY <1>2, <2>1, RouteFrom DEF s
    <2> QED BY <1>4, <1>6, <2>2, UnblockFrom
  <1>7. Carried(Unblock(s, e))
    BY <1>6 DEF Carried
  <1>8. ASSUME NEW f \in Entity, "connected" \notin FreezeTimeout, Order(Now, f)
        PROVE  Order(Unblock(s, e), f)
    <2>1. Order(r, f)
      BY <1>8, ForWriteOrder DEF r, Inv
    <2>2. Order(s, f)
      BY <1>2, <2>1, RouteOrder DEF s
    <2> QED BY <1>4, <1>8, <2>2, UnblockOrder
  <1>9. Ordered(Unblock(s, e))
    BY <1>8 DEF Ordered
  <1> QED BY <1>1, <1>5, <1>7, <1>9, HandlingMsgs, RoutingStep DEF Inv

LEMMA NotifyDestroyKeeps ==
  ASSUME Inv, NEW c \in Conn, NEW e \in Entity, HandleNotifyDestroyEntity(c, e)
  PROVE  Inv' /\ Connected /\ Carries /\ Orders
  <1>1. /\ edi' = [edi EXCEPT ![e] = NoEntityInfo] /\ Handling(c)
        /\ UNCHANGED <<gdi, gates, id, link, wire, ready, syncs>>
    BY DEF HandleNotifyDestroyEntity
  <1>2. NoEntityInfo \in EntityInfo /\ Entry(NoEntityInfo)
    BY DEF NoEntityInfo, EntityInfo, BlockTime, Entry
  <1>3. Good(Now)'
    BY <1>1, <1>2, NowTyped
       DEF Inv, Good, Snapshot, Entries, Identified, Queues, Now
  <1>4. Carries
    <2>1. \A f \in Entity : edi'[f].pending \in {edi[f].pending, <<>>}
      BY <1>1, NowTyped DEF NoEntityInfo
    <2>2. Now'.edi = edi' /\ Now'.gdi = gdi /\ Now'.wire = wire
      BY <1>1 DEF Now
    <2>3. ASSUME NEW T, From(T, Now) PROVE From(T, Now')
      <3>1. <<>> \in Seq(T)
        OBVIOUS
      <3> QED BY <2>1, <2>2, <2>3, <3>1, NowTyped DEF From
    <2> QED BY <2>3 DEF Carries
  <1>5. Orders
    <2> DEFINE t == [Now EXCEPT !.edi[e] = NoEntityInfo]
    <2>1. t = Now'
      BY <1>1 DEF Now
    <2>2. NoEntityInfo.pending = <<>>
      BY DEF NoEntityInfo
    <2>3. ASSUME NEW f \in Entity, Order(Now, f) PROVE Order(t, f)
      BY <2>2, <2>3, EntityKeepsOrder DEF Inv
    <2> QED BY <2>1, <2>3 DEF Orders
  <1> QED BY <1>1, <1>3, <1>4, <1>5, HandlingMsgs DEF Inv, Connected

LEMMA LoadKeeps ==
  ASSUME Inv, NEW c \in Conn, NEW e \in Entity, NEW target,
         HandleLoadEntitySomewhere(c, e, target)
  PROVE  Inv' /\ Connected /\ Carries /\ Orders
  <1> DEFINE s == ForWrite(Now, e)
             r(g) == [s EXCEPT !.edi[e].gameid = g]
             b(g) == BlockRPC(r(g), e)
             out(g) == To(g, <<[type |-> "load", entity |-> e]>>)
  <1>1. /\ Handling(c) /\ UNCHANGED <<gates, link, ready, syncs>>
        /\ \/ \E g \in Game : Commit(Dispatch(b(g), out(g)))
           \/ Commit(s)
    BY DEF HandleLoadEntitySomewhere, Candidates
  <1> HIDE DEF s, r, b, out
  <1>2. /\ Good(s) /\ s.id = id /\ s.gdi = gdi /\ s.edi[e].known
        /\ Proxies(s) = Proxies(Now) /\ Carried(s) /\ Ordered(s)
    BY ForWriteGood, ForWriteFrom, ForWriteOrder, NowTyped
       DEF s, Inv, Proxies, Carried, Ordered
  <1>3. ASSUME NEW g \in Game
        PROVE  LET t == Dispatch(b(g), out(g))
               IN Good(t) /\ t.id = id /\ Proxies(t) = Proxies(Now) /\ Carried(t) /\ Ordered(t)
    <2>1. Good(r(g)) /\ r(g).id = id /\ r(g).gdi = gdi
      BY <1>2, RouteGood DEF r
    <2>2. Good(b(g)) /\ b(g).id = id /\ b(g).gdi = gdi
      BY <2>1, BlockRPCGood DEF b
    <2>3. <<[type |-> "load", entity |-> e]>> \in Seq(Packet)
      BY DEF Packet
    <2>4. out(g) \in [Game -> Seq(Packet)]
      BY <2>3, ToTyped DEF out
    <2>5. ASSUME NEW T, Routine(T), From(T, Now) PROVE From(T, Dispatch(b(g), out(g)))
      <3>1. From(T, b(g))
        BY <1>2, <2>1, <2>5, RouteFrom, BlockRPCFrom DEF Carried, r, b
      <3>2. <<[type |-> "load", entity |-> e]>> \in Seq(T)
        BY <2>5 DEF Packet, Routine
      <3>3. out(g) \in [Game -> Seq(T)]
        BY <3>2, ToFrom DEF out
      <3> QED BY <2>2, <2>5, <3>1, <3>3, DispatchFrom
    <2>6. ASSUME NEW f \in Entity, "connected" \notin FreezeTimeout, Order(Now, f)
          PROVE  Order(Dispatch(b(g), out(g)), f)
      <3>1. Order(b(g), f)
        BY <1>2, <2>1, <2>6, RouteOrder, BlockRPCOrder DEF Ordered, r, b
      <3>2. <<[type |-> "load", entity |-> e]>> \in Seq(NoCall)
        BY DEF Packet, NoCall
      <3>3. out(g) \in [Game -> Seq(NoCall)]
        BY <3>2, ToFrom DEF out
      <3> QED BY <2>2, <2>6, <3>1, <3>3, QuietOrder
    <2> QED BY <2>2, <2>4, <2>5, <2>6, DispatchGood, NowTyped DEF Proxies, Carried, Ordered
  <1>4. msgs' \in Nat /\ syncs' \subseteq Game \cup {None}
    BY <1>1, HandlingMsgs DEF Inv
  <1> QED BY <1>1, <1>2, <1>3, <1>4, RoutingStep

LEMMA CreateKeeps ==
  ASSUME Inv, NEW c \in Conn, NEW e \in Entity, NEW target,
         HandleCreateEntitySomewhere(c, e, target)
  PROVE  Inv' /\ Connected /\ Carries /\ Orders
  <1> DEFINE s == ForWrite(Now, e)
             r(g) == [s EXCEPT !.edi[e].gameid = g]
             out(g) == To(g, <<[type |-> "create", entity |-> e]>>)
  <1>1. /\ Handling(c) /\ UNCHANGED <<gates, link, ready, syncs>>
        /\ \/ \E g \in Game : Commit(Dispatch(r(g), out(g)))
           \/ Commit(Now)
    BY DEF HandleCreateEntitySomewhere, Candidates
  <1> HIDE DEF s, r, out
  <1>2. /\ Good(s) /\ s.id = id /\ s.gdi = gdi /\ s.edi[e].known
        /\ Proxies(s) = Proxies(Now) /\ Carried(s) /\ Ordered(s)
    BY ForWriteGood, ForWriteFrom, ForWriteOrder, NowTyped
       DEF s, Inv, Proxies, Carried, Ordered
  <1>3. ASSUME NEW g \in Game
        PROVE  LET t == Dispatch(r(g), out(g))
               IN Good(t) /\ t.id = id /\ Proxies(t) = Proxies(Now) /\ Carried(t) /\ Ordered(t)
    <2>1. Good(r(g)) /\ r(g).id = id /\ r(g).gdi = gdi
      BY <1>2, RouteGood DEF r
    <2>2. <<[type |-> "create", entity |-> e]>> \in Seq(Packet)
      BY DEF Packet
    <2>3. out(g) \in [Game -> Seq(Packet)]
      BY <2>2, ToTyped DEF out
    <2>4. ASSUME NEW T, Routine(T), From(T, Now) PROVE From(T, Dispatch(r(g), out(g)))
      <3>1. From(T, r(g))
        BY <1>2, <2>4, RouteFrom DEF Carried, r
      <3>2. <<[type |-> "create", entity |-> e]>> \in Seq(T)
        BY <2>4 DEF Packet, Routine
      <3>3. out(g) \in [Game -> Seq(T)]
        BY <3>2, ToFrom DEF out
      <3> QED BY <2>1, <2>4, <3>1, <3>3, DispatchFrom
    <2>5. ASSUME NEW f \in Entity, "connected" \notin FreezeTimeout, Order(Now, f)
          PROVE  Order(Dispatch(r(g), out(g)), f)
      <3>1. Order(r(g), f)
        BY <1>2, <2>5, RouteOrder DEF Ordered, r
      <3>2. <<[type |-> "create", entity |-> e]>> \in Seq(NoCall)
        BY DEF Packet, NoCall
      <3>3. out(g) \in [Game -> Seq(NoCall)]
        BY <3>2, ToFrom DEF out
      <3> QED BY <2>1, <2>5, <3>1, <3>3, QuietOrder
    <2> QED BY <2>1, <2>3, <2>4, <2>5, DispatchGood, NowTyped DEF Proxies, Carried, Ordered
  <1>4. /\ msgs' \in Nat /\ syncs' \subseteq Game \cup {None}
        /\ Good(Now) /\ Now.id = id /\ Carried(Now) /\ Ordered(Now)
    BY <1>1, HandlingMsgs, NowTyped DEF Inv, Carried, Ordered
  <1> QED BY <1>1, <1>3, <1>4, RoutingStep

LEMMA CallKeeps ==
  ASSUME Inv, NEW c \in Conn, NEW e \in Entity, HandleCallEntityMethod(c, e)
  PROVE  /\ Inv' /\ Connected
         /\ \A T : (/\ Routine(T) /\ From(T, Now)
                   /\ (edi[e].known => [type |-> "call", entity |-> e, no |-> msgs'] \in T))
                  => From(T, Now')
         /\ From(Upto(msgs), Now) => Orders
  <1> DEFINE p == [type |-> "call", entity |-> e, no |-> msgs']
             s == IF edi[e].known THEN DispatchToEntity(Now, e, p) ELSE Now
  <1>1. /\ Handling(c) /\ Commit(s) /\ UNCHANGED <<gates, link, ready, syncs>>
    BY DEF HandleCallEntityMethod
  <1>2. msgs' \in Nat /\ syncs' \subseteq Game \cup {None} /\ Good(Now) /\ Now.id = id
    BY <1>1, HandlingMsgs, NowTyped DEF Inv
  <1>3. p \in Packet
    BY <1>2 DEF Packet
  <1> HIDE DEF p
  <1>4. Good(s) /\ s.id = id /\ Proxies(s) = Proxies(Now)
    BY <1>2, <1>3, DispatchToEntityGood
  <1>5. ASSUME NEW T, Routine(T), From(T, Now), edi[e].known => p \in T
        PROVE  From(T, Now')
    <2>1. From(T, s)
      BY <1>2, <1>5, DispatchToEntityFrom
    <2> HIDE DEF s
    <2> QED BY <1>1, <2>1, NowFrom
  <1>6. Inv' /\ Connected
    <2> HIDE DEF s
    <2> QED BY <1>1, <1>2, <1>4, RoutingStep
  <1>7. ASSUME From(Upto(msgs), Now), NEW f \in Entity, "connected" \notin FreezeTimeout,
               Order(Now, f)
        PROVE  Order(Now', f)
    <2>1. p = [type |-> "call", entity |-> e, no |-> msgs + 1] /\ msgs \in Nat
      BY <1>1, HandlingMsgs DEF p, Inv
    <2>2. Order(s, f)
      BY <1>2, <1>7, <2>1, DispatchToEntityOrder
    <2> HIDE DEF s
    <2> QED BY <1>1, <2>2, NowOrder
  <1> QED BY <1>5, <1>6, <1>7 DEF p, Orders

\* Everything that goes out as one packet to some games.
LEMMA SpreadKeeps ==
  ASSUME Inv, NEW out \in [Game -> Seq(Packet)], Commit(Dispatch(Now, out)),
         UNCHANGED <<gates, link, ready>>,
         syncs' \subseteq Game \cup {None}, msgs' \in Nat,
         \A T : Routine(T) => out \in [Game -> Seq(T)]
  PROVE  Inv' /\ Connected /\ Carries /\ Orders
  <1>1. LET t == Dispatch(Now, out)
        IN Good(t) /\ t.id = id /\ Proxies(t) = Proxies(Now) /\ Carried(t) /\ Ordered(t)
    <2>1. Routine(NoCall)
      BY DEF Routine, NoCall
    <2>2. Ordered(Dispatch(Now, out))
      BY <2>1, QuietOrder DEF Inv, Ordered
    <2> QED BY <2>2, DispatchGood, DispatchFrom, NowTyped DEF Inv, Carried
  <1> QED BY <1>1, RoutingStep

LEMMA NilSpacesKeeps ==
  ASSUME Inv, NEW c \in Conn, NEW x, HandleCallNilSpaces(c, x)
  PROVE  Inv' /\ Connected /\ Carries /\ Orders
  <1> DEFINE out == ToAllExcept(x, <<[type |-> "nilSpaces"]>>)
  <1>1. <<[type |-> "nilSpaces"]>> \in Seq(Packet)
    BY DEF Packet
  <1>2. out \in [Game -> Seq(Packet)]
    BY <1>1, ToTyped
  <1>3. /\ Handling(c) /\ Commit(Dispatch(Now, out))
        /\ UNCHANGED <<gates, link, ready, syncs>>
    BY DEF HandleCallNilSpaces
  <1>4. ASSUME NEW T, Routine(T) PROVE out \in [Game -> Seq(T)]
    <2>1. <<[type |-> "nilSpaces"]>> \in Seq(T)
      BY <1>4 DEF Packet, Routine
    <2> QED BY <2>1, ToFrom
  <1> HIDE DEF out
  <1> QED BY <1>2, <1>3, <1>4, HandlingMsgs, SpreadKeeps DEF Inv

LEMMA ClientConnectedKeeps ==
  ASSUME Inv, NEW c \in Conn, HandleNotifyClientConnected(c)
  PROVE  Inv' /\ Connected /\ Carries /\ Orders
  <1> DEFINE out(g) == To(g, <<[type |-> "clientConnected"]>>)
  <1>1. <<[type |-> "clientConnected"]>> \in Seq(Packet)
    BY DEF Packet
  <1>2. \A g \in Game : out(g) \in [Game -> Seq(Packet)]
    BY <1>1, ToTyped
  <1>3. /\ Handling(c) /\ UNCHANGED <<gates, link, ready, syncs>>
        /\ \/ \E g \in Game : Commit(Dispatch(Now, out(g)))
           \/ Commit(Now)
    BY DEF HandleNotifyClientConnected
  <1>7. ASSUME NEW T, Routine(T), NEW g \in Game PROVE out(g) \in [Game -> Seq(T)]
    <2>1. <<[type |-> "clientConnected"]>> \in Seq(T)
      BY <1>7 DEF Packet, Routine
    <2> QED BY <2>1, ToFrom
  <1> HIDE DEF out
  <1>4. /\ msgs' \in Nat /\ syncs' \subseteq Game \cup {None}
        /\ UNCHANGED <<gates, link, ready>> /\ Good(Now) /\ Now.id = id
    BY <1>3, HandlingMsgs, NowTyped DEF Inv
  <1>5. CASE Commit(Now)
    BY <1>4, <1>5, RoutingStep DEF Carried, Ordered
  <1>6. CASE \E g \in Game : Commit(Dispatch(Now, out(g)))
    BY <1>2, <1>4, <1>6, <1>7, SpreadKeeps
  <1> QED BY <1>3, <1>5, <1>6

LEMMA QuerySpaceKeeps ==
  ASSUME Inv, NEW c \in Conn, NEW e \in Entity, NEW space \in Entity,
         HandleQuerySpaceGameIDForMigrate(c, e, space)
  PROVE  Inv' /\ Connected /\ Carries /\ Orders
  <1> DEFINE ps == <<[type |-> "spaceGame", entity |-> e, space |-> space,
                      game |-> edi[space].gameid]>>
             s == SendPacket(Now, c, ps)
  <1>1. /\ Handling(c) /\ Commit(s) /\ UNCHANGED <<gates, link, ready, syncs>>
    BY DEF HandleQuerySpaceGameIDForMigrate
  <1>3. ps \in Seq(Packet)
    <2>1. edi[space].gameid \in Game \cup {None}
      BY NowTyped DEF EntityInfo
    <2> QED BY <2>1 DEF Packet
  <1>4. ASSUME NEW T, Routine(T) PROVE ps \in Seq(T)
    <2>1. edi[space].gameid \in Game \cup {None}
      BY NowTyped DEF EntityInfo
    <2> QED BY <1>4, <2>1 DEF Packet, Routine
  <1> HIDE DEF ps
  <1>2. Good(s) /\ s.id = id /\ Proxies(s) = Proxies(Now)
    BY <1>3, SendPacketGood, NowTyped DEF Inv, Proxies
  <1>5. Carried(s)
    BY <1>4, SendPacketFrom DEF Carried, Inv
  <1>6. Ordered(s)
    <2>1. Routine(NoCall)
      BY DEF Routine, NoCall
    <2>2. ps \in Seq(NoCall)
      BY <1>4, <2>1
    <2> QED BY <2>2, SendQuietOrder DEF Ordered, Inv
  <1> HIDE DEF s
  <1> QED BY <1>1, <1>2, <1>5, <1>6, HandlingMsgs, RoutingStep DEF Inv

LEMMA MigrateRequestKeeps ==
  ASSUME Inv, NEW c \in Conn, NEW e \in Entity, NEW space \in Entity,
         NEW target \in Game \cup {None},
         HandleMigrateRequest(c, e, space, target)
  PROVE  Inv' /\ Connected /\ Carries /\ Orders
  <1> DEFINE ps == <<[type |-> "migrateAck", entity |-> e, space |-> space, game |-> target]>>
             r == ForWrite(Now, e)
             b == BlockRPC(r, e)
             s == SendPacket(b, c, ps)
  <1>1. /\ Handling(c) /\ Commit(s) /\ UNCHANGED <<gates, link, ready, syncs>>
    BY DEF HandleMigrateRequest
  <1>5. ps \in Seq(Packet)
    BY DEF Packet
  <1>6. ASSUME NEW T, Routine(T) PROVE ps \in Seq(T)
    BY <1>6 DEF Packet, Routine
  <1> HIDE DEF ps, r, b
  <1>2. Good(r) /\ r.id = id /\ r.gdi = gdi
    BY ForWriteGood, NowTyped DEF Inv, r
  <1>3. Good(b) /\ b.id = id /\ b.gdi = gdi
    BY <1>2, BlockRPCGood DEF b
  <1>4. Good(s) /\ s.id = id /\ Proxies(s) = Proxies(Now)
    BY <1>3, <1>5, SendPacketGood, NowTyped DEF Proxies
  <1>7. ASSUME NEW T, Routine(T), From(T, Now) PROVE From(T, s)
    <2>1. From(T, r)
      BY <1>7, ForWriteFrom DEF r, Inv
    <2>2. From(T, b)
      BY <1>2, <2>1, BlockRPCFrom DEF b
    <2> QED BY <1>3, <1>6, <1>7, <2>2, SendPacketFrom
  <1>8. Carried(s)
    BY <1>7 DEF Carried
  <1>9. ASSUME NEW f \in Entity, Order(Now, f) PROVE Order(s, f)
    <2>1. Routine(NoCall)
      BY DEF Routine, NoCall
    <2>2. ps \in Seq(NoCall)
      BY <1>6, <2>1
    <2>3. Order(r, f)
      BY <1>9, ForWriteOrder DEF r, Inv
    <2>4. Order(b, f)
      BY <1>2, <2>3, BlockRPCOrder DEF b
    <2> QED BY <1>3, <2>2, <2>4, SendQuietOrder
  <1>10. Ordered(s)
    BY <1>9 DEF Ordered
  <1> HIDE DEF s
  <1> QED BY <1>1, <1>4, <1>8, <1>10, HandlingMsgs, RoutingStep DEF Inv

LEMMA CancelMigrateKeeps ==
  ASSUME Inv, NEW c \in Conn, NEW e \in Entity, HandleCancelMigrate(c, e)
  PROVE  Inv' /\ Connected /\ Carries /\ Orders
  <1> DEFINE s == IF edi[e].known THEN Unblock(Now, e) ELSE Now
  <1>1. /\ Handling(c) /\ Commit(s) /\ UNCHANGED <<gates, link, ready, syncs>>
    BY DEF HandleCancelMigrate
  <1>2. Good(s) /\ s.id = id /\ Proxies(s) = Proxies(Now)
    BY UnblockGood, NowTyped DEF Inv
  <1>3. Carried(s)
    BY UnblockFrom DEF Carried, Inv
  <1>4. Ordered(s)
    BY UnblockOrder DEF Ordered, Inv
  <1> HIDE DEF s
  <1> QED BY <1>1, <1>2, <1>3, <1>4, HandlingMsgs, RoutingStep DEF Inv

LEMMA RealMigrateKeeps ==
  ASSUME Inv, NEW c \in Conn, NEW e \in Entity, NEW target \in Game \cup {None},
         HandleRealMigrate(c, e, target)
  PROVE  Inv' /\ Connected /\ Carries /\ Orders
  <1> DEFINE r == ForWrite(Now, e)
             i == [Released(r.edi[e]) EXCEPT !.gameid = target]
             s == [r EXCEPT !.edi[e] = i]
             ps == <<[type |-> "realMigrate", entity |-> e]>> \o edi[e].pending
  <1>1. /\ Handling(c) /\ Commit(Dispatch(s, To(target, ps)))
        /\ UNCHANGED <<gates, link, ready, syncs>>
    BY DEF HandleRealMigrate
  <1>2. ps \in Seq(Packet)
    <2>1. [type |-> "realMigrate", entity |-> e] \in Packet
      BY DEF Packet
    <2>2. edi[e].pending \in Seq(Packet)
      BY NowTyped DEF EntityInfo
    <2> QED BY <2>1, <2>2
  <1>7. ASSUME NEW T, Routine(T), From(T, Now) PROVE ps \in Seq(T)
    <2>1. [type |-> "realMigrate", entity |-> e] \in T
      BY <1>7 DEF Packet, Routine
    <2>2. edi[e].pending \in Seq(T)
      BY <1>7, NowTyped DEF From
    <2> QED BY <2>1, <2>2
  <1>11. ASSUME NEW f \in Entity, Order(Now, f)
         PROVE  Rising(ps, f) /\ Nos(ps, f) = Nos(edi[e].pending, f)
    <2>1. <<[type |-> "realMigrate", entity |-> e]>> \in Seq(NoCall)
      BY DEF Packet, NoCall
    <2>2. PICK h : h = <<[type |-> "realMigrate", entity |-> e]>>
      OBVIOUS
    <2>3. h \in Seq(Packet) /\ Rising(h, f) /\ Nos(h, f) = {}
      BY <2>1, <2>2, NosCallless DEF Callless, NoCall
    <2>4. edi[e].pending \in Seq(Packet) /\ Rising(edi[e].pending, f)
      <3>1. Now.edi = edi /\ edi[e].pending \in Seq(Packet)
        BY NowTyped DEF EntityInfo
      <3>2. CASE e = f
        BY <1>11, <3>1, <3>2 DEF Order
      <3>3. CASE e # f
        <4>1. Nos(edi[e].pending, f) = {}
          BY <1>11, <3>1, <3>3 DEF Order
        <4> QED BY <3>1, <4>1 DEF Nos, Rising
      <3> QED BY <3>2, <3>3
    <2>5. Behind(Nos(h, f), Nos(edi[e].pending, f))
      BY <2>3 DEF Behind
    <2>6. PICK d : d = edi[e].pending
      OBVIOUS
    <2>7. d \in Seq(Packet) /\ Rising(d, f) /\ Behind(Nos(h, f), Nos(d, f))
      BY <2>4, <2>5, <2>6
    <2>8. Rising(h \o d, f) /\ Nos(h \o d, f) = Nos(h, f) \cup Nos(d, f)
      BY <2>3, <2>7, NosConcat
    <2>9. ps = h \o d
      BY <2>2, <2>6
    <2> HIDE DEF ps
    <2> QED BY <2>3, <2>6, <2>8, <2>9
  <1> HIDE DEF ps, r
  <1>3. /\ Good(r) /\ r.id = id /\ r.gdi = gdi
        /\ r.edi[e] \in EntityInfo /\ r.edi[e].known
    BY ForWriteGood, NowTyped DEF Inv, r
  <1>4. i \in EntityInfo /\ Entry(i)
    <2>1. /\ Released(r.edi[e]) \in EntityInfo /\ Released(r.edi[e]).pending = <<>>
          /\ Released(r.edi[e]).known
      BY <1>3, ReleasedTyped
    <2> QED BY <2>1 DEF EntityInfo, Entry
  <1>8. i.pending = <<>>
    BY <1>3, ReleasedTyped DEF EntityInfo
  <1> HIDE DEF i
  <1>5. Good(s) /\ s.id = id /\ s.gdi = gdi
    BY <1>3, <1>4, EntityUpdate
  <1>9. ASSUME NEW T, Routine(T), From(T, Now) PROVE From(T, s)
    <2>1. From(T, r)
      BY <1>9, ForWriteFrom DEF r, Inv
    <2>2. <<>> \in Seq(T)
      OBVIOUS
    <2> QED BY <1>3, <1>8, <2>1, <2>2, EntityFrom
  <1>12. ASSUME NEW f \in Entity, Order(Now, f)
         PROVE  Order(s, f) /\ Fits(s, To(target, ps), f)
    <2>1. Order(r, f)
      BY <1>12, ForWriteOrder DEF r, Inv
    <2>2. r.edi[e].pending = edi[e].pending
      <3>1. r.edi = [edi EXCEPT ![e].known = TRUE]
        BY DEF r, ForWrite, Now
      <3>2. edi[e] \in EntityInfo /\ e \in DOMAIN edi
        BY NowTyped
      <3> QED BY <3>1, <3>2 DEF EntityInfo
    <2>3. Rising(ps, f) /\ Nos(ps, f) = Nos(r.edi[e].pending, f)
      BY <1>11, <1>12, <2>2
    <2> QED BY <1>2, <1>3, <1>8, <2>1, <2>3, ReleasedFits
  <1> HIDE DEF s
  <1>6. LET u == Dispatch(s, To(target, ps))
        IN Good(u) /\ u.id = id /\ Proxies(u) = Proxies(Now)
    BY <1>2, <1>5, ToTyped, DispatchGood, NowTyped DEF Proxies
  <1>10. Carried(Dispatch(s, To(target, ps)))
    BY <1>5, <1>7, <1>9, ToFrom, DispatchFrom DEF Carried
  <1>13. Ordered(Dispatch(s, To(target, ps)))
    BY <1>2, <1>5, <1>12, ToTyped, DispatchOrder DEF Ordered
  <1> QED BY <1>1, <1>6, <1>10, <1>13, HandlingMsgs, RoutingStep DEF Inv

LEMMA StartFreezeKeeps ==
  ASSUME Inv, NEW c \in Conn, HandleStartFreezeGame(c)
  PROVE  Inv' /\ Connected /\ Carries /\ Orders
  <1> DEFINE g == id[c]
             i == [gdi[g] EXCEPT !.isBlocked = TRUE, !.blockUntil = "future"]
             r == [Now EXCEPT !.gdi[g] = i]
             s == IF g \notin Game THEN Now ELSE SendPacket(r, c, <<[type |-> "freezeAck"]>>)
  <1>1. /\ Handling(c) /\ Commit(s) /\ UNCHANGED <<gates, link, ready, syncs>>
    BY NowTyped DEF HandleStartFreezeGame
  <1>2. ASSUME g \in Game
        PROVE  Good(r) /\ r.id = id /\ Proxies(r) = Proxies(Now) /\ Carried(r) /\ Ordered(r)
    <2>1. gdi[g] \in GameInfo /\ ("connected" \in FreezeTimeout \/ Queue(gdi[g]))
      BY <1>2, NowTyped DEF Inv, Good, Queues
    <2>2. /\ i \in GameInfo /\ i.clientProxy = gdi[g].clientProxy
          /\ i.known = gdi[g].known /\ i.isBlocked /\ i.blockUntil = "future"
          /\ i.pending = gdi[g].pending
      BY <2>1 DEF GameInfo, BlockTime
    <2>3. i.clientProxy # None => i.known /\ id[i.clientProxy] = g
      BY <1>2, <2>2, NowTyped DEF Inv, Good, Identified
    <2>4. Queue(i)
      BY <2>2 DEF Queue
    <2> HIDE DEF i, g
    <2>5. /\ Good(r) /\ r.id = id /\ r.gdi[g] = i
          /\ \A h \in Game \ {g} : r.gdi[h] = gdi[h]
      BY <1>2, <2>2, <2>3, <2>4, GameUpdate, NowTyped DEF Inv
    <2>6. \A h \in Game : r.gdi[h].clientProxy = gdi[h].clientProxy
      BY <2>2, <2>5
    <2>7. Carried(r)
      BY <1>2, <2>2, GameFrom, NowTyped DEF Carried, From, Inv
    <2>8. Ordered(r)
      BY <1>2, <2>2, GameOrder, NowTyped DEF Ordered, Inv
    <2> QED BY <2>5, <2>6, <2>7, <2>8, NowTyped DEF Proxies
  <1>4. /\ <<[type |-> "freezeAck"]>> \in Seq(Packet)
        /\ <<[type |-> "freezeAck"]>> \in Seq(NoCall)
        /\ \A T : Routine(T) => <<[type |-> "freezeAck"]>> \in Seq(T)
    BY DEF Packet, Routine, NoCall
  <1> HIDE DEF r
  <1>3. Good(s) /\ s.id = id /\ Proxies(s) = Proxies(Now) /\ Carried(s) /\ Ordered(s)
    <2>1. CASE g \notin Game
      BY <2>1, NowTyped DEF Inv, Carried, Ordered
    <2>2. CASE g \in Game
      <3> DEFINE u == SendPacket(r, c, <<[type |-> "freezeAck"]>>)
      <3>1. Good(u) /\ u.id = r.id /\ u.gdi = r.gdi
        BY <1>2, <1>4, <2>2, SendPacketGood
      <3>3. Carried(u)
        BY <1>2, <1>4, <2>2, SendPacketFrom DEF Carried
      <3>4. Ordered(u)
        BY <1>2, <1>4, <2>2, SendQuietOrder DEF Ordered
      <3> HIDE DEF u
      <3>2. Good(u) /\ u.id = id /\ Proxies(u) = Proxies(Now) /\ Carried(u) /\ Ordered(u)
        BY <1>2, <2>2, <3>1, <3>3, <3>4 DEF Proxies
      <3> QED BY <2>2, <3>2 DEF u
    <2> QED BY <2>1, <2>2
  <1> QED BY <1>1, <1>3, HandlingMsgs, RoutingStep DEF Inv

LEMMA SyncKeeps ==
  ASSUME Inv, NEW c \in Conn, NEW e \in Entity, HandleSyncPositionYawFromClient(c, e)
  PROVE  Inv' /\ Connected /\ Carries /\ Orders
  <1>1. /\ Handling(c) /\ UNCHANGED <<edi, gdi, gates, id, link, wire, ready>>
        /\ syncs' \in {syncs, syncs \cup {edi[e].gameid}}
    BY DEF HandleSyncPositionYawFromClient
  <1>2. edi[e].gameid \in Game \cup {None}
    BY NowTyped DEF EntityInfo
  <1>3. Good(Now) /\ Now.id = id /\ Commit(Now) /\ Carried(Now) /\ Ordered(Now)
    BY <1>1, NowTyped DEF Inv, Commit, Carried, Ordered
  <1>4. syncs' \subseteq Game \cup {None}
    BY <1>1, <1>2 DEF Inv
  <1> QED BY <1>1, <1>3, <1>4, HandlingMsgs, RoutingStep

LEMMA FlushKeeps ==
  ASSUME Inv, SendEntitySyncInfosToGames
  PROVE  Inv' /\ Connected /\ Carries /\ Orders
  <1> DEFINE out(T) == [g \in Game |-> IF g \in T THEN <<[type |-> "sync"]>> ELSE <<>>]
  <1>1. <<[type |-> "sync"]>> \in Seq(Packet) /\ <<>> \in Seq(Packet)
    BY DEF Packet
  <1>2. ASSUME NEW S
        PROVE  /\ out(S) \in [Game -> Seq(Packet)]
               /\ \A T : Routine(T) => out(S) \in [Game -> Seq(T)]
    <2>1. ASSUME NEW T, Routine(T) PROVE <<[type |-> "sync"]>> \in Seq(T) /\ <<>> \in Seq(T)
      BY <2>1 DEF Packet, Routine
    <2> QED BY <1>1, <2>1
  <1>3. /\ msgs' = msgs + 1 /\ UNCHANGED <<gates, link, ready>>
        /\ syncs' \in {syncs, {}}
        /\ \E T \in SUBSET syncs : Commit(Dispatch(Now, out(T)))
    BY DEF SendEntitySyncInfosToGames
  <1> HIDE DEF out
  <1>4. msgs' \in Nat /\ syncs' \subseteq Game \cup {None}
    BY <1>3 DEF Inv
  <1> QED BY <1>2, <1>3, <1>4, SpreadKeeps

-----------------------------------------------------------------------------
(* The network and the clock                                                *)

LEMMA AcceptKeeps ==
  ASSUME Inv, NEW c \in Conn, Accept(c)
  PROVE  Inv' /\ Connected /\ Carries /\ Orders
  <1>1. Now' = Now
    BY DEF Accept, Now
  <1> QED BY <1>1 DEF Accept, Inv, Connected, Carries, Orders

\* A step that changes what is on the wires.
LEMMA WireKeeps ==
  ASSUME Inv, wire' \in [Conn -> Seq(Packet)],
         link' \in [Conn -> {"unused", "open", "closed", "gone"}],
         \A T : \A c \in Conn : wire[c] \in Seq(T) => wire'[c] \in Seq(T),
         \A f : \A c \in Conn : /\ Nos(wire'[c], f) \subseteq Nos(wire[c], f)
                                /\ Rising(wire[c], f) => Rising(wire'[c], f),
         UNCHANGED <<edi, gdi, gates, id, ready, syncs, msgs>>
  PROVE  Inv' /\ Connected /\ Carries /\ Orders
  <1>1. Good(Now)'
    BY NowTyped DEF Inv, Good, Snapshot, Entries, Identified, Queues, Now
  <1>2. Carries
    BY DEF Carries, From, Now
  <1>3. ASSUME NEW f \in Entity, Order(Now, f) PROVE Order(Now', f)
    <2>1. /\ Now'.edi = edi /\ Now'.gdi = gdi /\ Now'.id = id /\ Now'.wire = wire'
          /\ Now.edi = edi /\ Now.gdi = gdi /\ Now.id = id /\ Now.wire = wire
      BY DEF Now
    <2>2. \A g \in Game : gdi[g].clientProxy # None => gdi[g].clientProxy \in Conn
      BY NowTyped DEF GameInfo
    <2>3. ASSUME NEW c \in Conn, NEW B, Behind(Nos(wire[c], f), B)
          PROVE  Behind(Nos(wire'[c], f), B)
      BY <2>3 DEF Behind
    <2> QED BY <1>3, <2>1, <2>2, <2>3 DEF Order
  <1> QED BY <1>1, <1>2, <1>3 DEF Inv, Connected, Orders

LEMMA BreakKeeps ==
  ASSUME Inv, NEW c \in Conn, Break(c)
  PROVE  Inv' /\ Connected /\ Carries /\ Orders
  <1>1. PICK n \in 0..Len(wire[c]) : wire' = [wire EXCEPT ![c] = SubSeq(wire[c], 1, n)]
    BY DEF Break
  <1>4. SubSeq(wire[c], 1, n) \in Seq(Packet)
    <2>1. wire[c] \in Seq(Packet)
      BY NowTyped
    <2> QED BY <2>1
  <1>2. wire' \in [Conn -> Seq(Packet)]
    BY <1>1, <1>4, NowTyped
  <1>3. link' \in [Conn -> {"unused", "open", "closed", "gone"}]
    BY DEF Break, Inv
  <1>5. ASSUME NEW T, NEW d \in Conn, wire[d] \in Seq(T) PROVE wire'[d] \in Seq(T)
    <2>1. SubSeq(wire[d], 1, n) \in Seq(T) \/ d # c
      BY <1>5
    <2> QED BY <1>1, <1>5, <2>1, NowTyped
  <1>6. ASSUME NEW f, NEW d \in Conn
        PROVE  /\ Nos(wire'[d], f) \subseteq Nos(wire[d], f)
               /\ Rising(wire[d], f) => Rising(wire'[d], f)
    <2>1. CASE d = c
      <3>1. wire[c] \in Seq(Packet) /\ n \in Nat /\ n <= Len(wire[c])
        BY NowTyped
      <3>2. wire'[d] = SubSeq(wire[c], 1, n)
        BY <1>1, <2>1, NowTyped
      <3> QED BY <2>1, <3>1, <3>2, NosSubSeq
    <2>2. CASE d # c
      BY <1>1, <2>2, NowTyped
    <2> QED BY <2>1, <2>2
  <1> QED BY <1>2, <1>3, <1>5, <1>6, WireKeeps DEF Break

LEMMA ReadKeeps ==
  ASSUME Inv, NEW c \in Conn, Read(c)
  PROVE  Inv' /\ Connected /\ Carries /\ Orders
  <1>3. wire[c] \in Seq(Packet) /\ wire[c] # <<>>
    BY NowTyped DEF Read
  <1>4. Tail(wire[c]) \in Seq(Packet)
    BY <1>3
  <1>1. wire' \in [Conn -> Seq(Packet)]
    BY <1>4, NowTyped DEF Read
  <1>2. link' \in [Conn -> {"unused", "open", "closed", "gone"}]
    BY DEF Read, Inv
  <1>5. ASSUME NEW T, NEW d \in Conn, wire[d] \in Seq(T) PROVE wire'[d] \in Seq(T)
    <2>1. CASE d = c
      <3>1. Tail(wire[c]) \in Seq(T)
        BY <1>3, <1>5, <2>1
      <3> QED BY <2>1, <3>1, NowTyped DEF Read
    <2>2. CASE d # c
      BY <1>5, <2>2, NowTyped DEF Read
    <2> QED BY <2>1, <2>2
  <1>6. ASSUME NEW f, NEW d \in Conn
        PROVE  /\ Nos(wire'[d], f) \subseteq Nos(wire[d], f)
               /\ Rising(wire[d], f) => Rising(wire'[d], f)
    <2>1. CASE d = c
      <3>1. wire'[d] = Tail(wire[c])
        BY <2>1, NowTyped DEF Read
      <3> QED BY <1>3, <2>1, <3>1, NosTail
    <2>2. CASE d # c
      BY <2>2, NowTyped DEF Read
    <2> QED BY <2>1, <2>2
  <1> QED BY <1>1, <1>2, <1>5, <1>6, WireKeeps DEF Read

LEMMA EntityBlockKeeps ==
  ASSUME Inv, NEW e \in Entity, EntityBlockTimesOut(e)
  PROVE  Inv' /\ Connected /\ Carries /\ Orders
  <1> DEFINE i == [edi[e] EXCEPT !.blockUntil = "past"]
  <1>1. /\ edi' = [edi EXCEPT ![e] = i]
        /\ UNCHANGED <<gdi, gates, id, link, wire, ready, syncs, msgs>>
    BY DEF EntityBlockTimesOut
  <1>2. i \in EntityInfo /\ Entry(i) /\ i.pending = edi[e].pending
    <2>1. edi[e] \in EntityInfo /\ Entry(edi[e])
      BY NowTyped DEF Inv, Good, Entries
    <2> QED BY <2>1 DEF EntityInfo, BlockTime, Entry
  <1> HIDE DEF i
  <1>3. Good(Now)'
    BY <1>1, <1>2, NowTyped
       DEF Inv, Good, Snapshot, Entries, Identified, Queues, Now
  <1>4. Carries
    <2>1. \A f \in Entity : edi'[f].pending = edi[f].pending
      BY <1>1, <1>2, NowTyped
    <2> QED BY <1>1, <2>1 DEF Carries, From, Now
  <1>5. Orders
    <2> DEFINE t == [Now EXCEPT !.edi[e] = i]
    <2>1. t = Now'
      BY <1>1 DEF Now
    <2>2. ASSUME NEW f \in Entity, Order(Now, f) PROVE Order(t, f)
      BY <1>2, <2>2, NowTyped, EntityKeepsOrder DEF Inv
    <2> QED BY <2>1, <2>2 DEF Orders
  <1> QED BY <1>1, <1>3, <1>4, <1>5 DEF Inv, Connected

LEMMA GameBlockKeeps ==
  ASSUME Inv, NEW g \in Game, GameBlockTimesOut(g)
  PROVE  Inv' /\ Connected /\ Carries /\ Orders
  <1> DEFINE i == [gdi[g] EXCEPT !.blockUntil = "past"]
  <1>1. /\ gdi' = [gdi EXCEPT ![g] = i]
        /\ UNCHANGED <<edi, gates, id, link, wire, ready, syncs, msgs>>
        /\ gdi[g].clientProxy # None => "connected" \in FreezeTimeout
    BY DEF GameBlockTimesOut
  <1>2. gdi[g] \in GameInfo /\ ("connected" \in FreezeTimeout \/ Queue(gdi[g]))
    BY NowTyped DEF Inv, Good, Queues
  <1>3. /\ i \in GameInfo /\ i.clientProxy = gdi[g].clientProxy /\ i.known = gdi[g].known
        /\ i.pending = gdi[g].pending
        /\ "connected" \in FreezeTimeout \/ Queue(i)
    BY <1>1, <1>2 DEF GameInfo, BlockTime, Queue
  <1> HIDE DEF i
  <1>4. Good(Now)'
    BY <1>1, <1>3, NowTyped
       DEF Inv, Good, Snapshot, Entries, Identified, Queues, Now
  <1>5. Connected
    BY <1>1, <1>3, NowTyped DEF Connected
  <1>6. Inv'
    BY <1>1, <1>4 DEF Inv
  <1>7. Carries
    <2>1. \A h \in Game : gdi'[h].pending = gdi[h].pending
      BY <1>1, <1>3, NowTyped
    <2> QED BY <1>1, <2>1 DEF Carries, From, Now
  <1>8. Orders
    <2> DEFINE t == [Now EXCEPT !.gdi[g] = i]
    <2>1. t = Now'
      BY <1>1 DEF Now
    <2>2. ASSUME NEW f \in Entity, Order(Now, f) PROVE Order(t, f)
      BY <1>3, <2>2, NowTyped, GameOrder DEF Inv
    <2> QED BY <2>1, <2>2 DEF Orders
  <1> QED BY <1>5, <1>6, <1>7, <1>8

-----------------------------------------------------------------------------
(* Theorems                                                                 *)

\* The entities a game reports.
LEMMA ReportsTyped == \A eids \in Reports : eids \in Seq(Entity) /\ IsInjective(eids)
  <1> SUFFICES ASSUME NEW S \in SUBSET Entity
               PROVE  SetToSeq(S) \in Seq(Entity) /\ IsInjective(SetToSeq(S))
    BY DEF Reports
  <1>1. IsFiniteSet(S)
    BY FiniteAssumption, FS_Subset
  <1>2. SetToSeq(S) \in Seq(S) /\ IsInjective(SetToSeq(S))
    BY <1>1, SetToSeqTyped
  <1> QED BY <1>2

LEMMA InitInv == Init => Inv
  <1> SUFFICES ASSUME Init PROVE Inv
    OBVIOUS
  <1>1. /\ NoEntityInfo \in EntityInfo /\ Entry(NoEntityInfo)
        /\ NoGameInfo \in GameInfo /\ NoGameInfo.clientProxy = None
        /\ Queue(NoGameInfo)
    BY DEF NoEntityInfo, EntityInfo, NoGameInfo, GameInfo, BlockTime, Queue, Entry
  <1>2. /\ edi = [e \in Entity |-> NoEntityInfo] /\ gdi = [g \in Game |-> NoGameInfo]
        /\ id = [c \in Conn |-> None] /\ wire = [c \in Conn |-> <<>>]
    BY DEF Init
  <1>3. Good(Now)
    BY <1>1, <1>2 DEF Good, Snapshot, Entries, Identified, Queues, Now
  <1> QED BY <1>3 DEF Init, Inv

LEMMA StutterInv == Inv /\ UNCHANGED vars => Inv'
  <1> SUFFICES ASSUME Inv, UNCHANGED vars PROVE Inv'
    OBVIOUS
  <1>1. Now' = Now
    BY DEF Now, vars
  <1> QED BY <1>1 DEF vars, Inv

\* No message of a peer leaves a game without a connection.
LEMMA MessageKeeps ==
  ASSUME Inv, NEW c \in Conn, Message(c)
  PROVE  Inv' /\ Connected
  <1>1. ASSUME NEW g \in Game, NEW eids \in Reports, HandleSetGameID(c, g, eids)
        PROVE  Inv' /\ Connected
    <2>1. eids \in Seq(Entity)
      BY ReportsTyped
    <2> QED BY <1>1, <2>1, SetGameIDKeeps
  <1>2. ASSUME NEW t \in Gate, HandleSetGateID(c, t) PROVE Inv' /\ Connected
    BY <1>2, SetGateIDKeeps
  <1>3. ASSUME NEW g, HandleCallNilSpaces(c, g) PROVE Inv' /\ Connected
    BY <1>3, NilSpacesKeeps
  <1>4. ASSUME HandleNotifyClientConnected(c) PROVE Inv' /\ Connected
    BY <1>4, ClientConnectedKeeps
  <1>5. ASSUME HandleStartFreezeGame(c) PROVE Inv' /\ Connected
    BY <1>5, StartFreezeKeeps
  <1>6. ASSUME NEW e \in Entity,
               \/ HandleNotifyCreateEntity(c, e)
               \/ HandleNotifyDestroyEntity(c, e)
               \/ HandleCallEntityMethod(c, e)
               \/ \E space \in Entity : HandleQuerySpaceGameIDForMigrate(c, e, space)
               \/ HandleCancelMigrate(c, e)
               \/ HandleSyncPositionYawFromClient(c, e)
        PROVE  Inv' /\ Connected
    BY <1>6, NotifyCreateKeeps, NotifyDestroyKeeps, CallKeeps, QuerySpaceKeeps,
       CancelMigrateKeeps, SyncKeeps
  <1>7. ASSUME NEW e \in Entity, NEW g \in Game \cup {None},
               \/ HandleLoadEntitySomewhere(c, e, g)
               \/ HandleCreateEntitySomewhere(c, e, g)
               \/ \E space \in Entity : HandleMigrateRequest(c, e, space, g)
               \/ HandleRealMigrate(c, e, g)
        PROVE  Inv' /\ Connected
    BY <1>7, LoadKeeps, CreateKeeps, MigrateRequestKeeps, RealMigrateKeeps
  <1> QED BY <1>1, <1>2, <1>3, <1>4, <1>5, <1>6, <1>7 DEF Message

\* Inv is inductive: no handler of the dispatcher, whatever its peers send and in
\* whatever order, and no disconnect or timeout, leaves a good routing state.
THEOREM Inductive == Inv /\ [Next]_vars => Inv'
  <1> SUFFICES ASSUME Inv, [Next]_vars PROVE Inv'
    OBVIOUS
  <1>1. ASSUME NEW c \in Conn, Message(c)
        PROVE  Inv'
    BY <1>1, MessageKeeps
  <1>2. ASSUME NEW c \in Conn, Network(c)
        PROVE  Inv'
    BY <1>2, DisconnectKeeps, AcceptKeeps, BreakKeeps, ReadKeeps DEF Network
  <1>3. CASE \E e \in Entity : EntityBlockTimesOut(e)
    BY <1>3, EntityBlockKeeps
  <1>4. CASE \E g \in Game : GameBlockTimesOut(g)
    BY <1>4, GameBlockKeeps
  <1>5. CASE SendEntitySyncInfosToGames
    BY <1>5, FlushKeeps
  <1>6. CASE UNCHANGED vars
    BY <1>6, StutterInv
  <1> QED BY <1>1, <1>2, <1>3, <1>4, <1>5, <1>6 DEF Next

THEOREM Invariance == Spec => []Inv
  BY InitInv, Inductive, PTL DEF Spec

\* The routing tables, queues and identities keep their types, for every number
\* of processes, entities and connections and however long the dispatcher runs.
THEOREM TypeCorrect == Spec => []TypeOK
  <1>1. Inv => TypeOK
    BY NowTyped DEF Inv, TypeOK
  <1> QED BY <1>1, Invariance, PTL

\* No handler forgets the packets it was holding for an entity when it ends the
\* entity's block.
THEOREM NothingForgotten == Spec => []PendingOnlyWhileBlocked
  <1>1. Inv => PendingOnlyWhileBlocked
    BY NowTyped DEF Inv, Good, Entries, Entry, PendingOnlyWhileBlocked
  <1> QED BY <1>1, Invariance, PTL

\* A game's and a gate's proxy is a connection that announced that very game or
\* gate, through reconnects, replaced connections and disconnects handled late.
THEOREM ProxiesIdentified == Spec => []ProxyIdentity
  <1>1. Inv => ProxyIdentity
    BY NowTyped DEF Inv, Good, Identified, ProxyIdentity
  <1> QED BY <1>1, Invariance, PTL

\* A connected game has packets held back only while its freeze block runs, as
\* long as freezing games exit before the ten seconds are over.
THEOREM HeldOnlyForAReason == Spec => []HeldForAReason
  <1>1. Inv => HeldForAReason
    <2> SUFFICES ASSUME Inv, "connected" \notin FreezeTimeout, NEW g \in Game,
                        gdi[g].pending # <<>>, gdi[g].clientProxy # None
                 PROVE  gdi[g].isBlocked /\ gdi[g].blockUntil = "future"
      BY DEF HeldForAReason
    <2>1. gdi[g] \in GameInfo /\ Queue(gdi[g])
      BY NowTyped DEF Inv, Good, Queues
    <2> QED BY <2>1 DEF Queue, GameInfo, BlockTime
  <1> QED BY <1>1, Invariance, PTL

-----------------------------------------------------------------------------
(* A replaced connection's disconnect                                       *)

\* Only the posted disconnect of c itself makes c "gone".
LEMMA GoneOnlyByDisconnect ==
  ASSUME Inv, [Next]_vars, NEW c \in Conn, link[c] = "closed", link'[c] = "gone"
  PROVE  HandleDispatcherClientDisconnect(c)
  <1>1. ASSUME link' = link PROVE FALSE
    BY <1>1
  <1>2. ASSUME NEW d, link' = Closed(d) PROVE FALSE
    BY <1>2 DEF Closed, Inv
  <1>3. ASSUME NEW d \in Conn, Message(d) PROVE FALSE
    <2>1. \/ link' = link
          \/ \E g \in Game, eids \in Reports : HandleSetGameID(d, g, eids)
          \/ \E t \in Gate : HandleSetGateID(d, t)
      BY <1>3, Zenon
         DEF Message, HandleCallNilSpaces, HandleNotifyClientConnected,
             HandleStartFreezeGame, HandleNotifyCreateEntity, HandleNotifyDestroyEntity,
             HandleCallEntityMethod, HandleQuerySpaceGameIDForMigrate,
             HandleCancelMigrate, HandleSyncPositionYawFromClient,
             HandleLoadEntitySomewhere, HandleCreateEntitySomewhere,
             HandleMigrateRequest, HandleRealMigrate
    <2>2. ASSUME NEW g \in Game, NEW eids, HandleSetGameID(d, g, eids) PROVE FALSE
      BY <2>2, <1>2 DEF HandleSetGameID
    <2>3. ASSUME NEW t \in Gate, HandleSetGateID(d, t) PROVE FALSE
      BY <2>3, <1>2 DEF HandleSetGateID
    <2> QED BY <2>1, <2>2, <2>3, <1>1
  <1>4. ASSUME NEW d \in Conn, Network(d) PROVE HandleDispatcherClientDisconnect(c)
    <2>1. CASE HandleDispatcherClientDisconnect(d)
      <3>1. link' = [link EXCEPT ![d] = "gone"]
        BY <2>1 DEF HandleDispatcherClientDisconnect
      <3>2. c = d
        BY <3>1 DEF Inv
      <3> QED BY <2>1, <3>2
    <2>2. CASE Accept(d)
      BY <2>2 DEF Accept, Inv
    <2>3. CASE Break(d)
      BY <2>3 DEF Break, Inv
    <2>4. CASE Read(d)
      BY <2>4, <1>1 DEF Read
    <2> QED BY <1>4, <2>1, <2>2, <2>3, <2>4 DEF Network
  <1>5. ASSUME \/ \E e \in Entity : EntityBlockTimesOut(e)
               \/ \E g \in Game : GameBlockTimesOut(g)
               \/ SendEntitySyncInfosToGames
               \/ UNCHANGED vars
        PROVE  FALSE
    BY <1>5, <1>1
       DEF EntityBlockTimesOut, GameBlockTimesOut, SendEntitySyncInfosToGames, vars
  <1> QED BY <1>3, <1>4, <1>5 DEF Next

\* The disconnect of a connection that a reconnect replaced, run after it, leaves
\* every route and every current connection alone.
THEOREM StaleDisconnects == Spec => StaleDisconnectHarmless
  <1>1. ASSUME Inv, [Next]_vars
        PROVE  \A c \in Conn :
                 (/\ link[c] = "closed" /\ link'[c] = "gone"
                  /\ \A g \in Game : gdi[g].clientProxy # c
                  /\ \A t \in Gate : gates[t] # c)
                 => UNCHANGED <<edi, gdi, gates>>
    <2> SUFFICES ASSUME NEW c \in Conn, link[c] = "closed", link'[c] = "gone",
                        \A g \in Game : gdi[g].clientProxy # c,
                        \A t \in Gate : gates[t] # c
                 PROVE  UNCHANGED <<edi, gdi, gates>>
      OBVIOUS
    <2>1. HandleDispatcherClientDisconnect(c)
      BY <1>1, GoneOnlyByDisconnect
    <2>2. Now.edi = edi /\ Now.gdi = gdi /\ Now.id = id
      BY DEF Now
    <2>3. CASE id[c] \in Gate /\ gates' = gates /\ Commit(GateDisconnected(Now, c))
      <3>1. GateDisconnected(Now, c) = Now
        BY <2>2, <2>3 DEF GateDisconnected
      <3> QED BY <2>2, <2>3, <3>1 DEF Commit
    <2>4. CASE id[c] \in Game /\ gates' = gates /\ Commit(GameDisconnected(Now, c))
      <3>1. GameDisconnected(Now, c) = Now
        BY <2>2, <2>4 DEF GameDisconnected, IsCurrent
      <3> QED BY <2>2, <2>4, <3>1 DEF Commit
    <2> QED BY <2>1, <2>3, <2>4 DEF HandleDispatcherClientDisconnect
  <1> QED BY <1>1, Invariance, PTL DEF Spec, StaleDisconnectHarmless

-----------------------------------------------------------------------------
(* A game that goes down, or waits for its restore                          *)

\* Only the posted disconnect of its current connection takes a game off.
LEMMA LostOnlyByDisconnect ==
  ASSUME Inv, [Next]_vars, NEW g \in Game,
         gdi[g].clientProxy # None, gdi'[g].clientProxy = None
  PROVE  \E c \in Conn : /\ gdi[g].clientProxy = c /\ id[c] = g
                         /\ Commit(GameDisconnected(Now, c))
  <1>1. ~Connected
    BY DEF Connected
  <1>2. ASSUME NEW d \in Conn, Message(d) PROVE FALSE
    BY <1>1, <1>2, MessageKeeps
  <1>3. PICK c \in Conn : HandleDispatcherClientDisconnect(c)
    <2>1. ASSUME NEW d \in Conn, Accept(d) \/ Break(d) \/ Read(d) PROVE FALSE
      BY <1>1, <2>1, AcceptKeeps, BreakKeeps, ReadKeeps
    <2>2. ~\E e \in Entity : EntityBlockTimesOut(e)
      BY <1>1, EntityBlockKeeps
    <2>3. ~\E h \in Game : GameBlockTimesOut(h)
      BY <1>1, GameBlockKeeps
    <2>4. ~SendEntitySyncInfosToGames
      BY <1>1, FlushKeeps
    <2>5. ~UNCHANGED vars
      BY <1>1 DEF vars, Connected
    <2> QED BY <1>2, <2>1, <2>2, <2>3, <2>4, <2>5 DEF Next, Network
  <1>4. id[c] \in Game /\ Commit(GameDisconnected(Now, c))
    BY <1>1, <1>3, DisconnectKeeps
  <1> DEFINE h == id[c]
             t == GameDisconnected(Now, c)
  <1>5. /\ gdi' = t.gdi
        /\ \A k \in Game : k # h => t.gdi[k].clientProxy = gdi[k].clientProxy
        /\ gdi[h].clientProxy # c => t.gdi = gdi
    <2>1. Now.gdi = gdi /\ Now.id = id /\ Good(Now)
      BY NowTyped DEF Inv
    <2>2. \A k \in Game : k # h => t.gdi[k].clientProxy = gdi[k].clientProxy
      BY <1>4, <2>1, GameDisconnectedGood
    <2>3. gdi[h].clientProxy # c => t = Now
      BY <2>1 DEF GameDisconnected, IsCurrent
    <2> QED BY <1>4, <2>1, <2>2, <2>3 DEF Commit
  <1>6. h = g /\ gdi[g].clientProxy = c
    <2> HIDE DEF h, t
    <2> QED BY <1>5
  <1> QED BY <1>4, <1>6

\* What a game leaves behind.
LEMMA LostGame ==
  ASSUME Inv, [Next]_vars, NEW g \in Game,
         gdi[g].clientProxy # None, gdi'[g].clientProxy = None
  PROVE  LET t == [Now EXCEPT !.gdi[g].clientProxy = None]
         IN Commit(IF gdi[g].isBlocked THEN t ELSE DispatchDown(t, {g}, Nothing))
  <1>1. PICK c \in Conn : /\ gdi[g].clientProxy = c /\ id[c] = g
                         /\ Commit(GameDisconnected(Now, c))
    BY LostOnlyByDisconnect
  <1>2. Now.gdi = gdi /\ Now.id = id
    BY NowTyped
  <1> QED BY <1>1, <1>2 DEF GameDisconnected, IsCurrent, WaitsForRestore

\* A game that goes down without freezing takes all its routes with it, those of
\* entities it was only to load included (handleGameDown): no later call is sent
\* to an entity that died with it.
THEOREM RoutesCleaned == Spec => DownCleansRoutes
  <1>1. ASSUME Inv, [Next]_vars, NEW g \in Game, NEW e \in Entity,
               gdi[g].clientProxy # None, ~gdi[g].isBlocked, gdi'[g].clientProxy = None
        PROVE  edi'[e].gameid # g
    <2> DEFINE t == [Now EXCEPT !.gdi[g].clientProxy = None]
    <2>1. edi' = DispatchDown(t, {g}, Nothing).edi
      BY <1>1, LostGame DEF Commit
    <2>2. t.edi = edi
      BY DEF Now
    <2> HIDE DEF t
    <2>3. PICK down : /\ g \in down
                      /\ DispatchDown(t, {g}, Nothing).edi =
                           [f \in Entity |-> IF t.edi[f].known /\ t.edi[f].gameid \in down
                                            THEN NoEntityInfo ELSE t.edi[f]]
      BY DEF DispatchDown
    <2>4. edi'[e] = IF edi[e].known /\ edi[e].gameid \in down THEN NoEntityInfo ELSE edi[e]
      BY <2>1, <2>2, <2>3
    <2>5. Entry(edi[e]) /\ NoEntityInfo.gameid = None
      BY <1>1, NowTyped DEF Inv, Good, Entries, NoEntityInfo
    <2> QED BY <2>3, <2>4, <2>5, NoneAssumption DEF Entry
  <1>2. Inv /\ [Next]_vars =>
          \A g \in Game :
            (/\ gdi[g].clientProxy # None /\ ~gdi[g].isBlocked
             /\ gdi'[g].clientProxy = None)
            => \A e \in Entity : edi'[e].gameid # g
    BY <1>1
  <1> QED BY <1>2, Invariance, PTL DEF Spec, DownCleansRoutes

\* A freezing game that disconnects, as it does to be restored, keeps the packets
\* held for it, and its entities their routes, blocks and held packets
\* (handleGameDisconnected).
THEOREM FreezeSurvives == Spec => FreezeSurvivesDisconnect
  <1>1. ASSUME Inv, [Next]_vars, NEW g \in Game,
               gdi[g].isBlocked, gdi[g].clientProxy # None, gdi'[g].clientProxy = None
        PROVE  gdi'[g].pending = gdi[g].pending /\ edi' = edi
    <2> DEFINE t == [Now EXCEPT !.gdi[g].clientProxy = None]
    <2>1. Commit(t)
      BY <1>1, LostGame
    <2>2. gdi[g] \in GameInfo /\ gdi \in [Game -> GameInfo]
      BY <1>1, NowTyped
    <2>3. t.edi = edi /\ t.gdi = [gdi EXCEPT ![g].clientProxy = None]
      BY DEF Now
    <2> HIDE DEF t
    <2>4. edi' = edi /\ gdi' = [gdi EXCEPT ![g].clientProxy = None]
      BY <2>1, <2>3 DEF Commit
    <2>5. gdi'[g] = [gdi[g] EXCEPT !.clientProxy = None]
      BY <2>2, <2>4
    <2> QED BY <2>2, <2>4, <2>5 DEF GameInfo
  <1>2. Inv /\ [Next]_vars =>
          \A g \in Game :
            (/\ gdi[g].isBlocked /\ gdi[g].blockUntil = "future"
             /\ gdi[g].clientProxy # None /\ gdi'[g].clientProxy = None)
            => /\ gdi'[g].pending = gdi[g].pending
               /\ \A e \in Entity : edi[e].gameid = g => edi'[e] = edi[e]
    BY <1>1
  <1> QED BY <1>2, Invariance, PTL DEF Spec, FreezeSurvivesDisconnect

-----------------------------------------------------------------------------
(* The order of calls, for as long as the dispatcher runs                   *)

\* Every call there is has a number, and they are in order.
OrderInv == /\ Inv
            /\ From(Upto(msgs), Now)
            /\ \A f \in Entity : Order(Now, f)

\* The number of a call is that of its message.
LEMMA MsgsGrow == [Next]_vars => msgs' \in {msgs, msgs + 1}
  <1>1. ASSUME NEW c \in Conn, Message(c) PROVE msgs' = msgs + 1
    <2>1. Handling(c)
      BY <1>1, Zenon
         DEF Message, HandleSetGameID, HandleSetGateID, HandleCallNilSpaces,
             HandleNotifyClientConnected,
             HandleStartFreezeGame, HandleNotifyCreateEntity, HandleNotifyDestroyEntity,
             HandleCallEntityMethod, HandleQuerySpaceGameIDForMigrate,
             HandleCancelMigrate, HandleSyncPositionYawFromClient,
             HandleLoadEntitySomewhere, HandleCreateEntitySomewhere,
             HandleMigrateRequest, HandleRealMigrate
    <2> QED BY <2>1 DEF Handling
  <1>2. ASSUME NEW c \in Conn, Network(c) PROVE msgs' = msgs
    BY <1>2 DEF Network, HandleDispatcherClientDisconnect, Accept, Break, Read
  <1>3. ASSUME SendEntitySyncInfosToGames PROVE msgs' = msgs + 1
    BY <1>3 DEF SendEntitySyncInfosToGames
  <1>4. ASSUME \/ \E e \in Entity : EntityBlockTimesOut(e)
               \/ \E g \in Game : GameBlockTimesOut(g)
               \/ UNCHANGED vars
        PROVE  msgs' = msgs
    BY <1>4 DEF EntityBlockTimesOut, GameBlockTimesOut, vars
  <1> QED BY <1>1, <1>2, <1>3, <1>4 DEF Next

LEMMA UptoGrows ==
  ASSUME NEW s, NEW m \in Nat, NEW n \in {m, m + 1}, From(Upto(m), s)
  PROVE  From(Upto(n), s)
  <1>1. ASSUME NEW p \in Upto(m) PROVE p \in Upto(n)
    <2>1. p \in Packet /\ (p.type = "call" => p.no <= m /\ p.no \in Nat)
      BY DEF Upto, Packet
    <2> QED BY <2>1 DEF Upto
  <1>2. ASSUME NEW q \in Seq(Upto(m)) PROVE q \in Seq(Upto(n))
    BY <1>1
  <1> QED BY <1>2 DEF From

\* No message but a call puts a call anywhere, and none puts one out of order.
LEMMA MessageOrders ==
  ASSUME Inv, From(Upto(msgs), Now), NEW c \in Conn, Message(c)
  PROVE  From(Upto(msgs'), Now') /\ Orders
  <1>1. ASSUME Carries, Orders PROVE From(Upto(msgs'), Now') /\ Orders
    <2>1. From(Upto(msgs), Now')
      BY <1>1 DEF Carries, Routine, Upto
    <2>2. msgs \in Nat /\ msgs' \in {msgs, msgs + 1}
      BY MsgsGrow DEF Inv, Next
    <2> QED BY <1>1, <2>1, <2>2, UptoGrows
  <1>2. ASSUME NEW g \in Game, NEW eids \in Reports, HandleSetGameID(c, g, eids)
        PROVE  Carries /\ Orders
    <2>1. eids \in Seq(Entity) /\ IsInjective(eids)
      BY ReportsTyped
    <2> QED BY <1>2, <2>1, SetGameIDKeeps
  <1>3. ASSUME NEW t \in Gate, HandleSetGateID(c, t) PROVE Carries /\ Orders
    BY <1>3, SetGateIDKeeps
  <1>4. ASSUME NEW g, HandleCallNilSpaces(c, g) PROVE Carries /\ Orders
    BY <1>4, NilSpacesKeeps
  <1>5. ASSUME HandleNotifyClientConnected(c) PROVE Carries /\ Orders
    BY <1>5, ClientConnectedKeeps
  <1>6. ASSUME HandleStartFreezeGame(c) PROVE Carries /\ Orders
    BY <1>6, StartFreezeKeeps
  <1>7. ASSUME NEW e \in Entity,
               \/ HandleNotifyCreateEntity(c, e)
               \/ HandleNotifyDestroyEntity(c, e)
               \/ \E space \in Entity : HandleQuerySpaceGameIDForMigrate(c, e, space)
               \/ HandleCancelMigrate(c, e)
               \/ HandleSyncPositionYawFromClient(c, e)
        PROVE  Carries /\ Orders
    BY <1>7, NotifyCreateKeeps, NotifyDestroyKeeps, QuerySpaceKeeps, CancelMigrateKeeps,
       SyncKeeps
  <1>8. ASSUME NEW e \in Entity, NEW g \in Game \cup {None},
               \/ HandleLoadEntitySomewhere(c, e, g)
               \/ HandleCreateEntitySomewhere(c, e, g)
               \/ \E space \in Entity : HandleMigrateRequest(c, e, space, g)
               \/ HandleRealMigrate(c, e, g)
        PROVE  Carries /\ Orders
    BY <1>8, LoadKeeps, CreateKeeps, MigrateRequestKeeps, RealMigrateKeeps
  <1>9. ASSUME NEW e \in Entity, HandleCallEntityMethod(c, e)
        PROVE  From(Upto(msgs'), Now') /\ Orders
    <2> DEFINE T == Upto(msgs')
               p == [type |-> "call", entity |-> e, no |-> msgs']
    <2>1. msgs \in Nat /\ msgs' \in {msgs, msgs + 1} /\ msgs' \in Nat
      BY MsgsGrow DEF Inv, Next
    <2>2. From(T, Now)
      BY <2>1, UptoGrows
    <2>3. Routine(T) /\ p \in T
      BY <2>1 DEF Routine, Upto, Packet
    <2> HIDE DEF T
    <2>4. Orders /\ From(T, Now')
      BY <1>9, <2>2, <2>3, CallKeeps
    <2> QED BY <2>4 DEF T
  <1> QED BY <1>1, <1>2, <1>3, <1>4, <1>5, <1>6, <1>7, <1>8, <1>9 DEF Message

LEMMA InitOrder == Init => OrderInv
  <1> SUFFICES ASSUME Init PROVE OrderInv
    OBVIOUS
  <1>1. /\ \A e \in Entity : Now.edi[e].pending = <<>>
        /\ \A g \in Game : Now.gdi[g].pending = <<>>
        /\ \A c \in Conn : Now.wire[c] = <<>>
    BY DEF Init, Now, NoEntityInfo, NoGameInfo
  <1>2. <<>> \in Seq(Upto(msgs))
    OBVIOUS
  <1>3. From(Upto(msgs), Now)
    BY <1>1, <1>2 DEF From
  <1>4. ASSUME NEW f \in Entity PROVE Order(Now, f)
    <2>1. \A g \in Game : Now.gdi[g].clientProxy = None
      BY DEF Init, Now, NoGameInfo
    <2>2. Nos(<<>>, f) = {} /\ Rising(<<>>, f)
      BY NosNothing
    <2> QED BY <1>1, <2>1, <2>2 DEF Order, Behind
  <1> QED BY <1>3, <1>4, InitInv DEF OrderInv

\* As long as no freeze runs out while its game is still connected.
LEMMA OrderInductive ==
  ASSUME "connected" \notin FreezeTimeout, OrderInv, [Next]_vars
  PROVE  OrderInv'
  <1>1. Inv /\ From(Upto(msgs), Now) /\ Inv'
    BY Inductive DEF OrderInv
  <1>2. From(Upto(msgs'), Now') /\ Orders
    <2>1. ASSUME Carries, Orders PROVE From(Upto(msgs'), Now') /\ Orders
      <3>1. From(Upto(msgs), Now')
        BY <1>1, <2>1 DEF Carries, Routine, Upto
      <3>2. msgs \in Nat /\ msgs' \in {msgs, msgs + 1}
        BY <1>1, MsgsGrow DEF Inv
      <3> QED BY <2>1, <3>1, <3>2, UptoGrows
    <2>2. ASSUME NEW c \in Conn, Message(c) PROVE From(Upto(msgs'), Now') /\ Orders
      BY <1>1, <2>2, MessageOrders
    <2>3. ASSUME NEW c \in Conn, Network(c) PROVE Carries /\ Orders
      BY <1>1, <2>3, DisconnectKeeps, AcceptKeeps, BreakKeeps, ReadKeeps DEF Network
    <2>4. ASSUME NEW e \in Entity, EntityBlockTimesOut(e) PROVE Carries /\ Orders
      BY <1>1, <2>4, EntityBlockKeeps
    <2>5. ASSUME NEW g \in Game, GameBlockTimesOut(g) PROVE Carries /\ Orders
      BY <1>1, <2>5, GameBlockKeeps
    <2>6. ASSUME SendEntitySyncInfosToGames PROVE Carries /\ Orders
      BY <1>1, <2>6, FlushKeeps
    <2>7. ASSUME UNCHANGED vars PROVE Carries /\ Orders
      <3>1. Now' = Now
        BY <2>7 DEF Now, vars
      <3> QED BY <3>1 DEF Carries, Orders
    <2> QED BY <2>1, <2>2, <2>3, <2>4, <2>5, <2>6, <2>7 DEF Next
  <1>3. \A f \in Entity : Order(Now', f)
    BY <1>2 DEF OrderInv, Orders
  <1> QED BY <1>1, <1>2, <1>3 DEF OrderInv

\* The calls to an entity leave the dispatcher in the order it took them, through
\* every block, freeze, migration, reconnect and dropped packet: on the way to a
\* game they are nowhere out of order (DispatchDown, Unblock, HandleRealMigrate,
\* HandleSetGameID).
THEOREM CallsInOrder == Spec => []CallOrder
  <1>1. "connected" \in FreezeTimeout => CallOrder
    BY DEF CallOrder
  <1>2. OrderInv => CallOrder
    <2> SUFFICES ASSUME OrderInv, NEW e \in Entity, NEW g \in Game
                 PROVE  LET c    == gdi[g].clientProxy
                            sent == IF c = None THEN <<>> ELSE wire[c]
                            held == IF edi[e].gameid = g THEN edi[e].pending ELSE <<>>
                        IN Rising(sent \o gdi[g].pending \o held, e)
      BY DEF CallOrder
    <2> DEFINE c == gdi[g].clientProxy
    <2>1. PICK a : a = IF c = None THEN <<>> ELSE wire[c]
      OBVIOUS
    <2>2. PICK b : b = gdi[g].pending
      OBVIOUS
    <2>3. PICK d : d = IF edi[e].gameid = g THEN edi[e].pending ELSE <<>>
      OBVIOUS
    <2>4. Inv /\ Order(Now, e) /\ c \in Conn \cup {None}
      BY NowTyped DEF OrderInv, GameInfo
    <2>5. a \in Seq(Packet) /\ b \in Seq(Packet) /\ d \in Seq(Packet)
      BY <2>1, <2>2, <2>3, <2>4, NowTyped DEF EntityInfo, GameInfo
    <2>6. /\ Rising(b, e) /\ Rising(d, e)
          /\ Rising(a, e)
          /\ Behind(Nos(b, e), Nos(d, e)) /\ Behind(Nos(a, e), Nos(d, e))
          /\ Behind(Nos(a, e), Nos(b, e))
      BY <2>1, <2>2, <2>3, <2>4, NowTyped, NosNothing DEF Order, Behind
    <2>7. /\ a \o b \in Seq(Packet) /\ Rising(a \o b, e)
          /\ Nos(a \o b, e) = Nos(a, e) \cup Nos(b, e)
      BY <2>5, <2>6, NosConcat
    <2>8. Behind(Nos(a \o b, e), Nos(d, e))
      BY <2>6, <2>7 DEF Behind
    <2>9. Rising(a \o b \o d, e)
      BY <2>5, <2>6, <2>7, <2>8, NosConcat
    <2> QED BY <2>1, <2>2, <2>3, <2>9
  <1>3. CASE "connected" \in FreezeTimeout
    BY <1>1, <1>3, PTL
  <1>4. CASE "connected" \notin FreezeTimeout
    <2>1. OrderInv /\ [Next]_vars => OrderInv'
      BY <1>4, OrderInductive
    <2> QED BY <1>2, <2>1, InitOrder, PTL DEF Spec
  <1> QED BY <1>3, <1>4

-----------------------------------------------------------------------------
(* What games know of each other                                            *)

\* The packets that tell a game which games are connected, what they tell, and
\* those that tell it that the deployment is ready.
News == {"setGameIDAck", "gameUp", "gameDown"}
Plain == {p \in Packet : p.type \notin News}
Mentions(p, h) ==
  \/ p.type = "setGameIDAck"
  \/ p.type = "gameUp" /\ p.game = h
  \/ p.type = "gameDown" /\ h \in p.games
Shows(p, h) == p.type = "gameUp" \/ (p.type = "setGameIDAck" /\ h \in p.online)
Informs(p) == p.type = "ready" \/ (p.type = "setGameIDAck" /\ p.ready)

\* What a game will know once it has read q: whether h is connected, if it thinks so
\* now or not, and whether the deployment is ready.
Silent(q, h) == \A i \in 1 .. Len(q) : ~ Mentions(q[i], h)
Seen(q, h, v) ==
  \/ v /\ Silent(q, h)
  \/ \E i \in 1 .. Len(q) :
       /\ Mentions(q[i], h) /\ Shows(q[i], h)
       /\ \A j \in (i + 1) .. Len(q) : ~ Mentions(q[j], h)
Informed(q, v) == v \/ \E i \in 1 .. Len(q) : Informs(q[i])

LEMMA ConcatFacts ==
  ASSUME NEW q \in Seq(Packet), NEW ps \in Seq(Packet)
  PROVE  /\ q \o ps \in Seq(Packet) /\ Len(q \o ps) = Len(q) + Len(ps)
         /\ Len(q) \in Nat /\ Len(ps) \in Nat
         /\ \A i \in 1 .. Len(q) : (q \o ps)[i] = q[i]
         /\ \A i \in 1 .. Len(ps) : (q \o ps)[Len(q) + i] = ps[i]
         /\ \A i \in 1 .. (Len(q) + Len(ps)) :
              i \in 1 .. Len(q) \/ (i - Len(q) \in 1 .. Len(ps) /\ (q \o ps)[i] = ps[i - Len(q)])
  OBVIOUS

LEMMA SeenSilent ==
  ASSUME NEW q \in Seq(Packet), NEW ps \in Seq(Packet), NEW h, NEW v, Silent(ps, h)
  PROVE  Seen(q \o ps, h, v) <=> Seen(q, h, v)
  <1> DEFINE r == q \o ps
  <1>1. /\ Len(r) = Len(q) + Len(ps) /\ Len(q) \in Nat /\ Len(ps) \in Nat
        /\ \A i \in 1 .. Len(q) : r[i] = q[i]
        /\ \A i \in 1 .. Len(r) : i \in 1 .. Len(q) \/ (i - Len(q) \in 1 .. Len(ps) /\ r[i] = ps[i - Len(q)])
    BY ConcatFacts
  <1> HIDE DEF r
  <1>2. \A i \in 1 .. Len(q) : i \in 1 .. Len(r)
    BY <1>1
  <1>3. \A i \in 1 .. Len(r) : Mentions(r[i], h) => i \in 1 .. Len(q)
    BY <1>1 DEF Silent
  <1>4. Silent(r, h) <=> Silent(q, h)
    BY <1>1, <1>2, <1>3 DEF Silent
  <1>5. ASSUME NEW i \in 1 .. Len(q)
        PROVE  (\A j \in (i + 1) .. Len(q) : ~ Mentions(q[j], h))
                 <=> (\A j \in (i + 1) .. Len(r) : ~ Mentions(r[j], h))
    <2>1. \A j \in (i + 1) .. Len(q) : j \in 1 .. Len(q) /\ j \in (i + 1) .. Len(r)
      BY <1>1
    <2>2. \A j \in (i + 1) .. Len(r) : j \in 1 .. Len(r) /\ (j \in 1 .. Len(q) => j \in (i + 1) .. Len(q))
      BY <1>1
    <2> QED BY <1>1, <1>3, <2>1, <2>2
  <1>6. ASSUME Seen(q, h, v) PROVE Seen(r, h, v)
    BY <1>1, <1>2, <1>4, <1>5, <1>6 DEF Seen
  <1>7. ASSUME Seen(r, h, v) PROVE Seen(q, h, v)
    BY <1>1, <1>3, <1>4, <1>5, <1>7 DEF Seen
  <1> QED BY <1>6, <1>7 DEF r

LEMMA SeenLast ==
  ASSUME NEW q \in Seq(Packet), NEW p \in Packet, NEW h, NEW v, Mentions(p, h)
  PROVE  Seen(q \o <<p>>, h, v) <=> Shows(p, h)
  <1> DEFINE r == q \o <<p>>
  <1>1. <<p>> \in Seq(Packet) /\ Len(<<p>>) = 1 /\ <<p>>[1] = p
    OBVIOUS
  <1>2. /\ Len(r) = Len(q) + 1 /\ Len(q) \in Nat /\ r[Len(q) + 1] = p
    BY <1>1, ConcatFacts
  <1> HIDE DEF r
  <1>3. Len(q) + 1 \in 1 .. Len(r) /\ ((Len(q) + 1) + 1) .. Len(r) = {}
    BY <1>2
  <1>4. ~ Silent(r, h)
    BY <1>2, <1>3 DEF Silent
  <1>5. ASSUME NEW i \in 1 .. Len(r), \A j \in (i + 1) .. Len(r) : ~ Mentions(r[j], h)
        PROVE  i = Len(q) + 1
    <2>1. CASE i # Len(q) + 1
      <3>1. Len(q) + 1 \in (i + 1) .. Len(r)
        BY <1>2, <2>1
      <3> QED BY <1>2, <1>5, <3>1
    <2> QED BY <2>1
  <1>6. ASSUME Seen(r, h, v) PROVE Shows(p, h)
    BY <1>2, <1>4, <1>5, <1>6 DEF Seen
  <1>7. ASSUME Shows(p, h) PROVE Seen(r, h, v)
    BY <1>2, <1>3, <1>7 DEF Seen
  <1> QED BY <1>6, <1>7 DEF r

LEMMA SeenTail ==
  ASSUME NEW q \in Seq(Packet), q # <<>>, NEW h, NEW v
  PROVE  Seen(q, h, v) <=>
           Seen(Tail(q), h, IF Mentions(Head(q), h) THEN Shows(Head(q), h) ELSE v)
  <1> DEFINE r == Tail(q)
             w == IF Mentions(Head(q), h) THEN Shows(Head(q), h) ELSE v
  <1>1. /\ Len(r) = Len(q) - 1 /\ Len(q) \in Nat \ {0} /\ Head(q) = q[1]
        /\ \A i \in 1 .. Len(r) : r[i] = q[i + 1]
    OBVIOUS
  <1> HIDE DEF r
  <1>2. \A i \in 1 .. Len(r) : i + 1 \in 1 .. Len(q)
    BY <1>1
  <1>3. \A i \in 1 .. Len(q) : i = 1 \/ (i - 1 \in 1 .. Len(r) /\ r[i - 1] = q[i])
    BY <1>1
  <1>4. 1 \in 1 .. Len(q)
    BY <1>1
  <1>5. Silent(q, h) <=> (~ Mentions(q[1], h) /\ Silent(r, h))
    BY <1>1, <1>2, <1>3, <1>4 DEF Silent
  <1>6. (\A j \in (1 + 1) .. Len(q) : ~ Mentions(q[j], h)) <=> Silent(r, h)
    <2>1. \A j \in (1 + 1) .. Len(q) : j - 1 \in 1 .. Len(r) /\ r[j - 1] = q[j]
      BY <1>1
    <2>2. \A i \in 1 .. Len(r) : i + 1 \in (1 + 1) .. Len(q)
      BY <1>1
    <2> QED BY <1>1, <2>1, <2>2 DEF Silent
  <1>7. ASSUME NEW i \in 1 .. Len(r)
        PROVE  (\A j \in (i + 1) .. Len(r) : ~ Mentions(r[j], h))
                 <=> (\A j \in ((i + 1) + 1) .. Len(q) : ~ Mentions(q[j], h))
    <2>1. \A j \in ((i + 1) + 1) .. Len(q) : j - 1 \in (i + 1) .. Len(r) /\ r[j - 1] = q[j]
      BY <1>1
    <2>2. \A j \in (i + 1) .. Len(r) : j + 1 \in ((i + 1) + 1) .. Len(q) /\ r[j] = q[j + 1]
      BY <1>1
    <2> QED BY <2>1, <2>2
  <1> DEFINE Ends(s, i) == /\ Mentions(s[i], h) /\ Shows(s[i], h)
                           /\ \A j \in (i + 1) .. Len(s) : ~ Mentions(s[j], h)
  <1>8. \A i \in 1 .. Len(r) : Ends(r, i) <=> Ends(q, i + 1)
    BY <1>1, <1>7
  <1>9. Ends(q, 1) <=> (Mentions(q[1], h) /\ Shows(q[1], h) /\ Silent(r, h))
    BY <1>6
  <1>10. Seen(q, h, v) <=> ((v /\ Silent(q, h)) \/ \E i \in 1 .. Len(q) : Ends(q, i))
    BY DEF Seen
  <1>11. Seen(r, h, w) <=> ((w /\ Silent(r, h)) \/ \E i \in 1 .. Len(r) : Ends(r, i))
    BY DEF Seen
  <1> HIDE DEF Ends
  <1>12. (\E i \in 1 .. Len(q) : Ends(q, i)) <=> (Ends(q, 1) \/ \E i \in 1 .. Len(r) : Ends(r, i))
    <2>1. ASSUME NEW i \in 1 .. Len(q), Ends(q, i) PROVE Ends(q, 1) \/ \E k \in 1 .. Len(r) : Ends(r, k)
      <3>1. CASE i # 1
        <4>1. i - 1 \in 1 .. Len(r) /\ (i - 1) + 1 = i
          BY <1>1, <1>3, <3>1
        <4> QED BY <1>8, <2>1, <4>1
      <3> QED BY <2>1, <3>1
    <2> QED BY <1>2, <1>4, <1>8, <2>1
  <1>13. w <=> (Mentions(q[1], h) /\ Shows(q[1], h)) \/ (~ Mentions(q[1], h) /\ v)
    BY <1>1
  <1> QED BY <1>5, <1>9, <1>10, <1>11, <1>12, <1>13 DEF r

LEMMA InformedMore ==
  ASSUME NEW q \in Seq(Packet), NEW ps \in Seq(Packet), NEW v,
         Informed(q, v) \/ \E i \in 1 .. Len(ps) : Informs(ps[i])
  PROVE  Informed(q \o ps, v)
  <1> DEFINE r == q \o ps
  <1>1. /\ Len(r) = Len(q) + Len(ps) /\ Len(q) \in Nat /\ Len(ps) \in Nat
        /\ \A i \in 1 .. Len(q) : r[i] = q[i]
        /\ \A i \in 1 .. Len(ps) : r[Len(q) + i] = ps[i]
    BY ConcatFacts
  <1> HIDE DEF r
  <1>2. \A i \in 1 .. Len(q) : i \in 1 .. Len(r)
    BY <1>1
  <1>3. \A i \in 1 .. Len(ps) : Len(q) + i \in 1 .. Len(r)
    BY <1>1
  <1>4. Informed(r, v)
    BY <1>1, <1>2, <1>3 DEF Informed
  <1> QED BY <1>4 DEF r

LEMMA InformedTail ==
  ASSUME NEW q \in Seq(Packet), q # <<>>, NEW v, Informed(q, v)
  PROVE  Informed(Tail(q), v \/ Informs(Head(q)))
  <1> DEFINE r == Tail(q)
  <1>1. /\ Len(r) = Len(q) - 1 /\ Len(q) \in Nat \ {0} /\ Head(q) = q[1]
        /\ \A i \in 1 .. Len(r) : r[i] = q[i + 1]
    OBVIOUS
  <1> HIDE DEF r
  <1>2. \A i \in 1 .. Len(q) : i = 1 \/ (i - 1 \in 1 .. Len(r) /\ r[i - 1] = q[i])
    BY <1>1
  <1>3. Informed(r, v \/ Informs(q[1]))
    BY <1>2 DEF Informed
  <1> QED BY <1>1, <1>3 DEF r

\* The dispatcher sends to g on connection c, and holds nothing for it.
Fed(s, g, c) == c \in Conn /\ s.gdi[g].clientProxy = c /\ link[c] = "open" /\ s.gdi[g].pending = <<>>
Attached(s, h) == s.gdi[h].clientProxy # None

\* When g, which sees the games o as connected, has read what is on c, it sees h if h is
\* connected, and only if h is connected or frozen; likewise it knows r, that the
\* deployment is ready.
Viewed(s, g, h, c, o) ==
  Fed(s, g, c) =>
    /\ Attached(s, h) => Seen(s.wire[c], h, h \in o)
    /\ Seen(s.wire[c], h, h \in o) => Attached(s, h) \/ s.gdi[h].isBlocked
Heard(s, r, g, c, d) == Fed(s, g, c) /\ r => Informed(s.wire[c], d)

\* What is held for an entity says nothing of games.
Letters(s) == \A e \in Entity : s.edi[e].pending \in Seq(Plain)

\* From s to t nothing is told wrong.
Views(s, t) ==
  \A g, h \in Game, c \in Conn, o \in SUBSET Game : Viewed(s, g, h, c, o) => Viewed(t, g, h, c, o)
Hears(s, t) ==
  \A g \in Game, c \in Conn, r, d \in BOOLEAN : Heard(s, r, g, c, d) => Heard(t, r, g, c, d)
Keeps(s, t) == Letters(t) /\ Views(s, t) /\ Hears(s, t)

LEMMA PlainSilent ==
  ASSUME NEW ps \in Seq(Plain), NEW h
  PROVE  ps \in Seq(Packet) /\ Silent(ps, h)
  <1>1. Plain \subseteq Packet /\ \A p \in Plain : ~ Mentions(p, h)
    BY DEF Plain, Mentions, News
  <1>2. \A i \in 1 .. Len(ps) : ps[i] \in Plain
    OBVIOUS
  <1>3. ps \in Seq(Packet)
    BY <1>1
  <1> QED BY <1>1, <1>2, <1>3 DEF Silent

\* How the packets ps for g arrive there, after a notice that the games in down are, if any.
Delivery(s, t, down0, down, ps, g, c) ==
  /\ Fed(s, g, c)
  /\ down0 \subseteq down
  /\ \/ down = {} /\ t.wire[c] = s.wire[c] \o ps
     \/ t.wire[c] = s.wire[c] \o (<<[type |-> "gameDown", games |-> down]>> \o ps)
  /\ \A h \in Game :
       /\ Attached(t, h) <=> Attached(s, h)
       /\ t.gdi[h].isBlocked => s.gdi[h].isBlocked
       /\ s.gdi[h].isBlocked => t.gdi[h].isBlocked \/ Attached(s, h) \/ h \in down
       /\ h \in down => ~ Attached(s, h)

LEMMA HoldEmpty ==
  ASSUME NEW q \in Seq(Packet), NEW ps \in Seq(Packet), GameQueueMax # 0,
         Hold(q, ps, GameQueueMax) = <<>>
  PROVE  q = <<>> /\ ps = <<>>
  <1>1. GameQueueMax \in Nat \ {0}
    BY BoundAssumption
  <1>2. /\ q \o ps \in Seq(Packet) /\ Len(q \o ps) = Len(q) + Len(ps)
        /\ Len(q) \in Nat /\ Len(ps) \in Nat
    OBVIOUS
  <1>3. CASE Len(q \o ps) <= GameQueueMax
    <2>1. Len(q \o ps) = 0
      BY <1>3 DEF Hold
    <2> QED BY <1>2, <2>1
  <1>4. CASE ~ (Len(q \o ps) <= GameQueueMax)
    <2> DEFINE n == IF Len(q) > GameQueueMax THEN Len(q) ELSE GameQueueMax
    <2>1. n \in Nat \ {0} /\ n <= Len(q \o ps)
      BY <1>1, <1>2, <1>4
    <2>2. Hold(q, ps, GameQueueMax) = SubSeq(q \o ps, 1, n)
      BY <1>4 DEF Hold
    <2> HIDE DEF n
    <2>3. Len(SubSeq(q \o ps, 1, n)) = n
      BY <1>2, <2>1
    <2> QED BY <2>1, <2>2, <2>3
  <1> QED BY <1>3, <1>4

LEMMA Delivered ==
  ASSUME NEW s, NEW down0 \in SUBSET Game, NEW out \in [Game -> Seq(Packet)],
         Good(s), GameQueueMax # 0, \A h \in down0 : ~ Attached(s, h),
         NEW g \in Game, NEW c, Fed(DispatchDown(s, down0, out), g, c)
  PROVE  \E down \in SUBSET Game :
           Delivery(s, DispatchDown(s, down0, out), down0, down, out[g], g, c)
  <1> DEFINE base    == {h \in Game : s.gdi[h].known /\ out[h] # <<>>}
             spread  == down0 # {} \/ \E h \in base : LapsedDead(s.gdi[h])
             down    == IF spread THEN down0 \cup {h \in Game : LapsedDead(s.gdi[h])}
                        ELSE {}
             reached == IF spread THEN {h \in Game : s.gdi[h].known} ELSE base
             notice  == IF spread THEN <<[type |-> "gameDown", games |-> down]>> ELSE <<>>
             queue   == [h \in Game |-> IF h \in reached THEN notice \o out[h] ELSE <<>>]
             after   == [h \in Game |-> Arrive(h, s.gdi[h], down, reached, queue[h])]
             direct  == {h \in Game : ~after[h].isBlocked /\ after[h].clientProxy # None}
             t       == DispatchDown(s, down0, out)
  <1>1. /\ down \in SUBSET Game /\ down0 \subseteq down /\ (~ spread => down = {} /\ down0 = {})
        /\ \A h \in down : ~ Attached(s, h)
        /\ reached \subseteq Game
    BY DEF LapsedDead, Attached
  <1>2. \A h \in Game : s.gdi[h].known /\ LapsedDead(s.gdi[h]) /\ h \in reached => h \in down
    BY DEF LapsedDead
  <1>3. notice = IF spread THEN <<[type |-> "gameDown", games |-> down]>> ELSE <<>>
    OBVIOUS
  <1>4. s.gdi[g].known => (g \in reached <=> (spread \/ out[g] # <<>>))
    OBVIOUS
  <1>5. \A h \in Game : queue[h] = IF h \in reached THEN notice \o out[h] ELSE <<>>
    OBVIOUS
  <1>6. t.gdi = after
    BY DEF DispatchDown
  <1>7. t.wire = [x \in Conn |->
                    IF /\ link[x] = "open" /\ s.id[x] \in direct
                       /\ after[s.id[x]].clientProxy = x
                    THEN s.wire[x] \o queue[s.id[x]] ELSE s.wire[x]]
    BY DEF DispatchDown
  <1>8. \A h \in Game : after[h] = Arrive(h, s.gdi[h], down, reached, queue[h])
    BY DEF after
  <1>9. \A h \in Game : h \in direct <=> (~after[h].isBlocked /\ after[h].clientProxy # None)
    BY DEF direct
  <1>10. notice \in Seq(Packet) /\ <<>> \in Seq(Packet)
    <2>1. [type |-> "gameDown", games |-> down] \in Packet
      BY <1>1 DEF Packet
    <2> QED BY <2>1
  <1>11. Fed(t, g, c)
    BY DEF t
  <1> HIDE DEF base, down, reached, notice, queue, after, direct, t, spread
  <1>12. queue[g] \in Seq(Packet)
    <2>1. out[g] \in Seq(Packet)
      OBVIOUS
    <2>2. PICK q \in Seq(Packet) : q = out[g]
      BY <2>1
    <2>3. notice \o q \in Seq(Packet)
      BY <1>10
    <2> QED BY <1>5, <1>10, <2>2, <2>3
  <1>13. \A h \in Game : s.gdi[h] \in GameInfo
    BY DEF Good, Snapshot
  <1>14. ASSUME NEW h \in Game
         PROVE  /\ after[h].clientProxy = s.gdi[h].clientProxy
                /\ after[h].isBlocked = (s.gdi[h].isBlocked /\ ~(h \in reached /\ Lapsed(s.gdi[h])))
                /\ after[h].pending = IF ~ after[h].isBlocked /\ s.gdi[h].clientProxy # None
                                      THEN s.gdi[h].pending
                                      ELSE Hold(IF h \in down THEN <<>> ELSE s.gdi[h].pending,
                                                queue[h], GameQueueMax)
    BY <1>8, <1>13 DEF Arrive, GameInfo
  <1>15. ASSUME NEW h \in Game
         PROVE  /\ Attached(t, h) <=> Attached(s, h)
                /\ t.gdi[h].isBlocked => s.gdi[h].isBlocked
                /\ s.gdi[h].isBlocked => t.gdi[h].isBlocked \/ Attached(s, h) \/ h \in down
    <2>1. ASSUME s.gdi[h].isBlocked, ~ t.gdi[h].isBlocked, ~ Attached(s, h) PROVE h \in down
      <3>1. h \in reached /\ Lapsed(s.gdi[h])
        BY <1>6, <1>14, <2>1
      <3>2. s.gdi[h].known
        <4>1. spread => s.gdi[h].known
          BY <3>1 DEF reached
        <4>2. ~ spread => s.gdi[h].known
          BY <3>1 DEF reached, base
        <4> QED BY <4>1, <4>2
      <3> QED BY <1>2, <2>1, <3>1, <3>2 DEF LapsedDead, Attached
    <2> QED BY <1>6, <1>14, <2>1 DEF Attached
  <1>16. /\ c \in Conn /\ s.gdi[g].clientProxy = c /\ link[c] = "open"
         /\ after[g].pending = <<>> /\ c # None /\ Attached(s, g) /\ g \notin down
    BY <1>1, <1>6, <1>11, <1>14, NoneAssumption DEF Fed, Attached
  <1>17. s.gdi[g].known /\ s.id[c] = g
    BY <1>16 DEF Good, Identified, Attached
  <1>18. /\ s.gdi[g].pending = <<>>
         /\ g \in direct \/ queue[g] = <<>>
    <2>1. s.gdi[g].pending \in Seq(Packet)
      BY <1>13 DEF GameInfo
    <2>2. CASE ~ after[g].isBlocked
      BY <1>9, <1>14, <1>16, <2>2 DEF Attached
    <2>3. CASE after[g].isBlocked
      <3>1. Hold(s.gdi[g].pending, queue[g], GameQueueMax) = <<>>
        BY <1>14, <1>16, <2>3
      <3> QED BY <1>12, <2>1, <3>1, HoldEmpty
    <2> QED BY <2>2, <2>3
  <1>19. s.wire[c] \in Seq(Packet) /\ out[g] \in Seq(Packet)
    BY <1>16 DEF Good, Snapshot
  <1>20. t.wire[c] = s.wire[c] \o queue[g]
    <2>1. CASE g \in direct
      <3>1. after[s.id[c]].clientProxy = c /\ s.id[c] \in direct
        BY <1>14, <1>16, <1>17, <2>1
      <3>2. link[c] = "open" /\ c \in Conn
        BY <1>16
      <3> QED BY <1>7, <1>17, <3>1, <3>2
    <2>2. CASE g \notin direct
      <3>1. t.wire[c] = s.wire[c] /\ queue[g] = <<>>
        BY <1>7, <1>16, <1>17, <1>18, <2>2
      <3> QED BY <1>19, <3>1
    <2> QED BY <2>1, <2>2
  <1>21. queue[g] = notice \o out[g]
    <2>1. CASE spread
      BY <1>4, <1>5, <1>17, <2>1
    <2>2. CASE ~ spread
      <3>1. notice = <<>> /\ notice \o out[g] = out[g]
        BY <1>3, <1>19, <2>2
      <3> QED BY <1>4, <1>5, <1>17, <2>2, <3>1
    <2> QED BY <2>1, <2>2
  <1>22. \/ down = {} /\ t.wire[c] = s.wire[c] \o out[g]
         \/ t.wire[c] = s.wire[c] \o (<<[type |-> "gameDown", games |-> down]>> \o out[g])
    <2>1. CASE spread
      BY <1>3, <1>20, <1>21, <2>1
    <2>2. CASE ~ spread
      <3>1. notice = <<>> /\ notice \o out[g] = out[g] /\ down = {}
        BY <1>1, <1>3, <1>19, <2>2
      <3> QED BY <1>20, <1>21, <3>1
    <2> QED BY <2>1, <2>2
  <1>23. Fed(s, g, c)
    BY <1>16, <1>18 DEF Fed
  <1>24. Delivery(s, t, down0, down, out[g], g, c)
    BY <1>1, <1>15, <1>22, <1>23 DEF Delivery
  <1> QED BY <1>1, <1>24 DEF t

LEMMA ConcatAssoc ==
  ASSUME NEW q \in Seq(Packet), NEW x \in Seq(Packet), NEW ps \in Seq(Packet)
  PROVE  q \o (x \o ps) = (q \o x) \o ps /\ q \o x \in Seq(Packet)
  OBVIOUS

LEMMA DownViewed ==
  ASSUME NEW s, NEW down0 \in SUBSET Game, NEW out \in [Game -> Seq(Packet)],
         Good(s), GameQueueMax # 0, \A x \in down0 : ~ Attached(s, x),
         NEW g \in Game, NEW h \in Game, NEW c, NEW o,
         \/ Silent(out[g], h) /\ (h \in down0 \/ Viewed(s, g, h, c, o))
         \/ out[g] = <<[type |-> "gameUp", game |-> h]>> /\ Attached(s, h)
  PROVE  Viewed(DispatchDown(s, down0, out), g, h, c, o)
  <1> DEFINE t == DispatchDown(s, down0, out)
             v == h \in o
             ps == out[g]
             up == [type |-> "gameUp", game |-> h]
  <1> SUFFICES ASSUME Fed(t, g, c)
               PROVE  /\ Attached(t, h) => Seen(t.wire[c], h, v)
                      /\ Seen(t.wire[c], h, v) => Attached(t, h) \/ t.gdi[h].isBlocked
    BY DEF Viewed
  <1>1. PICK down \in SUBSET Game : Delivery(s, t, down0, down, ps, g, c)
    BY Delivered
  <1> DEFINE n == [type |-> "gameDown", games |-> down]
  <1>2. Fed(s, g, c) /\ down0 \subseteq down
    BY <1>1 DEF Delivery
  <1>3. \/ down = {} /\ t.wire[c] = s.wire[c] \o ps
        \/ t.wire[c] = s.wire[c] \o (<<n>> \o ps)
    BY <1>1 DEF Delivery
  <1>4. /\ Attached(t, h) <=> Attached(s, h)
        /\ s.gdi[h].isBlocked => t.gdi[h].isBlocked \/ Attached(s, h) \/ h \in down
        /\ h \in down => ~ Attached(s, h)
    BY <1>1 DEF Delivery
  <1>5. s.wire[c] \in Seq(Packet) /\ ps \in Seq(Packet) /\ n \in Packet /\ up \in Packet
    BY <1>2 DEF Good, Snapshot, Fed, Packet
  <1>6. /\ Mentions(n, h) <=> h \in down
        /\ ~ Shows(n, h)
        /\ Mentions(up, h) /\ Shows(up, h)
    BY DEF Mentions, Shows
  <1>7. h \in down0 => h \in down
    BY <1>2
  <1>8. ps = out[g]
    OBVIOUS
  <1> HIDE DEF t, n, v, ps, up
  <1>9. <<n>> \in Seq(Packet) /\ <<n>>[1] = n /\ Len(<<n>>) = 1 /\ <<up>> \in Seq(Packet)
    BY <1>5
  <1>10. /\ s.wire[c] \o (<<n>> \o ps) = (s.wire[c] \o <<n>>) \o ps
         /\ s.wire[c] \o <<n>> \in Seq(Packet)
    BY <1>5, <1>9, ConcatAssoc
  <1>11. h \notin down => Silent(<<n>>, h)
    BY <1>6, <1>9 DEF Silent
  <1>12. CASE ps = <<up>> /\ Attached(s, h)
    <2>1. Seen(s.wire[c] \o ps, h, v)
      BY <1>5, <1>6, <1>12, SeenLast
    <2>2. Seen((s.wire[c] \o <<n>>) \o ps, h, v)
      BY <1>5, <1>6, <1>10, <1>12, SeenLast
    <2> QED BY <1>3, <1>4, <1>10, <1>12, <2>1, <2>2
  <1>13. CASE Silent(ps, h) /\ h \in down
    <2>1. ~ Seen(s.wire[c] \o <<n>>, h, v)
      BY <1>5, <1>6, <1>13, SeenLast
    <2>2. ~ Seen((s.wire[c] \o <<n>>) \o ps, h, v)
      BY <1>5, <1>10, <1>13, <2>1, SeenSilent
    <2> QED BY <1>3, <1>4, <1>10, <1>13, <2>2
  <1>14. CASE Silent(ps, h) /\ h \notin down /\ Viewed(s, g, h, c, o)
    <2>1. Seen(s.wire[c] \o ps, h, v) <=> Seen(s.wire[c], h, v)
      BY <1>5, <1>14, SeenSilent
    <2>2. Seen(s.wire[c] \o <<n>>, h, v) <=> Seen(s.wire[c], h, v)
      BY <1>5, <1>9, <1>11, <1>14, SeenSilent
    <2>3. Seen((s.wire[c] \o <<n>>) \o ps, h, v) <=> Seen(s.wire[c], h, v)
      BY <1>5, <1>10, <1>14, <2>2, SeenSilent
    <2>4. Seen(t.wire[c], h, v) <=> Seen(s.wire[c], h, v)
      BY <1>3, <1>10, <2>1, <2>3
    <2>5. /\ Attached(s, h) => Seen(s.wire[c], h, v)
          /\ Seen(s.wire[c], h, v) => Attached(s, h) \/ s.gdi[h].isBlocked
      BY <1>2, <1>14 DEF Viewed, v
    <2> QED BY <1>4, <1>14, <2>4, <2>5
  <1> QED BY <1>7, <1>8, <1>12, <1>13, <1>14 DEF up

LEMMA DownHeard ==
  ASSUME NEW s, NEW down0 \in SUBSET Game, NEW out \in [Game -> Seq(Packet)],
         Good(s), GameQueueMax # 0, \A x \in down0 : ~ Attached(s, x),
         NEW g \in Game, NEW c, NEW r, NEW d,
         Heard(s, r, g, c, d) \/ \E i \in 1 .. Len(out[g]) : Informs(out[g][i])
  PROVE  Heard(DispatchDown(s, down0, out), r, g, c, d)
  <1> DEFINE t == DispatchDown(s, down0, out)
             ps == out[g]
  <1> SUFFICES ASSUME Fed(t, g, c), r PROVE Informed(t.wire[c], d)
    BY DEF Heard
  <1>1. PICK down \in SUBSET Game : Delivery(s, t, down0, down, ps, g, c)
    BY Delivered
  <1> DEFINE n == [type |-> "gameDown", games |-> down]
  <1>2. Fed(s, g, c)
    BY <1>1 DEF Delivery
  <1>3. t.wire[c] = s.wire[c] \o ps \/ t.wire[c] = s.wire[c] \o (<<n>> \o ps)
    BY <1>1 DEF Delivery
  <1>4. s.wire[c] \in Seq(Packet) /\ ps \in Seq(Packet) /\ n \in Packet
    BY <1>2 DEF Good, Snapshot, Fed, Packet
  <1>5. Informed(s.wire[c], d) \/ \E i \in 1 .. Len(ps) : Informs(ps[i])
    BY <1>2 DEF Heard
  <1> HIDE DEF t, n, ps
  <1>6. <<n>> \in Seq(Packet)
    BY <1>4
  <1>7. /\ s.wire[c] \o (<<n>> \o ps) = (s.wire[c] \o <<n>>) \o ps
        /\ s.wire[c] \o <<n>> \in Seq(Packet)
    BY <1>4, <1>6, ConcatAssoc
  <1>8. Informed(s.wire[c] \o ps, d)
    BY <1>4, <1>5, InformedMore
  <1>9. Informed(s.wire[c] \o <<n>>, d) \/ \E i \in 1 .. Len(ps) : Informs(ps[i])
    BY <1>4, <1>5, <1>6, InformedMore
  <1>10. Informed((s.wire[c] \o <<n>>) \o ps, d)
    BY <1>4, <1>7, <1>9, InformedMore
  <1> QED BY <1>3, <1>7, <1>8, <1>10

LEMMA DownLetters ==
  ASSUME NEW s, NEW down0, NEW out, Letters(s)
  PROVE  Letters(DispatchDown(s, down0, out))
  <1> DEFINE t == DispatchDown(s, down0, out)
  <1>1. \A e \in Entity : t.edi[e] \in {s.edi[e], NoEntityInfo}
    BY DEF DispatchDown
  <1>2. <<>> \in Seq(Plain) /\ NoEntityInfo.pending = <<>>
    BY DEF NoEntityInfo
  <1> HIDE DEF t
  <1>3. Letters(t)
    BY <1>1, <1>2 DEF Letters
  <1> QED BY <1>3 DEF t

LEMMA DispatchKeepsViews ==
  ASSUME NEW s, NEW out \in [Game -> Seq(Plain)], Good(s), Letters(s), GameQueueMax # 0
  PROVE  Keeps(s, Dispatch(s, out))
  <1> DEFINE t == DispatchDown(s, {}, out)
  <1>1. ASSUME NEW g \in Game, NEW h PROVE out[g] \in Seq(Packet) /\ Silent(out[g], h)
    <2>1. out[g] \in Seq(Plain)
      OBVIOUS
    <2> QED BY <2>1, PlainSilent
  <1>2. out \in [Game -> Seq(Packet)]
    BY <1>1
  <1>3. ASSUME NEW g \in Game, NEW h \in Game, NEW c \in Conn, NEW o \in SUBSET Game,
               Viewed(s, g, h, c, o)
        PROVE  Viewed(t, g, h, c, o)
    BY <1>1, <1>2, <1>3, DownViewed
  <1>4. ASSUME NEW g \in Game, NEW c \in Conn, NEW r \in BOOLEAN, NEW d \in BOOLEAN,
               Heard(s, r, g, c, d)
        PROVE  Heard(t, r, g, c, d)
    BY <1>2, <1>4, DownHeard
  <1>5. Letters(t)
    BY DownLetters
  <1> HIDE DEF t
  <1>6. Keeps(s, t)
    BY <1>3, <1>4, <1>5 DEF Keeps, Views, Hears
  <1> QED BY <1>6 DEF t, Dispatch

\* What changes neither the games' connections nor what is written to them.
LEMMA SameViews ==
  ASSUME NEW s, NEW t, Letters(t), t.wire = s.wire,
         \A g \in Game : /\ t.gdi[g].clientProxy = s.gdi[g].clientProxy
                         /\ t.gdi[g].pending = s.gdi[g].pending
                         /\ s.gdi[g].isBlocked => t.gdi[g].isBlocked
  PROVE  Keeps(s, t)
  <1>1. \A g \in Game : \A c : Fed(t, g, c) <=> Fed(s, g, c)
    BY DEF Fed
  <1>2. \A h \in Game : Attached(t, h) <=> Attached(s, h)
    BY DEF Attached
  <1>3. Views(s, t)
    BY <1>1, <1>2 DEF Views, Viewed
  <1>4. Hears(s, t)
    BY <1>1 DEF Hears, Heard
  <1> QED BY <1>3, <1>4 DEF Keeps

LEMMA KeepsTrans ==
  ASSUME NEW s, NEW t, NEW u, Keeps(s, t), Keeps(t, u)
  PROVE  Keeps(s, u)
  BY DEF Keeps, Views, Hears

LEMMA SendPacketWire ==
  ASSUME NEW s, NEW c \in Conn, NEW ps \in Seq(Packet), Good(s)
  PROVE  LET t == SendPacket(s, c, ps)
         IN /\ t.gdi = s.gdi /\ t.edi = s.edi
            /\ \A x \in Conn : t.wire[x] = IF x = c /\ link[c] = "open" THEN s.wire[x] \o ps
                                           ELSE s.wire[x]
  <1> DEFINE t == SendPacket(s, c, ps)
  <1>1. CASE link[c] = "open"
    <2>1. PICK w : w = s.wire[c] \o ps
      OBVIOUS
    <2>2. t = [s EXCEPT !.wire[c] = w]
      BY <1>1, <2>1 DEF SendPacket
    <2>3. s = [edi |-> s.edi, gdi |-> s.gdi, id |-> s.id, wire |-> s.wire] /\ s.wire \in [Conn -> Seq(Packet)]
      BY DEF Good, Snapshot
    <2> HIDE DEF t
    <2>4. t.wire = [s.wire EXCEPT ![c] = w] /\ t.gdi = s.gdi /\ t.edi = s.edi
      BY <2>2, <2>3
    <2>5. /\ t.gdi = s.gdi /\ t.edi = s.edi
          /\ \A x \in Conn : t.wire[x] = IF x = c /\ link[c] = "open" THEN s.wire[x] \o ps
                                         ELSE s.wire[x]
      BY <1>1, <2>1, <2>3, <2>4
    <2> QED BY <2>5 DEF t
  <1>2. CASE link[c] # "open"
    BY <1>2 DEF SendPacket
  <1> QED BY <1>1, <1>2

LEMMA SendPlainViews ==
  ASSUME NEW s, NEW c \in Conn, NEW p \in Plain, Good(s), Letters(s)
  PROVE  Keeps(s, SendPacket(s, c, <<p>>))
  <1> DEFINE t == SendPacket(s, c, <<p>>)
  <1>1. <<p>> \in Seq(Plain)
    OBVIOUS
  <1>2. <<p>> \in Seq(Packet) /\ \A h : Silent(<<p>>, h)
    BY <1>1, PlainSilent
  <1>3. /\ t.gdi = s.gdi /\ t.edi = s.edi
        /\ \A x \in Conn : t.wire[x] = IF x = c /\ link[c] = "open" THEN s.wire[x] \o <<p>>
                                       ELSE s.wire[x]
    BY <1>2, SendPacketWire
  <1>4. \A x \in Conn : s.wire[x] \in Seq(Packet)
    BY DEF Good, Snapshot
  <1> HIDE DEF t
  <1>5. \A x \in Conn : \A h, v : Seen(t.wire[x], h, v) <=> Seen(s.wire[x], h, v)
    <2> SUFFICES ASSUME NEW x \in Conn, NEW h, NEW v
                 PROVE  Seen(t.wire[x], h, v) <=> Seen(s.wire[x], h, v)
      OBVIOUS
    <2>1. Seen(s.wire[x] \o <<p>>, h, v) <=> Seen(s.wire[x], h, v)
      BY <1>2, <1>4, SeenSilent
    <2> QED BY <1>3, <2>1
  <1>6. \A x \in Conn : \A v : Informed(s.wire[x], v) => Informed(t.wire[x], v)
    <2> SUFFICES ASSUME NEW x \in Conn, NEW v, Informed(s.wire[x], v)
                 PROVE  Informed(t.wire[x], v)
      OBVIOUS
    <2>1. Informed(s.wire[x] \o <<p>>, v)
      BY <1>2, <1>4, InformedMore
    <2> QED BY <1>3, <2>1
  <1>7. Letters(t)
    BY <1>3 DEF Letters
  <1>8. \A g \in Game : \A x : Fed(t, g, x) <=> Fed(s, g, x)
    BY <1>3 DEF Fed
  <1>9. \A h : Attached(t, h) <=> Attached(s, h)
    BY <1>3 DEF Attached
  <1>10. Views(s, t)
    BY <1>3, <1>5, <1>8, <1>9 DEF Views, Viewed
  <1>11. Hears(s, t)
    BY <1>6, <1>8 DEF Hears, Heard
  <1>12. Keeps(s, t)
    BY <1>7, <1>10, <1>11 DEF Keeps
  <1> QED BY <1>12 DEF t

\* Nothing that games were or will be told gets wrong by this step.
Stays ==
  /\ Letters(Now)'
  /\ \A g, h \in Game, c \in Conn, o \in SUBSET Game :
       Viewed(Now, g, h, c, o) => Viewed(Now, g, h, c, o)'
  /\ \A g \in Game, c \in Conn, d \in BOOLEAN :
       Heard(Now, ready, g, c, d) => Heard(Now, ready, g, c, d)'

LEMMA CommitStays ==
  ASSUME NEW t, Keeps(Now, t), Commit(t), ready' = ready, ready \in BOOLEAN,
         \A c \in Conn : link'[c] = "open" => link[c] = "open"
  PROVE  Stays
  <1>1. Now'.edi = t.edi /\ Now'.gdi = t.gdi /\ Now'.wire = t.wire
    BY DEF Commit, Now
  <1>2. Letters(Now)'
    BY <1>1 DEF Keeps, Letters
  <1>3. ASSUME NEW g \in Game, NEW c \in Conn, Fed(Now, g, c)' PROVE Fed(t, g, c)
    BY <1>1, <1>3 DEF Fed
  <1>4. ASSUME NEW g \in Game, NEW h \in Game, NEW c \in Conn, NEW o \in SUBSET Game,
               Viewed(Now, g, h, c, o)
        PROVE  Viewed(Now, g, h, c, o)'
    <2>1. Viewed(t, g, h, c, o)
      BY <1>4 DEF Keeps, Views
    <2> QED BY <1>1, <1>3, <2>1 DEF Viewed, Attached
  <1>5. ASSUME NEW g \in Game, NEW c \in Conn, NEW d \in BOOLEAN, Heard(Now, ready, g, c, d)
        PROVE  Heard(Now, ready, g, c, d)'
    <2>1. Heard(t, ready, g, c, d)
      BY <1>5 DEF Keeps, Hears
    <2> QED BY <1>1, <1>3, <2>1 DEF Heard
  <1> QED BY <1>2, <1>4, <1>5 DEF Stays

LEMMA EntityViews ==
  ASSUME NEW s, NEW e \in Entity, NEW i, Good(s), Letters(s), i.pending \in Seq(Plain)
  PROVE  Keeps(s, [s EXCEPT !.edi[e] = i])
  <1> DEFINE t == [s EXCEPT !.edi[e] = i]
  <1>1. s = [edi |-> s.edi, gdi |-> s.gdi, id |-> s.id, wire |-> s.wire]
    BY DEF Good, Snapshot
  <1>2. t.gdi = s.gdi /\ t.wire = s.wire /\ t.edi = [s.edi EXCEPT ![e] = i]
    BY <1>1
  <1> HIDE DEF t
  <1>3. \A f \in Entity : t.edi[f] = IF f = e THEN i ELSE s.edi[f]
    BY <1>2 DEF Good, Snapshot
  <1>4. Letters(t)
    BY <1>3 DEF Letters
  <1>5. Keeps(s, t)
    BY <1>2, <1>4, SameViews
  <1> QED BY <1>5 DEF t

LEMMA ForWriteViews ==
  ASSUME NEW s, NEW e \in Entity, Good(s), Letters(s)
  PROVE  Keeps(s, ForWrite(s, e))
  <1> DEFINE i == [s.edi[e] EXCEPT !.known = TRUE]
  <1>1. ForWrite(s, e) = [s EXCEPT !.edi[e] = i]
    BY DEF ForWrite
  <1>2. i.pending = s.edi[e].pending
    BY DEF Good, Snapshot, EntityInfo
  <1> HIDE DEF i
  <1> QED BY <1>1, <1>2, EntityViews DEF Letters

LEMMA BlockRPCViews ==
  ASSUME NEW s, NEW e \in Entity, Good(s), Letters(s)
  PROVE  Keeps(s, BlockRPC(s, e))
  <1> DEFINE i == [s.edi[e] EXCEPT !.blockUntil = "future"]
  <1>1. BlockRPC(s, e) = [s EXCEPT !.edi[e] = i]
    BY DEF BlockRPC
  <1>2. i.pending = s.edi[e].pending
    BY DEF Good, Snapshot, EntityInfo
  <1> HIDE DEF i
  <1> QED BY <1>1, <1>2, EntityViews DEF Letters

LEMMA RouteViews ==
  ASSUME NEW s, NEW e \in Entity, NEW g, Good(s), Letters(s)
  PROVE  Keeps(s, [s EXCEPT !.edi[e].gameid = g])
  <1> DEFINE i == [s.edi[e] EXCEPT !.gameid = g]
  <1>1. [s EXCEPT !.edi[e].gameid = g] = [s EXCEPT !.edi[e] = i]
    OBVIOUS
  <1>2. i.pending = s.edi[e].pending
    BY DEF Good, Snapshot, EntityInfo
  <1> HIDE DEF i
  <1> QED BY <1>1, <1>2, EntityViews DEF Letters

LEMMA UnblockViews ==
  ASSUME NEW s, NEW e \in Entity, Good(s), Letters(s), GameQueueMax # 0
  PROVE  Keeps(s, Unblock(s, e))
  <1> DEFINE i == Released(s.edi[e])
             t == [s EXCEPT !.edi[e] = i]
  <1>1. /\ s.edi[e] \in EntityInfo /\ Entry(s.edi[e])
        /\ s.edi[e].pending \in Seq(Plain) /\ <<>> \in Seq(Plain)
    BY DEF Good, Snapshot, Entries, Letters
  <1>2. i \in EntityInfo /\ Entry(i) /\ i.pending \in Seq(Plain)
    BY <1>1, ReleasedTyped DEF Entry
  <1> HIDE DEF i
  <1>3. Good(t) /\ Keeps(s, t)
    BY <1>2, EntityUpdate, EntityViews
  <1> HIDE DEF t
  <1>4. To(s.edi[e].gameid, s.edi[e].pending) \in [Game -> Seq(Plain)]
    BY <1>1, ToFrom
  <1>5. Keeps(t, Dispatch(t, To(s.edi[e].gameid, s.edi[e].pending)))
    BY <1>3, <1>4, DispatchKeepsViews DEF Keeps
  <1>6. Keeps(s, Dispatch(t, To(s.edi[e].gameid, s.edi[e].pending)))
    BY <1>3, <1>5, KeepsTrans
  <1>7. Keeps(s, s)
    BY DEF Keeps, Views, Hears
  <1> QED BY <1>6, <1>7 DEF Unblock, t, i

LEMMA DispatchToEntityViews ==
  ASSUME NEW s, NEW e \in Entity, NEW p \in Plain, Good(s), Letters(s), GameQueueMax # 0
  PROVE  Keeps(s, DispatchToEntity(s, e, p))
  <1>1. s.edi[e] \in EntityInfo /\ s.edi[e].pending \in Seq(Plain) /\ <<p>> \in Seq(Plain)
    BY DEF Good, Snapshot, Letters
  <1>2. CASE s.edi[e].blockUntil = "zero"
    <2>1. To(s.edi[e].gameid, <<p>>) \in [Game -> Seq(Plain)]
      BY <1>1, ToFrom
    <2>2. Keeps(s, Dispatch(s, To(s.edi[e].gameid, <<p>>)))
      BY <2>1, DispatchKeepsViews
    <2> QED BY <1>2, <2>2 DEF DispatchToEntity
  <1>3. CASE s.edi[e].blockUntil = "future"
    <2> DEFINE q == Hold(s.edi[e].pending, <<p>>, EntityQueueMax)
               i == [s.edi[e] EXCEPT !.pending = q]
    <2>1. q \in Seq(Plain)
      BY <1>1, HoldTyped, BoundAssumption
    <2> HIDE DEF q
    <2>2. i.pending \in Seq(Plain)
      BY <1>1, <2>1 DEF EntityInfo
    <2> HIDE DEF i
    <2>3. Keeps(s, [s EXCEPT !.edi[e] = i])
      BY <2>2, EntityViews
    <2>4. DispatchToEntity(s, e, p) = [s EXCEPT !.edi[e] = i]
      BY <1>3 DEF DispatchToEntity, i, q
    <2> QED BY <2>3, <2>4
  <1>4. CASE s.edi[e].blockUntil \notin {"zero", "future"}
    BY <1>4, UnblockViews DEF DispatchToEntity, OnTimeout
  <1> QED BY <1>2, <1>3, <1>4

\* A game that is disconnected while it is frozen stays in view; the others are told.
LEMMA GameDisconnectedViews ==
  ASSUME NEW s, NEW c \in Conn, s.id[c] \in Game, Good(s), Letters(s), GameQueueMax # 0
  PROVE  Keeps(s, GameDisconnected(s, c))
  <1> DEFINE g == s.id[c]
             i == [s.gdi[g] EXCEPT !.clientProxy = None]
             t == [s EXCEPT !.gdi[g] = i]
             u == DispatchDown(t, {g}, Nothing)
  <1>1. s.gdi[g] \in GameInfo /\ ("connected" \in FreezeTimeout \/ Queue(s.gdi[g]))
    BY DEF Good, Snapshot, Queues
  <1>2. /\ i \in GameInfo /\ i.clientProxy = None /\ i.isBlocked = s.gdi[g].isBlocked
        /\ "connected" \in FreezeTimeout \/ Queue(i)
    BY <1>1 DEF GameInfo, Queue
  <1>3. [s EXCEPT !.gdi[g].clientProxy = None] = t
    OBVIOUS
  <1>4. g \in Game
    OBVIOUS
  <1>5. \/ GameDisconnected(s, c) = s
        \/ s.gdi[g].isBlocked /\ GameDisconnected(s, c) = t
        \/ GameDisconnected(s, c) = u
    BY <1>3 DEF GameDisconnected, WaitsForRestore
  <1> HIDE DEF i, g
  <1>6. /\ Good(t) /\ t.edi = s.edi /\ t.gdi[g] = i
        /\ \A h \in Game \ {g} : t.gdi[h] = s.gdi[h]
    BY <1>2, <1>4, GameUpdate
  <1>7. t.wire = s.wire
    <2>1. s = [edi |-> s.edi, gdi |-> s.gdi, id |-> s.id, wire |-> s.wire]
      BY DEF Good, Snapshot
    <2> QED BY <2>1
  <1> HIDE DEF t
  <1>8. Letters(t)
    BY <1>6 DEF Letters
  <1>9. ASSUME NEW x \in Game, NEW d \in Conn, Fed(t, x, d)
        PROVE  Fed(s, x, d)
    <2>1. x # g
      BY <1>2, <1>6, <1>9, NoneAssumption DEF Fed
    <2> QED BY <1>6, <1>9, <2>1 DEF Fed
  <1>10. ASSUME NEW x \in Game, NEW d \in Conn, NEW h \in Game, NEW o \in SUBSET Game,
                Viewed(s, x, h, d, o), h # g \/ s.gdi[g].isBlocked
         PROVE  Viewed(t, x, h, d, o)
    <2>1. CASE h # g
      BY <1>6, <1>7, <1>9, <1>10, <2>1 DEF Viewed, Attached
    <2>2. CASE h = g
      BY <1>2, <1>6, <1>7, <1>9, <1>10, <2>2 DEF Viewed, Attached
    <2> QED BY <2>1, <2>2
  <1>11. Hears(s, t)
    BY <1>7, <1>9 DEF Hears, Heard
  <1>12. s.gdi[g].isBlocked => Keeps(s, t)
    BY <1>8, <1>10, <1>11 DEF Keeps, Views
  <1>13. Keeps(s, u)
    <2>1. Nothing \in [Game -> Seq(Packet)] /\ {g} \in SUBSET Game
      BY <1>4, ToTyped DEF Nothing
    <2>2. \A h \in {g} : ~ Attached(t, h)
      BY <1>2, <1>6 DEF Attached
    <2>3. \A x \in Game : \A h : Silent(Nothing[x], h)
      <3>1. \A x \in Game : Nothing[x] = <<>>
        BY DEF Nothing
      <3>2. \A h : Silent(<<>>, h)
        BY DEF Silent
      <3> QED BY <3>1, <3>2
    <2>4. ASSUME NEW x \in Game, NEW h \in Game, NEW d \in Conn, NEW o \in SUBSET Game,
                 Viewed(s, x, h, d, o)
          PROVE  Viewed(u, x, h, d, o)
      <3>1. h \in {g} \/ Viewed(t, x, h, d, o)
        BY <1>10, <2>4
      <3> QED BY <1>6, <2>1, <2>2, <2>3, <3>1, DownViewed
    <2>5. ASSUME NEW x \in Game, NEW d \in Conn, NEW r \in BOOLEAN, NEW b \in BOOLEAN,
                 Heard(s, r, x, d, b)
          PROVE  Heard(u, r, x, d, b)
      <3>1. Heard(t, r, x, d, b)
        BY <1>11, <2>5 DEF Hears
      <3> QED BY <1>6, <2>1, <2>2, <3>1, DownHeard
    <2>6. Letters(u)
      BY <1>8, DownLetters
    <2> HIDE DEF u
    <2> QED BY <2>4, <2>5, <2>6 DEF Keeps, Views, Hears
  <1>14. Keeps(s, s)
    BY DEF Keeps, Views, Hears
  <1> HIDE DEF u
  <1> QED BY <1>5, <1>12, <1>13, <1>14

LEMMA GateDisconnectedViews ==
  ASSUME NEW s, NEW c \in Conn, s.id[c] \in Gate, Good(s), Letters(s), GameQueueMax # 0
  PROVE  Keeps(s, GateDisconnected(s, c))
  <1> DEFINE ps  == <<[type |-> "gateDown", gate |-> s.id[c]]>>
             out == ToAllExcept(None, ps)
  <1>1. ps \in Seq(Plain)
    <2>1. [type |-> "gateDown", gate |-> s.id[c]] \in Plain
      BY DEF Packet, Plain, News
    <2> QED BY <2>1
  <1> HIDE DEF ps
  <1>2. out \in [Game -> Seq(Plain)]
    BY <1>1, ToFrom
  <1> HIDE DEF out
  <1>3. Keeps(s, Dispatch(s, out))
    BY <1>2, DispatchKeepsViews
  <1>4. Keeps(s, s)
    BY DEF Keeps, Views, Hears
  <1> QED BY <1>3, <1>4 DEF GateDisconnected, out, ps

-----------------------------------------------------------------------------
(* Handlers that tell games nothing about games                             *)

LEMMA NotifyCreateStays ==
  ASSUME Inv, Letters(Now), GameQueueMax # 0, NEW c \in Conn, NEW e \in Entity,
         HandleNotifyCreateEntity(c, e)
  PROVE  Stays
  <1> DEFINE r == ForWrite(Now, e)
             s == [r EXCEPT !.edi[e].gameid = GameOf(c)]
             u == Unblock(s, e)
  <1>1. Commit(u) /\ link' = link /\ ready' = ready /\ ready \in BOOLEAN
    BY DEF HandleNotifyCreateEntity, Inv
  <1>2. Good(Now) /\ GameOf(c) \in Game \cup {None}
    BY DEF Inv, GameOf
  <1> HIDE DEF r, s, u
  <1>3. Good(r) /\ r.edi[e].known /\ Keeps(Now, r)
    BY <1>2, ForWriteGood, ForWriteViews DEF r
  <1>4. Good(s) /\ Keeps(r, s)
    BY <1>2, <1>3, RouteGood, RouteViews DEF s, Keeps
  <1>5. Keeps(s, u)
    BY <1>4, UnblockViews DEF u, Keeps
  <1>6. Keeps(Now, u)
    BY <1>3, <1>4, <1>5, KeepsTrans
  <1> QED BY <1>1, <1>6, CommitStays

LEMMA NotifyDestroyStays ==
  ASSUME Inv, Letters(Now), NEW c \in Conn, NEW e \in Entity,
         HandleNotifyDestroyEntity(c, e)
  PROVE  Stays
  <1> DEFINE s == [Now EXCEPT !.edi[e] = NoEntityInfo]
  <1>1. /\ edi' = [edi EXCEPT ![e] = NoEntityInfo] /\ ready \in BOOLEAN
        /\ UNCHANGED <<gdi, id, link, wire, ready>>
    BY DEF HandleNotifyDestroyEntity, Inv
  <1>2. Commit(s)
    BY <1>1 DEF Commit, Now
  <1>3. NoEntityInfo.pending \in Seq(Plain)
    BY DEF NoEntityInfo
  <1>4. Keeps(Now, s)
    BY <1>3, EntityViews DEF Inv
  <1> HIDE DEF s
  <1> QED BY <1>1, <1>2, <1>4, CommitStays

LEMMA LoadStays ==
  ASSUME Inv, Letters(Now), GameQueueMax # 0, NEW c \in Conn, NEW e \in Entity, NEW target,
         HandleLoadEntitySomewhere(c, e, target)
  PROVE  Stays
  <1> DEFINE s == ForWrite(Now, e)
             r(g) == [s EXCEPT !.edi[e].gameid = g]
             b(g) == BlockRPC(r(g), e)
             out(g) == To(g, <<[type |-> "load", entity |-> e]>>)
  <1>1. /\ link' = link /\ ready' = ready /\ ready \in BOOLEAN
        /\ \/ \E g \in Game : Commit(Dispatch(b(g), out(g)))
           \/ Commit(s)
    BY DEF HandleLoadEntitySomewhere, Candidates, Inv
  <1> HIDE DEF s, r, b, out
  <1>2. Good(s) /\ s.edi[e].known /\ Keeps(Now, s)
    BY ForWriteGood, ForWriteViews DEF s, Inv
  <1>3. ASSUME NEW g \in Game
        PROVE  Keeps(Now, Dispatch(b(g), out(g)))
    <2>1. Good(r(g)) /\ Keeps(s, r(g))
      BY <1>2, RouteGood, RouteViews DEF r, Keeps
    <2>2. Good(b(g)) /\ Keeps(r(g), b(g))
      BY <2>1, BlockRPCGood, BlockRPCViews DEF b, Keeps
    <2>3. [type |-> "load", entity |-> e] \in Plain
      BY DEF Packet, Plain, News
    <2>4. <<[type |-> "load", entity |-> e]>> \in Seq(Plain)
      BY <2>3
    <2>5. out(g) \in [Game -> Seq(Plain)]
      BY <2>4, ToFrom DEF out
    <2>6. Keeps(b(g), Dispatch(b(g), out(g)))
      BY <2>2, <2>5, DispatchKeepsViews DEF Keeps
    <2> QED BY <1>2, <2>1, <2>2, <2>6, KeepsTrans
  <1> QED BY <1>1, <1>2, <1>3, CommitStays

LEMMA CreateStays ==
  ASSUME Inv, Letters(Now), GameQueueMax # 0, NEW c \in Conn, NEW e \in Entity, NEW target,
         HandleCreateEntitySomewhere(c, e, target)
  PROVE  Stays
  <1> DEFINE s == ForWrite(Now, e)
             r(g) == [s EXCEPT !.edi[e].gameid = g]
             out(g) == To(g, <<[type |-> "create", entity |-> e]>>)
  <1>1. /\ link' = link /\ ready' = ready /\ ready \in BOOLEAN
        /\ \/ \E g \in Game : Commit(Dispatch(r(g), out(g)))
           \/ Commit(Now)
    BY DEF HandleCreateEntitySomewhere, Candidates, Inv
  <1> HIDE DEF s, r, out
  <1>2. Good(s) /\ s.edi[e].known /\ Keeps(Now, s)
    BY ForWriteGood, ForWriteViews DEF s, Inv
  <1>3. ASSUME NEW g \in Game
        PROVE  Keeps(Now, Dispatch(r(g), out(g)))
    <2>1. Good(r(g)) /\ Keeps(s, r(g))
      BY <1>2, RouteGood, RouteViews DEF r, Keeps
    <2>3. [type |-> "create", entity |-> e] \in Plain
      BY DEF Packet, Plain, News
    <2>4. <<[type |-> "create", entity |-> e]>> \in Seq(Plain)
      BY <2>3
    <2>5. out(g) \in [Game -> Seq(Plain)]
      BY <2>4, ToFrom DEF out
    <2>6. Keeps(r(g), Dispatch(r(g), out(g)))
      BY <2>1, <2>5, DispatchKeepsViews DEF Keeps
    <2> QED BY <1>2, <2>1, <2>6, KeepsTrans
  <1>4. Keeps(Now, Now)
    BY DEF Keeps, Views, Hears
  <1> QED BY <1>1, <1>3, <1>4, CommitStays

LEMMA CallStays ==
  ASSUME Inv, Letters(Now), GameQueueMax # 0, NEW c \in Conn, NEW e \in Entity,
         HandleCallEntityMethod(c, e)
  PROVE  Stays
  <1> DEFINE p == [type |-> "call", entity |-> e, no |-> msgs']
             s == IF edi[e].known THEN DispatchToEntity(Now, e, p) ELSE Now
  <1>1. Handling(c) /\ Commit(s) /\ link' = link /\ ready' = ready /\ ready \in BOOLEAN
    BY DEF HandleCallEntityMethod, Inv
  <1>2. p \in Plain
    BY <1>1, HandlingMsgs DEF Packet, Plain, News
  <1> HIDE DEF p
  <1>3. Keeps(Now, DispatchToEntity(Now, e, p))
    BY <1>2, DispatchToEntityViews DEF Inv
  <1>4. Keeps(Now, Now)
    BY DEF Keeps, Views, Hears
  <1>5. Keeps(Now, s)
    BY <1>3, <1>4
  <1> HIDE DEF s
  <1> QED BY <1>1, <1>5, CommitStays

LEMMA QuerySpaceStays ==
  ASSUME Inv, Letters(Now), NEW c \in Conn, NEW e \in Entity, NEW space \in Entity,
         HandleQuerySpaceGameIDForMigrate(c, e, space)
  PROVE  Stays
  <1> DEFINE p == [type |-> "spaceGame", entity |-> e, space |-> space,
                   game |-> edi[space].gameid]
             s == SendPacket(Now, c, <<p>>)
  <1>1. Commit(s) /\ link' = link /\ ready' = ready /\ ready \in BOOLEAN
    BY DEF HandleQuerySpaceGameIDForMigrate, Inv
  <1>2. p \in Plain
    <2>1. edi[space].gameid \in Game \cup {None}
      BY NowTyped DEF EntityInfo
    <2> QED BY <2>1 DEF Packet, Plain, News
  <1> HIDE DEF p
  <1>3. Keeps(Now, s)
    BY <1>2, SendPlainViews DEF Inv
  <1> HIDE DEF s
  <1> QED BY <1>1, <1>3, CommitStays

LEMMA MigrateRequestStays ==
  ASSUME Inv, Letters(Now), NEW c \in Conn, NEW e \in Entity, NEW space \in Entity,
         NEW target \in Game \cup {None},
         HandleMigrateRequest(c, e, space, target)
  PROVE  Stays
  <1> DEFINE p == [type |-> "migrateAck", entity |-> e, space |-> space, game |-> target]
             r == ForWrite(Now, e)
             b == BlockRPC(r, e)
             s == SendPacket(b, c, <<p>>)
  <1>1. Commit(s) /\ link' = link /\ ready' = ready /\ ready \in BOOLEAN
    BY DEF HandleMigrateRequest, Inv
  <1>2. p \in Plain
    BY DEF Packet, Plain, News
  <1> HIDE DEF p, r, b
  <1>3. Good(r) /\ Keeps(Now, r)
    BY ForWriteGood, ForWriteViews DEF Inv, r
  <1>4. Good(b) /\ Keeps(r, b)
    BY <1>3, BlockRPCGood, BlockRPCViews DEF b, Keeps
  <1>5. Keeps(b, s)
    BY <1>2, <1>4, SendPlainViews DEF Keeps
  <1> HIDE DEF s
  <1>6. Keeps(Now, s)
    BY <1>3, <1>4, <1>5, KeepsTrans
  <1> QED BY <1>1, <1>6, CommitStays

LEMMA CancelMigrateStays ==
  ASSUME Inv, Letters(Now), GameQueueMax # 0, NEW c \in Conn, NEW e \in Entity,
         HandleCancelMigrate(c, e)
  PROVE  Stays
  <1> DEFINE s == IF edi[e].known THEN Unblock(Now, e) ELSE Now
  <1>1. Commit(s) /\ link' = link /\ ready' = ready /\ ready \in BOOLEAN
    BY DEF HandleCancelMigrate, Inv
  <1>2. Keeps(Now, Unblock(Now, e))
    BY UnblockViews DEF Inv
  <1>3. Keeps(Now, Now)
    BY DEF Keeps, Views, Hears
  <1>4. Keeps(Now, s)
    BY <1>2, <1>3
  <1> HIDE DEF s
  <1> QED BY <1>1, <1>4, CommitStays

LEMMA RealMigrateStays ==
  ASSUME Inv, Letters(Now), GameQueueMax # 0, NEW c \in Conn, NEW e \in Entity,
         NEW target \in Game \cup {None},
         HandleRealMigrate(c, e, target)
  PROVE  Stays
  <1> DEFINE r == ForWrite(Now, e)
             i == [Released(r.edi[e]) EXCEPT !.gameid = target]
             s == [r EXCEPT !.edi[e] = i]
             ps == <<[type |-> "realMigrate", entity |-> e]>> \o edi[e].pending
             out == To(target, ps)
  <1>1. Commit(Dispatch(s, out)) /\ link' = link /\ ready' = ready /\ ready \in BOOLEAN
    BY DEF HandleRealMigrate, Inv
  <1>2. ps \in Seq(Plain)
    <2>1. [type |-> "realMigrate", entity |-> e] \in Plain
      BY DEF Packet, Plain, News
    <2>2. edi[e].pending \in Seq(Plain)
      BY NowTyped DEF Letters
    <2> QED BY <2>1, <2>2
  <1> HIDE DEF ps, r
  <1>3. Good(r) /\ r.edi[e] \in EntityInfo /\ r.edi[e].known /\ Keeps(Now, r)
    BY ForWriteGood, ForWriteViews DEF Inv, r
  <1>4. i \in EntityInfo /\ Entry(i) /\ i.pending = <<>>
    <2>1. /\ Released(r.edi[e]) \in EntityInfo /\ Released(r.edi[e]).pending = <<>>
          /\ Released(r.edi[e]).known
      BY <1>3, ReleasedTyped
    <2> QED BY <2>1 DEF EntityInfo, Entry
  <1> HIDE DEF i
  <1>5. <<>> \in Seq(Plain)
    OBVIOUS
  <1>6. Good(s) /\ Keeps(r, s)
    BY <1>3, <1>4, <1>5, EntityUpdate, EntityViews DEF Keeps
  <1>7. out \in [Game -> Seq(Plain)]
    BY <1>2, ToFrom
  <1> HIDE DEF s, out
  <1>8. Keeps(s, Dispatch(s, out))
    BY <1>6, <1>7, DispatchKeepsViews DEF Keeps
  <1>9. Keeps(Now, Dispatch(s, out))
    BY <1>3, <1>6, <1>8, KeepsTrans
  <1> QED BY <1>1, <1>9, CommitStays

LEMMA StartFreezeStays ==
  ASSUME Inv, Letters(Now), NEW c \in Conn, HandleStartFreezeGame(c)
  PROVE  Stays
  <1> DEFINE g == id[c]
             i == [gdi[g] EXCEPT !.isBlocked = TRUE, !.blockUntil = "future"]
             r == [Now EXCEPT !.gdi[g] = i]
             p == [type |-> "freezeAck"]
             s == IF g \notin Game THEN Now ELSE SendPacket(r, c, <<p>>)
  <1>1. Commit(s) /\ link' = link /\ ready' = ready /\ ready \in BOOLEAN
    BY NowTyped DEF HandleStartFreezeGame, Inv
  <1>2. p \in Plain
    BY DEF Packet, Plain, News
  <1>3. ASSUME g \in Game PROVE Good(r) /\ Keeps(Now, r)
    <2>1. gdi[g] \in GameInfo
      BY <1>3, NowTyped
    <2>2. /\ i \in GameInfo /\ i.clientProxy = gdi[g].clientProxy
          /\ i.known = gdi[g].known /\ i.isBlocked /\ i.blockUntil = "future"
          /\ i.pending = gdi[g].pending
      BY <2>1 DEF GameInfo, BlockTime
    <2>3. i.clientProxy # None => i.known /\ id[i.clientProxy] = g
      BY <1>3, <2>2, NowTyped DEF Inv, Good, Identified
    <2>4. Queue(i)
      BY <2>2 DEF Queue
    <2> HIDE DEF i, g
    <2>5. /\ Good(r) /\ r.gdi[g] = i
          /\ \A h \in Game \ {g} : r.gdi[h] = gdi[h]
      BY <1>3, <2>2, <2>3, <2>4, GameUpdate, NowTyped DEF Inv
    <2>6. r.wire = Now.wire /\ r.edi = Now.edi
      BY DEF Now
    <2>7. Letters(r)
      BY <2>6 DEF Letters
    <2> HIDE DEF r
    <2>8. Keeps(Now, r)
      BY <2>2, <2>5, <2>6, <2>7, SameViews, NowTyped
    <2> QED BY <2>5, <2>8
  <1> HIDE DEF r, p
  <1>4. g \in Game => Keeps(r, SendPacket(r, c, <<p>>))
    BY <1>2, <1>3, SendPlainViews DEF Keeps
  <1>5. Keeps(Now, Now)
    BY DEF Keeps, Views, Hears
  <1>6. Keeps(Now, s)
    BY <1>3, <1>4, <1>5, KeepsTrans
  <1> HIDE DEF s
  <1> QED BY <1>1, <1>6, CommitStays

LEMMA DisconnectStays ==
  ASSUME Inv, Letters(Now), GameQueueMax # 0, NEW c \in Conn,
         HandleDispatcherClientDisconnect(c)
  PROVE  Stays
  <1>1. /\ link' = [link EXCEPT ![c] = "gone"] /\ ready' = ready /\ ready \in BOOLEAN
        /\ \A d \in Conn : link'[d] = "open" => link[d] = "open"
    BY DEF HandleDispatcherClientDisconnect, Inv
  <1>2. Good(Now) /\ Now.id = id
    BY NowTyped DEF Inv
  <1>3. CASE id[c] \in Gate /\ Commit(GateDisconnected(Now, c))
    BY <1>1, <1>2, <1>3, GateDisconnectedViews, CommitStays
  <1>4. CASE id[c] \in Game /\ Commit(GameDisconnected(Now, c))
    BY <1>1, <1>2, <1>4, GameDisconnectedViews, CommitStays
  <1>5. CASE UNCHANGED <<edi, gdi, id, wire>>
    <2>1. Commit(Now)
      BY <1>5 DEF Commit, Now
    <2>2. Keeps(Now, Now)
      BY DEF Keeps, Views, Hears
    <2> QED BY <1>1, <2>1, <2>2, CommitStays
  <1> QED BY <1>3, <1>4, <1>5 DEF HandleDispatcherClientDisconnect

\* Time passes, connections come and break.
LEMMA QuietStays ==
  ASSUME Inv, Letters(Now),
         \/ \E e \in Entity : EntityBlockTimesOut(e)
         \/ \E g \in Game : GameBlockTimesOut(g)
         \/ \E c \in Conn : Break(c)
  PROVE  Stays
  <1>1. ready \in BOOLEAN
    BY DEF Inv
  <1>2. ASSUME NEW e \in Entity, EntityBlockTimesOut(e) PROVE Stays
    <2> DEFINE i == [edi[e] EXCEPT !.blockUntil = "past"]
               s == [Now EXCEPT !.edi[e] = i]
    <2>1. Commit(s) /\ link' = link /\ ready' = ready
      BY <1>2 DEF EntityBlockTimesOut, Commit, Now
    <2>2. i.pending = edi[e].pending
      BY NowTyped DEF EntityInfo
    <2>3. i.pending \in Seq(Plain)
      BY <2>2, NowTyped DEF Letters
    <2> HIDE DEF i
    <2>4. Keeps(Now, s)
      BY <2>3, EntityViews DEF Inv
    <2> HIDE DEF s
    <2> QED BY <1>1, <2>1, <2>4, CommitStays
  <1>3. ASSUME NEW g \in Game, GameBlockTimesOut(g) PROVE Stays
    <2> DEFINE i == [gdi[g] EXCEPT !.blockUntil = "past"]
               s == [Now EXCEPT !.gdi[g] = i]
    <2>1. Commit(s) /\ link' = link /\ ready' = ready
      BY <1>3 DEF GameBlockTimesOut, Commit, Now
    <2>2. /\ i.pending = gdi[g].pending /\ i.clientProxy = gdi[g].clientProxy
          /\ i.isBlocked = gdi[g].isBlocked
      BY NowTyped DEF GameInfo
    <2> HIDE DEF i
    <2>3. s.edi = Now.edi /\ s.wire = Now.wire /\ s.gdi = [gdi EXCEPT ![g] = i]
      BY DEF Now
    <2>4. \A h \in Game : s.gdi[h] = IF h = g THEN i ELSE gdi[h]
      BY <2>3, NowTyped
    <2>5. Letters(s)
      BY <2>3 DEF Letters
    <2> HIDE DEF s
    <2>6. Keeps(Now, s)
      BY <2>2, <2>3, <2>4, <2>5, SameViews, NowTyped
    <2> QED BY <1>1, <2>1, <2>6, CommitStays
  <1>4. ASSUME NEW c \in Conn, Break(c) PROVE Stays
    <2>1. PICK n \in 0..Len(wire[c]) : wire' = [wire EXCEPT ![c] = SubSeq(wire[c], 1, n)]
      BY <1>4 DEF Break
    <2>2. /\ link' = [link EXCEPT ![c] = "closed"] /\ ready' = ready
          /\ UNCHANGED <<edi, gdi, id>>
      BY <1>4 DEF Break
    <2>3. \A d \in Conn : link'[d] = "open" => link[d] = "open" /\ wire'[d] = wire[d]
      BY <2>1, <2>2, NowTyped DEF Inv
    <2>4. /\ Now.edi = edi /\ Now.gdi = gdi /\ Now.wire = wire
          /\ Now'.edi = edi /\ Now'.gdi = gdi /\ Now'.wire = wire'
      BY <2>2 DEF Now
    <2>5. Letters(Now)'
      BY <2>2, <2>4 DEF Letters
    <2>6. \A g \in Game, d \in Conn : Fed(Now, g, d)' => Fed(Now, g, d) /\ wire'[d] = wire[d]
      BY <2>2, <2>3, <2>4 DEF Fed
    <2> QED BY <2>2, <2>4, <2>5, <2>6 DEF Stays, Viewed, Heard, Attached
  <1> QED BY <1>2, <1>3, <1>4

-----------------------------------------------------------------------------
(* What queues say of an entity                                             *)

\* Of A there is at most one; B, which came of A, is no more.
One(A) == \A i, j \in A : i = j
Below(B, A) == (B # {} => A # {}) /\ (One(A) => One(B))

\* Where q speaks of e in one of the ways K, and where it acknowledges a freeze.
At(q, K, e) == {i \in 1 .. Len(q) : q[i].type \in K /\ q[i].entity = e}
Acks(q) == {i \in 1 .. Len(q) : q[i].type = "freezeAck"}

Bids(q, e) == At(q, {"load", "create"}, e)
Notes(q, e) == At(q, {"notify"}, e)
Ends(q, e) == At(q, {"destroy"}, e)
Makes(q, e) == At(q, {"create"}, e)

\* The dispatcher holds back what is for a game, until it is back from its freeze.
HeldBack(i) == i.isBlocked /\ i.blockUntil = "future"

\* Packets that give a game no entity and do not let it freeze.
Light == {p \in Packet : p.type \notin {"load", "create", "freezeAck"}}

LEMMA AtConcat ==
  ASSUME NEW T, NEW q \in Seq(T), NEW x \in Seq(T), NEW K, NEW e
  PROVE  /\ At(q, K, e) \subseteq At(q \o x, K, e)
         /\ \A i \in At(q \o x, K, e) :
              i \in At(q, K, e) \/ (i - Len(q) \in At(x, K, e) /\ i > Len(q))
         /\ \A i \in At(x, K, e) : Len(q) + i \in At(q \o x, K, e)
         /\ Acks(q) \subseteq Acks(q \o x)
         /\ \A i \in Acks(q \o x) : i \in Acks(q) \/ i - Len(q) \in Acks(x)
  <1>1. /\ Len(q) \in Nat /\ Len(x) \in Nat /\ Len(q \o x) = Len(q) + Len(x)
        /\ \A i \in 1 .. Len(q) : (q \o x)[i] = q[i]
        /\ \A i \in 1 .. Len(x) : (q \o x)[Len(q) + i] = x[i]
        /\ \A i \in 1 .. (Len(q) + Len(x)) :
             i \in 1 .. Len(q) \/ (i - Len(q) \in 1 .. Len(x) /\ i > Len(q)
                                   /\ (q \o x)[i] = x[i - Len(q)])
    OBVIOUS
  <1>2. \A i \in 1 .. Len(q) : i \in 1 .. (Len(q) + Len(x))
    BY <1>1
  <1>3. \A i \in 1 .. Len(x) : Len(q) + i \in 1 .. (Len(q) + Len(x))
    BY <1>1
  <1>4. PICK y : y = q \o x
    OBVIOUS
  <1> QED BY <1>1, <1>2, <1>3, <1>4 DEF At, Acks

LEMMA AtNothing ==
  ASSUME NEW T, NEW q \in Seq(T), NEW x \in Seq(T), NEW K, NEW e
  PROVE  /\ At(x, K, e) = {} => At(q \o x, K, e) = At(q, K, e)
         /\ Acks(x) = {} => Acks(q \o x) = Acks(q)
  <1>1. At(x, K, e) = {} => At(q \o x, K, e) \subseteq At(q, K, e)
    BY AtConcat
  <1>2. Acks(x) = {} => Acks(q \o x) \subseteq Acks(q)
    BY AtConcat
  <1>3. At(q, K, e) \subseteq At(q \o x, K, e) /\ Acks(q) \subseteq Acks(q \o x)
    BY AtConcat
  <1> QED BY <1>1, <1>2, <1>3

LEMMA AtPrefix ==
  ASSUME NEW T, NEW q \in Seq(T), NEW n \in 0 .. Len(q), NEW K, NEW e
  PROVE  /\ \A i \in At(SubSeq(q, 1, n), K, e) : i \in At(q, K, e) /\ i <= n
         /\ \A i \in At(q, K, e) : i <= n => i \in At(SubSeq(q, 1, n), K, e)
         /\ Acks(SubSeq(q, 1, n)) \subseteq Acks(q)
  <1>3. SubSeq(q, 1, n) \in Seq(T)
    OBVIOUS
  <1>1. PICK y \in Seq(T) : y = SubSeq(q, 1, n)
    BY <1>3
  <1>2. /\ Len(y) = n /\ Len(q) \in Nat
        /\ \A i \in 1 .. n : y[i] = q[i] /\ i \in 1 .. Len(q)
    BY <1>1
  <1> QED BY <1>1, <1>2 DEF At, Acks

LEMMA AtTail ==
  ASSUME NEW T, NEW q \in Seq(T), q # <<>>, NEW K, NEW e
  PROVE  /\ \A i \in At(Tail(q), K, e) : i + 1 \in At(q, K, e) /\ i > 0
         /\ \A i \in At(q, K, e) : i = 1 \/ i - 1 \in At(Tail(q), K, e)
         /\ 1 \in At(q, K, e) <=> Head(q).type \in K /\ Head(q).entity = e
         /\ \A i \in Acks(Tail(q)) : i + 1 \in Acks(q)
         /\ 1 \in Acks(q) <=> Head(q).type = "freezeAck"
  <1>3. Tail(q) \in Seq(T)
    OBVIOUS
  <1>1. PICK y \in Seq(T) : y = Tail(q)
    BY <1>3
  <1>2. /\ Len(q) \in Nat \ {0} /\ Len(y) = Len(q) - 1 /\ Head(q) = q[1]
        /\ \A i \in 1 .. Len(y) : y[i] = q[i + 1] /\ i + 1 \in 1 .. Len(q)
        /\ \A i \in 1 .. Len(q) : i = 1 \/ i - 1 \in 1 .. Len(y)
    BY <1>1
  <1> QED BY <1>1, <1>2 DEF At, Acks

\* What is read of q makes nothing more of it.
LEMMA TailBelow ==
  ASSUME NEW T, NEW q \in Seq(T), q # <<>>, NEW K, NEW e
  PROVE  /\ Below(At(Tail(q), K, e), At(q, K, e))
         /\ One(At(q, K, e)) /\ Head(q).type \in K /\ Head(q).entity = e => At(Tail(q), K, e) = {}
  <1>1. \A i \in At(Tail(q), K, e) : i \in Nat /\ i + 1 \in At(q, K, e) /\ i > 0
    <2>1. \A i \in At(Tail(q), K, e) : i \in Nat
      BY DEF At
    <2> QED BY <2>1, AtTail
  <1>2. One(At(q, K, e)) => One(At(Tail(q), K, e))
    <2> SUFFICES ASSUME One(At(q, K, e)), NEW i \in At(Tail(q), K, e), NEW j \in At(Tail(q), K, e)
                 PROVE  i = j
      BY DEF One
    <2>1. i + 1 = j + 1
      BY <1>1 DEF One
    <2> QED BY <1>1, <2>1
  <1>3. ASSUME One(At(q, K, e)), 1 \in At(q, K, e), NEW i \in At(Tail(q), K, e)
        PROVE  FALSE
    <2>1. i + 1 = 1
      BY <1>1, <1>3 DEF One
    <2> QED BY <1>1, <2>1
  <1> QED BY <1>1, <1>2, <1>3, AtTail DEF Below

LEMMA PrefixBelow ==
  ASSUME NEW T, NEW q \in Seq(T), NEW n \in 0 .. Len(q), NEW K, NEW e
  PROVE  Below(At(SubSeq(q, 1, n), K, e), At(q, K, e))
  BY AtPrefix DEF Below, One

LEMMA AtEmpty ==
  ASSUME NEW K, NEW e
  PROVE  At(<<>>, K, e) = {} /\ Acks(<<>>) = {} /\ One({})
  BY DEF At, Acks, One

LEMMA SubsetBelow ==
  ASSUME NEW A, NEW B \in SUBSET A
  PROVE  Below(B, A)
  BY DEF Below, One

\* Packets that neither make a copy nor acknowledge a freeze.
LEMMA LightQueue ==
  ASSUME NEW x \in Seq(Light), NEW e
  PROVE  x \in Seq(Packet) /\ Bids(x, e) = {} /\ Acks(x) = {}
  <1>1. Light \subseteq Packet
    BY DEF Light
  <1>2. \A i \in 1 .. Len(x) : x[i] \in Light
    OBVIOUS
  <1>3. x \in Seq(Packet)
    BY <1>1
  <1> QED BY <1>2, <1>3 DEF Bids, At, Acks, Light

LEMMA LightHeld ==
  ASSUME NEW q \in Seq(Packet), NEW x \in Seq(Packet), NEW e, NEW max \in Nat,
         Bids(x, e) = {}, Acks(x) = {}
  PROVE  /\ Bids(Hold(q, x, max), e) \subseteq Bids(q, e)
         /\ Acks(Hold(q, x, max)) \subseteq Acks(q)
  <1>6. q \o x \in Seq(Packet)
    OBVIOUS
  <1>1. PICK y \in Seq(Packet) : y = q \o x
    BY <1>6
  <1>2. Bids(y, e) = Bids(q, e) /\ Acks(y) = Acks(q)
    BY <1>1, AtNothing DEF Bids
  <1>3. Len(q) \in Nat /\ Len(y) \in Nat /\ Len(y) >= Len(q)
    BY <1>1
  <1>4. CASE Len(y) <= max
    BY <1>1, <1>2, <1>4 DEF Hold
  <1>5. CASE ~ (Len(y) <= max)
    <2> DEFINE n == IF Len(q) > max THEN Len(q) ELSE max
    <2>1. n \in 0 .. Len(y)
      BY <1>3, <1>5
    <2>2. Hold(q, x, max) = SubSeq(y, 1, n)
      BY <1>1, <1>5 DEF Hold
    <2> HIDE DEF n
    <2>3. /\ \A i \in Bids(SubSeq(y, 1, n), e) : i \in Bids(y, e)
          /\ Acks(SubSeq(y, 1, n)) \subseteq Acks(y)
      BY <2>1, AtPrefix DEF Bids
    <2> QED BY <1>2, <2>2, <2>3
  <1> QED BY <1>4, <1>5

-----------------------------------------------------------------------------
(* What the dispatcher does without making or ending a copy                 *)

\* What is held for entities is light.
Tame(s) == \A e \in Entity : s.edi[e].pending \in Seq(Light)

\* The dispatcher gives up g, which it does not speak to and does not hold anything for.
Fallen(s, t, g) ==
  /\ g \in Game /\ s.gdi[g].clientProxy = None /\ ~ HeldBack(s.gdi[g])
  /\ \A e \in Entity : Bids(t.gdi[g].pending, e) = {}

\* From s to t nothing is dispatched that makes a copy, and no route is changed but for
\* those to games that are given up.
Mild(s, t) ==
  /\ Tame(t) /\ t.id = s.id
  /\ \A c \in Conn :
       /\ \A e \in Entity : Bids(t.wire[c], e) = Bids(s.wire[c], e)
       /\ Acks(t.wire[c]) = Acks(s.wire[c])
       /\ t.wire[c] # s.wire[c] => link[c] = "open" /\ s.id[c] # None
  /\ \A g \in Game :
       /\ t.gdi[g].clientProxy = s.gdi[g].clientProxy
       /\ HeldBack(t.gdi[g]) <=> HeldBack(s.gdi[g])
       /\ \A e \in Entity : Bids(t.gdi[g].pending, e) \subseteq Bids(s.gdi[g].pending, e)
       /\ Acks(t.gdi[g].pending) \subseteq Acks(s.gdi[g].pending)
  /\ \A e \in Entity :
       \/ t.edi[e].gameid = s.edi[e].gameid
       \/ t.edi[e].gameid = None /\ Fallen(s, t, s.edi[e].gameid)

LEMMA MildTrans ==
  ASSUME NEW s, NEW t, NEW u, Mild(s, t), Mild(t, u)
  PROVE  Mild(s, u)
  <1>1. ASSUME NEW e \in Entity
        PROVE  \/ u.edi[e].gameid = s.edi[e].gameid
               \/ u.edi[e].gameid = None /\ Fallen(s, u, s.edi[e].gameid)
    <2>1. CASE t.edi[e].gameid = s.edi[e].gameid
      BY <2>1 DEF Mild, Fallen
    <2>2. CASE t.edi[e].gameid = None /\ Fallen(s, t, s.edi[e].gameid)
      <3> DEFINE g == s.edi[e].gameid
      <3>1. g \in Game /\ \A f \in Entity : Bids(u.gdi[g].pending, f) = {}
        BY <2>2 DEF Mild, Fallen
      <3>2. Fallen(s, u, g)
        BY <2>2, <3>1 DEF Fallen
      <3>3. u.edi[e].gameid = None
        BY <2>2 DEF Mild
      <3> QED BY <3>2, <3>3
    <2> QED BY <2>1, <2>2 DEF Mild
  <1>2. \A c \in Conn :
          /\ \A e \in Entity : Bids(u.wire[c], e) = Bids(s.wire[c], e)
          /\ Acks(u.wire[c]) = Acks(s.wire[c])
          /\ u.wire[c] # s.wire[c] => link[c] = "open" /\ s.id[c] # None
    BY DEF Mild
  <1>3. \A g \in Game :
          /\ u.gdi[g].clientProxy = s.gdi[g].clientProxy
          /\ HeldBack(u.gdi[g]) <=> HeldBack(s.gdi[g])
          /\ \A e \in Entity : Bids(u.gdi[g].pending, e) \subseteq Bids(s.gdi[g].pending, e)
          /\ Acks(u.gdi[g].pending) \subseteq Acks(s.gdi[g].pending)
    BY DEF Mild
  <1>4. Tame(u) /\ u.id = s.id
    BY DEF Mild
  <1> QED BY <1>1, <1>2, <1>3, <1>4 DEF Mild

LEMMA MildSame ==
  ASSUME NEW s, NEW t, Tame(t), t.id = s.id, t.wire = s.wire, t.gdi = s.gdi,
         \A e \in Entity : t.edi[e].gameid = s.edi[e].gameid
  PROVE  Mild(s, t)
  BY DEF Mild

LEMMA MildDown ==
  ASSUME NEW s, NEW down0 \in SUBSET Game, NEW out \in [Game -> Seq(Light)],
         Good(s), Tame(s),
         \A h \in down0 : s.gdi[h].clientProxy = None /\ ~ HeldBack(s.gdi[h])
  PROVE  Mild(s, DispatchDown(s, down0, out))
  <1> DEFINE base    == {h \in Game : s.gdi[h].known /\ out[h] # <<>>}
             spread  == down0 # {} \/ \E h \in base : LapsedDead(s.gdi[h])
             down    == IF spread THEN down0 \cup {h \in Game : LapsedDead(s.gdi[h])}
                        ELSE {}
             reached == IF spread THEN {h \in Game : s.gdi[h].known} ELSE base
             notice  == IF spread THEN <<[type |-> "gameDown", games |-> down]>> ELSE <<>>
             queue   == [h \in Game |-> IF h \in reached THEN notice \o out[h] ELSE <<>>]
             after   == [h \in Game |-> Arrive(h, s.gdi[h], down, reached, queue[h])]
             direct  == {h \in Game : ~after[h].isBlocked /\ after[h].clientProxy # None}
             t       == DispatchDown(s, down0, out)
  <1>1. /\ down \in SUBSET Game
        /\ \A h \in down : s.gdi[h].clientProxy = None /\ ~ HeldBack(s.gdi[h])
    BY DEF LapsedDead, Lapsed, HeldBack
  <1>2. \A h \in Game : queue[h] = IF h \in reached THEN notice \o out[h] ELSE <<>>
    OBVIOUS
  <1>3. t.gdi = after /\ t.id = s.id
    BY DEF DispatchDown
  <1>4. t.wire = [x \in Conn |->
                    IF /\ link[x] = "open" /\ s.id[x] \in direct
                       /\ after[s.id[x]].clientProxy = x
                    THEN s.wire[x] \o queue[s.id[x]] ELSE s.wire[x]]
    BY DEF DispatchDown
  <1>5. \A h \in Game : after[h] = Arrive(h, s.gdi[h], down, reached, queue[h])
    BY DEF after
  <1>6. \A e \in Entity : t.edi[e] = IF s.edi[e].known /\ s.edi[e].gameid \in down
                                     THEN NoEntityInfo ELSE s.edi[e]
    BY DEF DispatchDown
  <1>7. notice \in Seq(Light) /\ <<>> \in Seq(Light)
    <2>1. [type |-> "gameDown", games |-> down] \in Light
      BY <1>1 DEF Packet, Light
    <2> QED BY <2>1
  <1>8. direct \subseteq Game
    OBVIOUS
  <1> HIDE DEF base, down, reached, notice, queue, after, direct, t, spread
  <1>9. ASSUME NEW h \in Game PROVE queue[h] \in Seq(Light)
    <2>1. out[h] \in Seq(Light)
      OBVIOUS
    <2>2. PICK q \in Seq(Light) : q = out[h]
      BY <2>1
    <2>3. notice \o q \in Seq(Light)
      BY <1>7
    <2> QED BY <1>2, <1>7, <2>2, <2>3
  <1>10. /\ \A h \in Game : s.gdi[h] \in GameInfo
         /\ \A c \in Conn : s.wire[c] \in Seq(Packet)
    BY DEF Good, Snapshot
  <1>11. ASSUME NEW h \in Game
         PROVE  /\ after[h].clientProxy = s.gdi[h].clientProxy
                /\ after[h].blockUntil = s.gdi[h].blockUntil
                /\ after[h].isBlocked = (s.gdi[h].isBlocked /\ ~(h \in reached /\ Lapsed(s.gdi[h])))
                /\ after[h].pending = IF ~ after[h].isBlocked /\ s.gdi[h].clientProxy # None
                                      THEN s.gdi[h].pending
                                      ELSE Hold(IF h \in down THEN <<>> ELSE s.gdi[h].pending,
                                                queue[h], GameQueueMax)
    BY <1>5, <1>10 DEF Arrive, GameInfo
  <1>12. ASSUME NEW h \in Game
         PROVE  HeldBack(after[h]) <=> HeldBack(s.gdi[h])
    BY <1>11 DEF HeldBack, Lapsed
  <1>13. ASSUME NEW h \in Game, NEW e \in Entity
         PROVE  /\ Bids(after[h].pending, e) \subseteq Bids(s.gdi[h].pending, e)
                /\ Acks(after[h].pending) \subseteq Acks(s.gdi[h].pending)
                /\ h \in down => Bids(after[h].pending, e) = {}
    <2>1. /\ queue[h] \in Seq(Packet) /\ Bids(queue[h], e) = {} /\ Acks(queue[h]) = {}
          /\ s.gdi[h].pending \in Seq(Packet) /\ <<>> \in Seq(Packet)
      <3>1. s.gdi[h].pending \in Seq(Packet) /\ <<>> \in Seq(Packet)
        BY <1>10 DEF GameInfo
      <3>2. queue[h] \in Seq(Light)
        BY <1>9
      <3> QED BY <3>1, <3>2, LightQueue
    <2>2. GameQueueMax \in Nat
      BY BoundAssumption
    <2>3. /\ Bids(<<>>, e) = {} /\ Acks(<<>>) = {}
      BY AtEmpty DEF Bids
    <2>4. /\ Bids(Hold(<<>>, queue[h], GameQueueMax), e) \subseteq Bids(<<>>, e)
          /\ Acks(Hold(<<>>, queue[h], GameQueueMax)) \subseteq Acks(<<>>)
      BY <2>1, <2>2, LightHeld
    <2>5. /\ Bids(Hold(s.gdi[h].pending, queue[h], GameQueueMax), e) \subseteq Bids(s.gdi[h].pending, e)
          /\ Acks(Hold(s.gdi[h].pending, queue[h], GameQueueMax)) \subseteq Acks(s.gdi[h].pending)
      BY <2>1, <2>2, LightHeld
    <2>6. CASE h \in down
      <3>1. after[h].pending = Hold(<<>>, queue[h], GameQueueMax)
        BY <1>1, <1>11, <2>6
      <3> QED BY <2>3, <2>4, <3>1
    <2>7. CASE h \notin down
      <3>1. after[h].pending \in {s.gdi[h].pending, Hold(s.gdi[h].pending, queue[h], GameQueueMax)}
        BY <1>11, <2>7
      <3> QED BY <2>5, <2>7, <3>1
    <2> QED BY <2>6, <2>7
  <1>14. ASSUME NEW c \in Conn
         PROVE  /\ \A e \in Entity : Bids(t.wire[c], e) = Bids(s.wire[c], e)
                /\ Acks(t.wire[c]) = Acks(s.wire[c])
                /\ t.wire[c] # s.wire[c] => link[c] = "open" /\ s.id[c] # None
    <2>1. CASE t.wire[c] = s.wire[c]
      BY <2>1
    <2>2. CASE t.wire[c] # s.wire[c]
      <3>1. /\ t.wire[c] = s.wire[c] \o queue[s.id[c]]
            /\ link[c] = "open" /\ s.id[c] \in Game
        BY <1>4, <1>8, <2>2
      <3>2. s.id[c] # None
        BY <3>1, NoneAssumption
      <3>3. PICK q \in Seq(Light) : q = queue[s.id[c]]
        BY <1>9, <3>1
      <3>4. \A e \in Entity : q \in Seq(Packet) /\ Bids(q, e) = {} /\ Acks(q) = {}
        BY LightQueue
      <3>5. ASSUME NEW e \in Entity
            PROVE  Bids(s.wire[c] \o q, e) = Bids(s.wire[c], e) /\ Acks(s.wire[c] \o q) = Acks(s.wire[c])
        BY <1>10, <3>4, AtNothing DEF Bids
      <3>7. q \in Seq(Packet) /\ Acks(q) = {}
        BY LightQueue
      <3>6. Acks(s.wire[c] \o q) = Acks(s.wire[c])
        BY <1>10, <3>7, AtNothing
      <3> QED BY <3>1, <3>2, <3>3, <3>5, <3>6
    <2> QED BY <2>1, <2>2
  <1>15. ASSUME NEW e \in Entity
         PROVE  \/ t.edi[e].gameid = s.edi[e].gameid
                \/ t.edi[e].gameid = None /\ Fallen(s, t, s.edi[e].gameid)
    <2>1. CASE s.edi[e].known /\ s.edi[e].gameid \in down
      <3>1. t.edi[e].gameid = None
        BY <1>6, <2>1 DEF NoEntityInfo
      <3>2. s.edi[e].gameid \in Game
        BY <1>1, <2>1
      <3>3. Fallen(s, t, s.edi[e].gameid)
        BY <1>1, <1>3, <1>13, <2>1, <3>2 DEF Fallen
      <3> QED BY <3>1, <3>3
    <2>2. CASE ~ (s.edi[e].known /\ s.edi[e].gameid \in down)
      BY <1>6, <2>2
    <2> QED BY <2>1, <2>2
  <1>16. Tame(t)
    <2>1. NoEntityInfo.pending = <<>>
      BY DEF NoEntityInfo
    <2> QED BY <1>6, <1>7, <2>1 DEF Tame
  <1>17. \A g \in Game : Acks(after[g].pending) \subseteq Acks(s.gdi[g].pending)
    <2> SUFFICES ASSUME NEW g \in Game PROVE Acks(after[g].pending) \subseteq Acks(s.gdi[g].pending)
      OBVIOUS
    <2>1. /\ queue[g] \in Seq(Packet) /\ Acks(queue[g]) = {} /\ Bids(queue[g], {}) = {}
          /\ s.gdi[g].pending \in Seq(Packet) /\ <<>> \in Seq(Packet)
      <3>1. s.gdi[g].pending \in Seq(Packet) /\ <<>> \in Seq(Packet)
        BY <1>10 DEF GameInfo
      <3>2. queue[g] \in Seq(Light)
        BY <1>9
      <3> QED BY <3>1, <3>2, LightQueue
    <2>2. GameQueueMax \in Nat
      BY BoundAssumption
    <2>3. Acks(Hold(<<>>, queue[g], GameQueueMax)) \subseteq Acks(<<>>)
      <3>1. Bids(<<>>, {}) = {}
        BY AtEmpty DEF Bids
      <3> QED BY <2>1, <2>2, LightHeld
    <2>4. Acks(Hold(s.gdi[g].pending, queue[g], GameQueueMax)) \subseteq Acks(s.gdi[g].pending)
      BY <2>1, <2>2, LightHeld
    <2>5. Acks(<<>>) = {}
      BY AtEmpty
    <2>6. after[g].pending \in {s.gdi[g].pending, Hold(<<>>, queue[g], GameQueueMax),
                                Hold(s.gdi[g].pending, queue[g], GameQueueMax)}
      BY <1>11
    <2> QED BY <2>3, <2>4, <2>5, <2>6
  <1>18. \A g \in Game :
           /\ t.gdi[g].clientProxy = s.gdi[g].clientProxy
           /\ HeldBack(t.gdi[g]) <=> HeldBack(s.gdi[g])
           /\ \A e \in Entity : Bids(t.gdi[g].pending, e) \subseteq Bids(s.gdi[g].pending, e)
           /\ Acks(t.gdi[g].pending) \subseteq Acks(s.gdi[g].pending)
    BY <1>3, <1>11, <1>12, <1>13, <1>17
  <1>19. Mild(s, t)
    BY <1>3, <1>14, <1>15, <1>16, <1>18 DEF Mild
  <1> QED BY <1>19 DEF t

LEMMA MildDispatch ==
  ASSUME NEW s, NEW out \in [Game -> Seq(Light)], Good(s), Tame(s)
  PROVE  Mild(s, Dispatch(s, out))
  <1>1. {} \in SUBSET Game
    OBVIOUS
  <1>2. \A h \in {} : s.gdi[h].clientProxy = None /\ ~ HeldBack(s.gdi[h])
    OBVIOUS
  <1>3. Mild(s, DispatchDown(s, {}, out))
    BY <1>1, <1>2, MildDown
  <1> QED BY <1>3 DEF Dispatch

\* One entry changes, for good or without its route.
LEMMA EntityMild ==
  ASSUME NEW s, NEW e \in Entity, NEW i, Good(s), Tame(s), i.pending \in Seq(Light)
  PROVE  LET t == [s EXCEPT !.edi[e] = i]
         IN /\ Tame(t) /\ t.id = s.id /\ t.wire = s.wire /\ t.gdi = s.gdi
            /\ \A f \in Entity : t.edi[f] = IF f = e THEN i ELSE s.edi[f]
            /\ i.gameid = s.edi[e].gameid => Mild(s, t)
  <1> DEFINE t == [s EXCEPT !.edi[e] = i]
  <1>1. s = [edi |-> s.edi, gdi |-> s.gdi, id |-> s.id, wire |-> s.wire]
    BY DEF Good, Snapshot
  <1>2. t.gdi = s.gdi /\ t.wire = s.wire /\ t.id = s.id /\ t.edi = [s.edi EXCEPT ![e] = i]
    BY <1>1
  <1> HIDE DEF t
  <1>3. \A f \in Entity : t.edi[f] = IF f = e THEN i ELSE s.edi[f]
    BY <1>2 DEF Good, Snapshot
  <1>4. Tame(t)
    BY <1>3 DEF Tame
  <1>5. i.gameid = s.edi[e].gameid => Mild(s, t)
    <2> SUFFICES ASSUME i.gameid = s.edi[e].gameid PROVE Mild(s, t)
      OBVIOUS
    <2>1. \A f \in Entity : t.edi[f].gameid = s.edi[f].gameid
      BY <1>3
    <2> QED BY <1>2, <1>4, <2>1, MildSame
  <1> QED BY <1>2, <1>3, <1>4, <1>5 DEF t

LEMMA ForWriteMild ==
  ASSUME NEW s, NEW e \in Entity, Good(s), Tame(s)
  PROVE  Mild(s, ForWrite(s, e)) /\ ForWrite(s, e).wire = s.wire
  <1> DEFINE i == [s.edi[e] EXCEPT !.known = TRUE]
  <1>1. ForWrite(s, e) = [s EXCEPT !.edi[e] = i]
    BY DEF ForWrite
  <1>2. i.pending = s.edi[e].pending /\ i.gameid = s.edi[e].gameid
    BY DEF Good, Snapshot, EntityInfo
  <1> HIDE DEF i
  <1> QED BY <1>1, <1>2, EntityMild DEF Tame

LEMMA BlockRPCMild ==
  ASSUME NEW s, NEW e \in Entity, Good(s), Tame(s)
  PROVE  Mild(s, BlockRPC(s, e)) /\ BlockRPC(s, e).wire = s.wire
  <1> DEFINE i == [s.edi[e] EXCEPT !.blockUntil = "future"]
  <1>1. BlockRPC(s, e) = [s EXCEPT !.edi[e] = i]
    BY DEF BlockRPC
  <1>2. i.pending = s.edi[e].pending /\ i.gameid = s.edi[e].gameid
    BY DEF Good, Snapshot, EntityInfo
  <1> HIDE DEF i
  <1> QED BY <1>1, <1>2, EntityMild DEF Tame

\* A new route, the rest as it was.
LEMMA RouteTame ==
  ASSUME NEW s, NEW e \in Entity, NEW g, Good(s), Tame(s)
  PROVE  LET t == [s EXCEPT !.edi[e].gameid = g]
         IN /\ Tame(t) /\ t.id = s.id /\ t.wire = s.wire /\ t.gdi = s.gdi
            /\ \A f \in Entity : t.edi[f].gameid = IF f = e THEN g ELSE s.edi[f].gameid
  <1> DEFINE i == [s.edi[e] EXCEPT !.gameid = g]
             t == [s EXCEPT !.edi[e].gameid = g]
  <1>1. t = [s EXCEPT !.edi[e] = i]
    OBVIOUS
  <1>2. i.pending \in Seq(Light) /\ i.gameid = g
    BY DEF Good, Snapshot, EntityInfo, Tame
  <1> HIDE DEF i, t
  <1>3. /\ Tame(t) /\ t.id = s.id /\ t.wire = s.wire /\ t.gdi = s.gdi
        /\ \A f \in Entity : t.edi[f] = IF f = e THEN i ELSE s.edi[f]
    <2>1. LET u == [s EXCEPT !.edi[e] = i]
          IN /\ Tame(u) /\ u.id = s.id /\ u.wire = s.wire /\ u.gdi = s.gdi
             /\ \A f \in Entity : u.edi[f] = IF f = e THEN i ELSE s.edi[f]
             /\ i.gameid = s.edi[e].gameid => Mild(s, u)
      BY <1>2, EntityMild
    <2>2. PICK u : u = [s EXCEPT !.edi[e] = i]
      OBVIOUS
    <2> QED BY <1>1, <2>1, <2>2
  <1>4. \A f \in Entity : t.edi[f].gameid = IF f = e THEN g ELSE s.edi[f].gameid
    BY <1>2, <1>3
  <1> QED BY <1>3, <1>4 DEF t

LEMMA UnblockMild ==
  ASSUME NEW s, NEW e \in Entity, Good(s), Tame(s)
  PROVE  Mild(s, Unblock(s, e))
  <1> DEFINE i == Released(s.edi[e])
             t == [s EXCEPT !.edi[e] = i]
  <1>1. /\ s.edi[e] \in EntityInfo /\ Entry(s.edi[e])
        /\ s.edi[e].pending \in Seq(Light) /\ <<>> \in Seq(Light)
    BY DEF Good, Snapshot, Entries, Tame
  <1>2. /\ i \in EntityInfo /\ Entry(i) /\ i.pending \in Seq(Light)
        /\ i.gameid = s.edi[e].gameid
    BY <1>1, ReleasedTyped DEF Entry
  <1> HIDE DEF i
  <1>3. Good(t) /\ Mild(s, t)
    BY <1>2, EntityUpdate, EntityMild
  <1> HIDE DEF t
  <1>4. To(s.edi[e].gameid, s.edi[e].pending) \in [Game -> Seq(Light)]
    BY <1>1, ToFrom
  <1>5. Mild(t, Dispatch(t, To(s.edi[e].gameid, s.edi[e].pending)))
    BY <1>3, <1>4, MildDispatch DEF Mild
  <1>6. Mild(s, Dispatch(t, To(s.edi[e].gameid, s.edi[e].pending)))
    BY <1>3, <1>5, MildTrans
  <1>7. Mild(s, s)
    BY MildSame
  <1> QED BY <1>6, <1>7 DEF Unblock, t, i

LEMMA DispatchToEntityMild ==
  ASSUME NEW s, NEW e \in Entity, NEW p \in Light, Good(s), Tame(s)
  PROVE  Mild(s, DispatchToEntity(s, e, p))
  <1>1. s.edi[e] \in EntityInfo /\ s.edi[e].pending \in Seq(Light) /\ <<p>> \in Seq(Light)
    BY DEF Good, Snapshot, Tame
  <1>2. CASE s.edi[e].blockUntil = "zero"
    <2>1. To(s.edi[e].gameid, <<p>>) \in [Game -> Seq(Light)]
      BY <1>1, ToFrom
    <2>2. Mild(s, Dispatch(s, To(s.edi[e].gameid, <<p>>)))
      BY <2>1, MildDispatch
    <2> QED BY <1>2, <2>2 DEF DispatchToEntity
  <1>3. CASE s.edi[e].blockUntil = "future"
    <2> DEFINE q == Hold(s.edi[e].pending, <<p>>, EntityQueueMax)
               i == [s.edi[e] EXCEPT !.pending = q]
    <2>1. q \in Seq(Light)
      BY <1>1, HoldTyped, BoundAssumption
    <2> HIDE DEF q
    <2>2. i.pending \in Seq(Light) /\ i.gameid = s.edi[e].gameid
      BY <1>1, <2>1 DEF EntityInfo
    <2> HIDE DEF i
    <2>3. Mild(s, [s EXCEPT !.edi[e] = i])
      BY <2>2, EntityMild
    <2>4. DispatchToEntity(s, e, p) = [s EXCEPT !.edi[e] = i]
      BY <1>3 DEF DispatchToEntity, i, q
    <2> QED BY <2>3, <2>4
  <1>4. CASE s.edi[e].blockUntil \notin {"zero", "future"}
    BY <1>4, UnblockMild DEF DispatchToEntity, OnTimeout
  <1> QED BY <1>2, <1>3, <1>4

LEMMA SendMild ==
  ASSUME NEW s, NEW c \in Conn, NEW ps \in Seq(Light), Good(s), Tame(s), s.id[c] # None
  PROVE  Mild(s, SendPacket(s, c, ps))
  <1> DEFINE t == SendPacket(s, c, ps)
  <1>1. ps \in Seq(Packet) /\ Acks(ps) = {} /\ \A e \in Entity : Bids(ps, e) = {}
    BY LightQueue
  <1>2. /\ t.gdi = s.gdi /\ t.edi = s.edi /\ t.id = s.id
        /\ \A x \in Conn : t.wire[x] = IF x = c /\ link[c] = "open" THEN s.wire[x] \o ps
                                       ELSE s.wire[x]
    BY <1>1, SendPacketWire, SendPacketGood
  <1>3. \A x \in Conn : s.wire[x] \in Seq(Packet)
    BY DEF Good, Snapshot
  <1> HIDE DEF t
  <1>4. ASSUME NEW x \in Conn
        PROVE  /\ \A e \in Entity : Bids(t.wire[x], e) = Bids(s.wire[x], e)
               /\ Acks(t.wire[x]) = Acks(s.wire[x])
               /\ t.wire[x] # s.wire[x] => link[x] = "open" /\ s.id[x] # None
    <2>1. ASSUME NEW e \in Entity PROVE Bids(s.wire[x] \o ps, e) = Bids(s.wire[x], e)
      BY <1>1, <1>3, AtNothing DEF Bids
    <2>2. Acks(s.wire[x] \o ps) = Acks(s.wire[x])
      BY <1>1, <1>3, AtNothing
    <2> QED BY <1>2, <2>1, <2>2
  <1>5. Tame(t)
    BY <1>2 DEF Tame
  <1>6. Mild(s, t)
    BY <1>2, <1>4, <1>5 DEF Mild
  <1> QED BY <1>6 DEF t

\* A game loses its connection, if it is its current one; the rest is mild.
Cut(s, t, g) ==
  /\ Good(t) /\ Tame(t) /\ t.edi = s.edi /\ t.id = s.id /\ t.wire = s.wire
  /\ \A h \in Game : /\ t.gdi[h].clientProxy = IF h = g THEN None ELSE s.gdi[h].clientProxy
                     /\ HeldBack(t.gdi[h]) <=> HeldBack(s.gdi[h])
                     /\ t.gdi[h].pending = s.gdi[h].pending

LEMMA GameDisconnectedMild ==
  ASSUME NEW s, NEW c \in Conn, s.id[c] \in Game, Good(s), Tame(s)
  PROVE  \/ GameDisconnected(s, c) = s /\ s.gdi[s.id[c]].clientProxy # c
         \/ /\ s.gdi[s.id[c]].clientProxy = c
            /\ \E t : Cut(s, t, s.id[c]) /\ Mild(t, GameDisconnected(s, c))
  <1> DEFINE g == s.id[c]
             i == [s.gdi[g] EXCEPT !.clientProxy = None]
             t == [s EXCEPT !.gdi[g] = i]
  <1>1. s.gdi[g] \in GameInfo /\ ("connected" \in FreezeTimeout \/ Queue(s.gdi[g]))
    BY DEF Good, Snapshot, Queues
  <1>2. /\ i \in GameInfo /\ i.clientProxy = None
        /\ i.isBlocked = s.gdi[g].isBlocked /\ i.blockUntil = s.gdi[g].blockUntil
        /\ i.pending = s.gdi[g].pending
        /\ "connected" \in FreezeTimeout \/ Queue(i)
    BY <1>1 DEF GameInfo, Queue
  <1>3. [s EXCEPT !.gdi[g].clientProxy = None] = t
    OBVIOUS
  <1>4. g \in Game
    OBVIOUS
  <1> HIDE DEF i, g
  <1>5. Good(t) /\ t.id = s.id /\ t.edi = s.edi /\ t.gdi[g] = i
        /\ \A h \in Game \ {g} : t.gdi[h] = s.gdi[h]
    BY <1>2, <1>4, GameUpdate
  <1>6. t.wire = s.wire
    <2>1. s = [edi |-> s.edi, gdi |-> s.gdi, id |-> s.id, wire |-> s.wire]
      BY DEF Good, Snapshot
    <2> QED BY <2>1
  <1> HIDE DEF t
  <1>7. Cut(s, t, g)
    <2>1. Tame(t)
      BY <1>5 DEF Tame
    <2>2. \A h \in Game : /\ t.gdi[h].clientProxy = IF h = g THEN None ELSE s.gdi[h].clientProxy
                          /\ HeldBack(t.gdi[h]) <=> HeldBack(s.gdi[h])
                          /\ t.gdi[h].pending = s.gdi[h].pending
      BY <1>2, <1>5 DEF HeldBack
    <2> QED BY <1>5, <1>6, <2>1, <2>2 DEF Cut
  <1>8. CASE s.gdi[g].clientProxy # c
    BY <1>8 DEF GameDisconnected, IsCurrent, g
  <1>9. CASE s.gdi[g].clientProxy = c
    <2>1. CASE s.gdi[g].isBlocked
      <3>1. GameDisconnected(s, c) = t
        BY <1>3, <1>9, <2>1 DEF GameDisconnected, IsCurrent, WaitsForRestore, g
      <3>2. Mild(t, t)
        BY <1>7, MildSame DEF Cut
      <3> QED BY <1>7, <1>9, <3>1, <3>2 DEF g
    <2>2. CASE ~ s.gdi[g].isBlocked
      <3>1. GameDisconnected(s, c) = DispatchDown(t, {g}, Nothing)
        BY <1>3, <1>9, <2>2 DEF GameDisconnected, IsCurrent, WaitsForRestore, g
      <3>2. Nothing \in [Game -> Seq(Light)]
        <4>1. <<>> \in Seq(Light)
          OBVIOUS
        <4> QED BY <4>1, ToFrom
      <3>3. {g} \in SUBSET Game
        BY <1>4
      <3>4. \A h \in {g} : t.gdi[h].clientProxy = None /\ ~ HeldBack(t.gdi[h])
        BY <1>2, <1>5, <2>2 DEF HeldBack
      <3>5. Mild(t, DispatchDown(t, {g}, Nothing))
        BY <1>7, <3>2, <3>3, <3>4, MildDown DEF Cut
      <3> QED BY <1>7, <1>9, <3>1, <3>5 DEF g
    <2> QED BY <2>1, <2>2
  <1> QED BY <1>8, <1>9

LEMMA CommitMild ==
  ASSUME NEW s, NEW t, Mild(s, t), Commit(t)
  PROVE  Mild(s, Now')
  <1>1. PICK u : u = Now'
    OBVIOUS
  <1>2. u.edi = t.edi /\ u.gdi = t.gdi /\ u.id = t.id /\ u.wire = t.wire
    BY <1>1 DEF Commit, Now
  <1>3. Mild(t, u)
    <2>1. Tame(u)
      BY <1>2 DEF Mild, Tame
    <2> QED BY <1>2, <2>1, MildSame
  <1> QED BY <1>1, <1>3, MildTrans

\* g, on its new connection c, is sent what was held for it, if anything, and what it lists is
\* its own unless it is another's.
Adopts(s, t, c, g, listed) ==
  /\ Tame(t) /\ t.id = s.id
  /\ \A d \in Conn \ {c} : t.wire[d] = s.wire[d]
  /\ \A h \in Game \ {g} : t.gdi[h] = s.gdi[h]
  /\ t.gdi[g].clientProxy = c /\ ~ HeldBack(t.gdi[g])
  /\ \/ t.gdi[g].pending = s.gdi[g].pending /\ t.wire[c] = s.wire[c]
     \/ /\ t.gdi[g].pending = <<>>
        /\ \/ t.wire[c] = s.wire[c]
           \/ link[c] = "open" /\ t.wire[c] = s.wire[c] \o s.gdi[g].pending
  /\ \A e \in Entity : t.edi[e].gameid = IF e \in listed /\ s.edi[e].gameid \in {g, None}
                                         THEN g ELSE s.edi[e].gameid

LEMMA AdoptProxyMild ==
  ASSUME NEW s, NEW c \in Conn, NEW g \in Game, Good(s), Tame(s), s.id[c] = g
  PROVE  LET t == AdoptProxy(s, c, g)
         IN /\ Good(t) /\ t.edi = s.edi /\ Adopts(s, t, c, g, {})
  <1> DEFINE i == s.gdi[g]
             ps == IF FlushOnAdopt(i) THEN i.pending ELSE <<>>
             q == IF FlushOnAdopt(i) THEN <<>> ELSE i.pending
             j == [i EXCEPT !.known = TRUE, !.clientProxy = c, !.blockUntil = "zero",
                            !.pending = q]
             t == [s EXCEPT !.gdi[g] = j]
             u == AdoptProxy(s, c, g)
  <1>1. i \in GameInfo /\ ("connected" \in FreezeTimeout \/ Queue(i))
    BY DEF Good, Snapshot, Queues
  <1>2. ps \in Seq(Packet) /\ q \in Seq(Packet)
    BY <1>1 DEF GameInfo
  <1>3. u = SendPacket(t, c, ps)
    BY DEF AdoptProxy
  <1>4. (FlushOnAdopt(i) /\ q = <<>> /\ ps = i.pending) \/ (~FlushOnAdopt(i) /\ q = i.pending /\ ps = <<>>)
    OBVIOUS
  <1> HIDE DEF i, ps, q, u
  <1>5. /\ j \in GameInfo /\ j.known /\ j.clientProxy = c /\ j.blockUntil = "zero"
        /\ j.isBlocked = i.isBlocked /\ j.pending = q
    BY <1>1, <1>2 DEF GameInfo, BlockTime
  <1> HIDE DEF j
  <1>6. "connected" \in FreezeTimeout \/ Queue(j)
    BY <1>1, <1>4, <1>5 DEF Queue, FlushOnAdopt
  <1>7. /\ Good(t) /\ t.id = s.id /\ t.edi = s.edi /\ t.gdi[g] = j /\ \A h \in Game \ {g} : t.gdi[h] = s.gdi[h]
    <2> HIDE DEF t
    <2> QED BY <1>5, <1>6, GameUpdate DEF t
  <1>8. t.wire = s.wire
    <2>1. s = [edi |-> s.edi, gdi |-> s.gdi, id |-> s.id, wire |-> s.wire]
      BY DEF Good, Snapshot
    <2> QED BY <2>1
  <1> HIDE DEF t
  <1>9. /\ u.gdi = t.gdi /\ u.edi = t.edi
        /\ \A x \in Conn : u.wire[x] = IF x = c /\ link[c] = "open" THEN t.wire[x] \o ps ELSE t.wire[x]
    BY <1>2, <1>3, <1>7, SendPacketWire
  <1>10. Good(u) /\ u.id = t.id
    BY <1>2, <1>3, <1>7, SendPacketGood
  <1>11. Tame(u)
    BY <1>7, <1>9 DEF Tame
  <1>12. ~ HeldBack(u.gdi[g])
    BY <1>5, <1>7, <1>9 DEF HeldBack
  <1>13. s.wire[c] \o <<>> = s.wire[c]
    BY DEF Good, Snapshot
  <1>14. \/ u.gdi[g].pending = s.gdi[g].pending /\ u.wire[c] = s.wire[c]
         \/ /\ u.gdi[g].pending = <<>>
            /\ \/ u.wire[c] = s.wire[c]
               \/ link[c] = "open" /\ u.wire[c] = s.wire[c] \o s.gdi[g].pending
    <2>1. i = s.gdi[g]
      BY DEF i
    <2>2. u.gdi[g].pending = q /\ u.wire[c] = IF link[c] = "open" THEN s.wire[c] \o ps ELSE s.wire[c]
      BY <1>5, <1>7, <1>8, <1>9
    <2>3. CASE q = <<>> /\ ps = i.pending
      BY <2>1, <2>2, <2>3
    <2>4. CASE q = i.pending /\ ps = <<>>
      BY <1>13, <2>1, <2>2, <2>4
    <2> QED BY <1>4, <2>3, <2>4
  <1>15. Adopts(s, u, c, g, {})
    <2>1. /\ \A e \in Entity : u.edi[e].gameid = IF e \in {} /\ s.edi[e].gameid \in {g, None}
                                                  THEN g ELSE s.edi[e].gameid
          /\ \A h \in Game \ {g} : u.gdi[h] = s.gdi[h]
      BY <1>7, <1>9
    <2>2. \A d \in Conn \ {c} : u.wire[d] = s.wire[d]
      BY <1>8, <1>9
    <2>3. u.id = s.id /\ u.gdi[g].clientProxy = c
      BY <1>5, <1>7, <1>9, <1>10
    <2> QED BY <2>1, <2>2, <2>3, <1>11, <1>12, <1>14 DEF Adopts
  <1> QED BY <1>7, <1>9, <1>10, <1>15 DEF u

LEMMA AdoptEntitiesMild ==
  ASSUME NEW s, NEW t, NEW c \in Conn, NEW g \in Game, NEW eids \in Seq(Entity),
         Good(t), t.edi = s.edi, Adopts(s, t, c, g, {})
  PROVE  \E r : /\ Adopts(s, r, c, g, ToSet(eids)) /\ Mild(r, AdoptEntities(t, g, eids))
                /\ Good(AdoptEntities(t, g, eids))
  <1> DEFINE mine == {e \in ToSet(eids) : t.edi[e].gameid \in {g, None}}
             parts == [i \in DOMAIN eids |->
                         IF eids[i] \in mine THEN t.edi[eids[i]].pending ELSE <<>>]
             held == FlattenSeq(parts)
             routes == [e \in Entity |->
                IF e \in mine THEN [Released(t.edi[e]) EXCEPT !.known = TRUE, !.gameid = g]
                ELSE t.edi[e]]
             r == Routed(t, mine, g)
             u == AdoptEntities(t, g, eids)
  <1>1. u = Dispatch(r, To(g, held))
    BY DEF AdoptEntities, Routed
  <1>2. \A e \in Entity : t.edi[e].pending \in Seq(Light)
    BY DEF Adopts, Tame
  <1>3. held \in Seq(Light)
    <2>1. DOMAIN eids = 1..Len(eids) /\ Len(eids) \in Nat
      OBVIOUS
    <2> HIDE DEF mine
    <2>2. ASSUME NEW i \in DOMAIN eids PROVE parts[i] \in Seq(Light)
      <3>1. t.edi[eids[i]].pending \in Seq(Light) /\ <<>> \in Seq(Light)
        BY <1>2
      <3> QED BY <3>1
    <2>3. parts \in [1..Len(eids) -> Seq(Light)]
      BY <2>1, <2>2
    <2> HIDE DEF parts
    <2> QED BY <2>1, <2>3, FlattenTyped
  <1>4. \A e \in Entity : e \in mine <=> e \in ToSet(eids) /\ t.edi[e].gameid \in {g, None}
    OBVIOUS
  <1> HIDE DEF mine, held, u
  <1>5. ASSUME NEW e \in Entity
        PROVE  /\ routes[e].pending \in Seq(Light)
               /\ routes[e].gameid = IF e \in mine THEN g ELSE t.edi[e].gameid
    <2>1. t.edi[e] \in EntityInfo /\ t.edi[e].pending \in Seq(Light) /\ <<>> \in Seq(Light)
      BY <1>2 DEF Good, Snapshot
    <2>2. Released(t.edi[e]) \in EntityInfo /\ Released(t.edi[e]).pending = <<>>
      BY <2>1, ReleasedTyped
    <2>3. /\ [Released(t.edi[e]) EXCEPT !.known = TRUE, !.gameid = g].pending = <<>>
          /\ [Released(t.edi[e]) EXCEPT !.known = TRUE, !.gameid = g].gameid = g
      BY <2>2 DEF EntityInfo
    <2> QED BY <2>1, <2>3
  <1>6. r.edi = routes /\ r.gdi = t.gdi /\ r.wire = t.wire
    <2>1. t = [edi |-> t.edi, gdi |-> t.gdi, id |-> t.id, wire |-> t.wire]
      BY DEF Good, Snapshot
    <2>2. r = [t EXCEPT !.edi = routes]
      BY DEF Routed
    <2> HIDE DEF r, routes
    <2> QED BY <2>1, <2>2
  <1>7. Good(r) /\ r.id = t.id
    BY RoutedGood
  <1> HIDE DEF r, routes
  <1>8. Tame(r)
    BY <1>5, <1>6 DEF Tame
  <1>9. To(g, held) \in [Game -> Seq(Light)] /\ To(g, held) \in [Game -> Seq(Packet)]
    <2>1. held \in Seq(Packet)
      BY <1>3, LightQueue
    <2> QED BY <1>3, <2>1, ToFrom
  <1>10. Mild(r, u) /\ Good(u)
    BY <1>1, <1>7, <1>8, <1>9, MildDispatch, DispatchGood
  <1>11. Adopts(s, r, c, g, ToSet(eids))
    <2>1. \A e \in Entity : r.edi[e].gameid = IF e \in ToSet(eids) /\ s.edi[e].gameid \in {g, None}
                                             THEN g ELSE s.edi[e].gameid
      BY <1>4, <1>5, <1>6
    <2> QED BY <1>6, <1>7, <1>8, <2>1 DEF Adopts
  <1> QED BY <1>10, <1>11 DEF u

\* What follows, the ack, the notice that g is up and perhaps that all is ready, is mild.
LEMMA AnswerMild ==
  ASSUME NEW s, NEW c \in Conn, NEW g \in Game, NEW gs, Good(s), Tame(s), s.id[c] # None,
         NEW p \in Light,
         CommitAndCheckReady(Dispatch(SendPacket(s, c, <<p>>),
                                      ToAllExcept(g, <<[type |-> "gameUp", game |-> g]>>)), gs)
  PROVE  Mild(s, Now')
  <1>1. <<p>> \in Seq(Light) /\ <<p>> \in Seq(Packet)
    <2>1. <<p>> \in Seq(Light)
      OBVIOUS
    <2> QED BY <2>1, LightQueue
  <1>2. PICK t : t = SendPacket(s, c, <<p>>)
    OBVIOUS
  <1>3. Good(t) /\ Mild(s, t)
    BY <1>1, <1>2, SendPacketGood, SendMild
  <1> DEFINE up == ToAllExcept(g, <<[type |-> "gameUp", game |-> g]>>)
             rdy == ToAllExcept(None, <<[type |-> "ready"]>>)
  <1>4. /\ up \in [Game -> Seq(Light)] /\ up \in [Game -> Seq(Packet)]
        /\ rdy \in [Game -> Seq(Light)]
    <2>1. [type |-> "gameUp", game |-> g] \in Light /\ [type |-> "ready"] \in Light
      BY DEF Light, Packet
    <2>2. /\ <<[type |-> "gameUp", game |-> g]>> \in Seq(Light)
          /\ <<[type |-> "ready"]>> \in Seq(Light)
      BY <2>1
    <2>3. <<[type |-> "gameUp", game |-> g]>> \in Seq(Packet)
      BY <2>2, LightQueue
    <2> QED BY <2>2, <2>3, ToFrom
  <1>5. PICK u : u = Dispatch(t, up)
    OBVIOUS
  <1>6. CommitAndCheckReady(u, gs)
    BY <1>2, <1>5
  <1> HIDE DEF up
  <1>7. Good(u) /\ Mild(t, u)
    BY <1>3, <1>4, <1>5, DispatchGood, MildDispatch, ZenonT(40) DEF Mild
  <1>8. Commit(u) \/ Commit(Dispatch(u, rdy))
    BY <1>6 DEF CommitAndCheckReady
  <1> HIDE DEF rdy
  <1>9. Mild(u, Dispatch(u, rdy)) /\ Mild(u, u)
    BY <1>4, <1>7, MildDispatch, MildSame DEF Mild
  <1>10. Mild(u, Now')
    BY <1>8, <1>9, CommitMild
  <1>11. Mild(s, u)
    BY <1>3, <1>7, MildTrans
  <1> QED BY <1>10, <1>11, MildTrans

=============================================================================
