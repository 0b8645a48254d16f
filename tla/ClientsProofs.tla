---------------------------- MODULE ClientsProofs ----------------------------
(***************************************************************************)
(* Theorems about the gate's clients, for any clients, entities,           *)
(* dispatchers and property values: the types; that filtered calls reach   *)
(* exactly the clients they are meant for; and, for a game that gives no   *)
(* client away before the client knows of its owner, that gate, game and   *)
(* client come to agree on who owns whom.                                  *)
(*                                                                         *)
(* Typed and Filtered are the inductive invariant of the first two. That   *)
(* of the third, OwnerInv, is about what is on its way: Up and Down are    *)
(* the two wires of each dispatcher in a row, so that what it forwards     *)
(* does not move, Has, Pre and Final say what they hold and in which       *)
(* order, and each step is shown to keep what is said of them. The lemmas  *)
(* named ...Sends say what a step of the game adds to Down, those named    *)
(* ...Reads and Takes... what a receiver takes from it.                    *)
(***************************************************************************)
EXTENDS Clients, FiniteSetTheorems, TLAPS

Wire(S) == [Dispatcher -> Seq(S)]

\* Messages that announce only boot entities whose id was given out.
Announced == {m \in Messages : m.type = "connected" => m.entity \in used}

\* Functions posted to the gate's main routine.
Posted == [kind : {"new", "close"}, client : Client]

Typed ==
  /\ sock \in [Client -> {"new", "open", "shut"}]
  /\ posts \in Seq(Posted)
  /\ owner \in [Client -> Entity \cup {None}]
  /\ prop \in [Client -> Val \cup {None}]
  /\ tree \subseteq Val \X Client
  /\ gate \in BOOLEAN
  /\ toDisp \in Wire(Announced) /\ toGame \in Wire(Announced)
  /\ fromGame \in Wire(Messages) /\ toGate \in Wire(Messages)
  /\ route \subseteq Entity /\ noticed \subseteq Dispatcher /\ late \subseteq Client
  /\ client \in [Entity -> Client \cup {None}]
  /\ live \subseteq used /\ used \subseteq Entity
  /\ view \in [Client -> SUBSET Entity]
  /\ want \in [Client -> Val \cup {None}]
  /\ chosen \in [Entity -> Val \cup {None}]
  /\ budget \in [DOMAIN Limits -> Nat]

\* Why filtered calls are exact: the tree holds the values the gate was last told
\* to set, and a proxy remembers them. A cleared proxy remembers more, so removing
\* what it remembers is a removal of nothing.
Filtered ==
  /\ \A c \in Client : want[c] # None => prop[c] = want[c]
  /\ \A c \in Client, v \in Val : <<v, c>> \in tree <=> want[c] = v

Inv == Typed /\ Filtered

-----------------------------------------------------------------------------
(* Queues                                                                   *)

LEMMA ViaTyped ==
  ASSUME NEW S, NEW q \in Wire(S), NEW e, NEW m \in S
  PROVE  Via(q, e, m) \in Wire(S)
  <1>1. ASSUME NEW d \in Dispatcher PROVE Append(q[d], m) \in Seq(S)
    <2>1. q[d] \in Seq(S)
      BY DEF Wire
    <2> QED BY <2>1
  <1> QED BY <1>1 DEF Via, Wire

LEMMA AppendTyped ==
  ASSUME NEW S, NEW q \in Wire(S), NEW d \in Dispatcher, NEW m \in S
  PROVE  [q EXCEPT ![d] = Append(@, m)] \in Wire(S)
  <1>1. q[d] \in Seq(S)
    BY DEF Wire
  <1>2. Append(q[d], m) \in Seq(S)
    BY <1>1
  <1> QED BY <1>2 DEF Wire

LEMMA TailTyped ==
  ASSUME NEW S, NEW q \in Wire(S), NEW d \in Dispatcher, q[d] # <<>>
  PROVE  Head(q[d]) \in S /\ [q EXCEPT ![d] = Tail(@)] \in Wire(S)
  <1>1. q[d] \in Seq(S)
    BY DEF Wire
  <1>2. Head(q[d]) \in S /\ Tail(q[d]) \in Seq(S)
    BY <1>1
  <1> QED BY <1>2 DEF Wire

LEMMA WireMonotonic ==
  ASSUME NEW S, NEW T, S \subseteq T, NEW q \in Wire(S)
  PROVE  q \in Wire(T)
  <1>1. ASSUME NEW d \in Dispatcher PROVE q[d] \in Seq(T)
    <2>1. q[d] \in Seq(S)
      BY DEF Wire
    <2> QED BY <2>1
  <1> QED BY <1>1 DEF Wire

LEMMA CutTyped ==
  ASSUME NEW S, NEW q \in Wire(S),
         NEW r \in [Dispatcher -> UNION {Prefixes(q[d]) : d \in Dispatcher}]
  PROVE  r \in Wire(S)
  <1>1. ASSUME NEW d \in Dispatcher PROVE r[d] \in Seq(S)
    <2>1. PICK x \in Dispatcher : r[d] \in Prefixes(q[x])
      OBVIOUS
    <2>2. q[x] \in Seq(S)
      BY DEF Wire
    <2>3. PICK n \in 0 .. Len(q[x]) : r[d] = SubSeq(q[x], 1, n)
      BY <2>1 DEF Prefixes
    <2> QED BY <2>2, <2>3
  <1> QED BY <1>1 DEF Wire

LEMMA ReleaseTyped ==
  ASSUME NEW q \in Wire(Messages), NEW e \in Entity, NEW o \in Entity,
         NEW c \in Client \cup {None}
  PROVE  Release(q, e, c, o) \in Wire(Messages)
  <1>1. CASE c = None
    BY <1>1 DEF Release
  <1>2. CASE c # None
    <2>1. ClearFilterProps(c) \in Messages /\ DestroyOnClient(c, e) \in Messages
      BY <1>2 DEF Messages, ClearFilterProps, DestroyOnClient
    <2>2. Via(q, e, ClearFilterProps(c)) \in Wire(Messages)
      BY <2>1, ViaTyped
    <2>3. Via(Via(q, e, ClearFilterProps(c)), o, DestroyOnClient(c, e)) \in Wire(Messages)
      BY <2>1, <2>2, ViaTyped
    <2> QED BY <1>2, <2>3 DEF Release
  <1> QED BY <1>1, <1>2

LEMMA AdoptTyped ==
  ASSUME NEW q \in Wire(Messages), NEW e \in Entity, NEW c \in Client
  PROVE  Adopt(q, e, c) \in Wire(Messages)
  <1>1. ClearFilterProps(c) \in Messages /\ CreateOnClient(c, e) \in Messages
    BY DEF Messages, ClearFilterProps, CreateOnClient
  <1>2. Via(q, e, ClearFilterProps(c)) \in Wire(Messages)
    BY <1>1, ViaTyped
  <1> QED BY <1>1, <1>2, ViaTyped DEF Adopt

\* What a message of each kind carries.
LEMMA MessageFields ==
  ASSUME NEW m \in Messages
  PROVE  /\ m.type \in {"createOnClient", "destroyOnClient", "connected"} =>
              m.client \in Client /\ m.entity \in Entity
         /\ m.type = "disconnected" => m.client \in Client /\ m.entity \in Entity \cup {None}
         /\ m.type \in {"created", "destroyed"} => m.entity \in Entity
         /\ m.type = "setFilterProp" => m.client \in Client /\ m.val \in Val
         /\ m.type = "clearFilterProps" => m.client \in Client
  BY DEF Messages, GateDown

-----------------------------------------------------------------------------
(* The tree                                                                 *)

\* A step that leaves the tree and what it is made of alone.
LEMMA TreeKept ==
  ASSUME Filtered, UNCHANGED <<tree, prop, want>>
  PROVE  Filtered'
  BY DEF Filtered

\* Setting and closing replace what the proxy remembers.
LEMMA TreeSet ==
  ASSUME Typed, Filtered, NEW c \in Client, NEW v \in Val,
         tree' = Without(tree, c, prop[c]) \cup {<<v, c>>},
         prop' = [prop EXCEPT ![c] = v], want' = [want EXCEPT ![c] = v]
  PROVE  /\ tree' \subseteq Val \X Client /\ prop' \in [Client -> Val \cup {None}]
         /\ want' \in [Client -> Val \cup {None}] /\ Filtered'
  <1>1. /\ tree' \subseteq Val \X Client /\ prop' \in [Client -> Val \cup {None}]
        /\ want' \in [Client -> Val \cup {None}]
    BY DEF Typed, Without
  <1>2. \A x \in Client : want'[x] # None => prop'[x] = want'[x]
    BY DEF Typed, Filtered
  <1>3. ASSUME NEW x \in Client, NEW w \in Val
        PROVE  <<w, x>> \in tree' <=> want'[x] = w
    <2>1. CASE x # c
      <3>1. <<w, x>> # <<v, c>> /\ <<w, x>> # <<prop[c], c>>
        BY <2>1
      <3>2. want'[x] = want[x]
        BY <2>1 DEF Typed
      <3> QED BY <3>1, <3>2 DEF Filtered, Without
    <2>2. CASE x = c
      <3>1. <<w, c>> \in tree => want[c] = w /\ want[c] # None
        BY <2>2, NobodyAssumption DEF Filtered
      <3>2. <<w, c>> \notin Without(tree, c, prop[c])
        BY <3>1 DEF Filtered, Without
      <3>3. <<w, c>> = <<v, c>> <=> w = v
        OBVIOUS
      <3>4. want'[c] = v
        BY DEF Typed
      <3> QED BY <2>2, <3>2, <3>3, <3>4
    <2> QED BY <2>1, <2>2
  <1> QED BY <1>1, <1>2, <1>3 DEF Filtered

\* Clearing and closing: the tree forgets the client, whether or not its proxy does.
LEMMA TreeClear ==
  ASSUME Typed, Filtered, NEW c \in Client,
         tree' = Without(tree, c, prop[c]),
         prop' = prop \/ prop' = [prop EXCEPT ![c] = None],
         want' = [want EXCEPT ![c] = None]
  PROVE  /\ tree' \subseteq Val \X Client /\ prop' \in [Client -> Val \cup {None}]
         /\ want' \in [Client -> Val \cup {None}] /\ Filtered'
  <1>1. /\ tree' \subseteq Val \X Client /\ prop' \in [Client -> Val \cup {None}]
        /\ want' \in [Client -> Val \cup {None}]
    BY DEF Typed, Without
  <1>2. ASSUME NEW x \in Client, want'[x] # None
        PROVE  prop'[x] = want'[x]
    <2>1. x # c /\ want'[x] = want[x]
      BY <1>2 DEF Typed
    <2>2. prop'[x] = prop[x]
      BY <2>1 DEF Typed
    <2> QED BY <1>2, <2>1, <2>2 DEF Filtered
  <1>3. ASSUME NEW x \in Client, NEW w \in Val
        PROVE  <<w, x>> \in tree' <=> want'[x] = w
    <2>1. CASE x # c
      <3>1. <<w, x>> # <<prop[c], c>>
        BY <2>1
      <3>2. want'[x] = want[x]
        BY <2>1 DEF Typed
      <3> QED BY <3>1, <3>2 DEF Filtered, Without
    <2>2. CASE x = c
      <3>1. <<w, c>> \in tree => want[c] = w /\ want[c] # None
        BY NobodyAssumption DEF Filtered
      <3>2. <<w, c>> \notin Without(tree, c, prop[c])
        BY <3>1 DEF Filtered, Without
      <3>3. want'[c] = None /\ w # None
        BY NobodyAssumption DEF Typed
      <3> QED BY <2>2, <3>2, <3>3
    <2> QED BY <2>1, <2>2
  <1> QED BY <1>1, <1>2, <1>3 DEF Filtered

-----------------------------------------------------------------------------
(* Each action keeps the invariant                                          *)

LEMMA InitInv ==
  Init => Inv
  <1> SUFFICES ASSUME Init PROVE Inv
    OBVIOUS
  <1>1. <<>> \in Seq(Announced) /\ <<>> \in Seq(Messages)
        /\ <<>> \in Seq(Posted)
    OBVIOUS
  <1>2. [d \in Dispatcher |-> <<>>] \in Wire(Announced)
        /\ [d \in Dispatcher |-> <<>>] \in Wire(Messages)
    BY <1>1 DEF Wire
  <1>3. Limits \in [DOMAIN Limits -> Nat]
    BY LimitAssumption DEF Limits
  <1>4. Typed
    BY <1>1, <1>2, <1>3 DEF Init, Typed
  <1>5. Filtered
    BY NobodyAssumption DEF Init, Filtered
  <1> QED BY <1>4, <1>5 DEF Inv

\* Ids are never taken back, so an announced entity stays announced.
LEMMA AnnouncedGrows ==
  ASSUME used \subseteq used', NEW q \in Wire(Announced)
  PROVE  q \in Wire(Announced')
  <1>1. Announced \subseteq Announced'
    BY DEF Announced
  <1> QED BY <1>1, WireMonotonic

LEMMA ConnectInv ==
  ASSUME Inv, NEW c \in Client, Connect(c) \/ Disconnect(c)
  PROVE  Inv'
  <1>1. posts' \in Seq(Posted)
    <2>1. \/ posts' = Append(posts, [kind |-> "new", client |-> c])
          \/ posts' = Append(posts, [kind |-> "close", client |-> c])
      BY DEF Connect, Disconnect
    <2>2. posts \in Seq(Posted)
      BY DEF Inv, Typed
    <2>3. [kind |-> "new", client |-> c] \in Posted /\ [kind |-> "close", client |-> c] \in Posted
      BY DEF Posted
    <2> QED BY <2>1, <2>2, <2>3
  <1>2. sock' \in [Client -> {"new", "open", "shut"}]
    BY DEF Connect, Disconnect, Inv, Typed
  <1>3. UNCHANGED <<owner, prop, tree, gate, want, wires, dispVars, gameVars,
                    used, view, budget>>
    BY DEF Connect, Disconnect
  <1>4. Announced' = Announced
    BY <1>3 DEF Announced
  <1>5. Typed'
    BY <1>1, <1>2, <1>3, <1>4 DEF Inv, Typed, wires, dispVars, gameVars
  <1>6. Filtered'
    BY <1>3, TreeKept DEF Inv
  <1> QED BY <1>5, <1>6 DEF Inv

LEMMA OnNewClientProxyInv ==
  ASSUME Inv, NEW c \in Client, OnNewClientProxy(c)
  PROVE  /\ owner' \in [Client -> Entity \cup {None}]
         /\ used \subseteq used' /\ used' \subseteq Entity
         /\ toDisp' \in Wire(Announced') /\ UNCHANGED <<prop, tree, want>>
  <1>1. PICK boot \in Entity \ used :
          /\ owner' = [owner EXCEPT ![c] = boot]
          /\ used' = used \cup {boot}
          /\ toDisp' = Via(toDisp, boot, Connected(c, boot))
          /\ UNCHANGED <<prop, tree, want>>
    BY DEF OnNewClientProxy
  <1>2. Connected(c, boot) \in Announced'
    BY <1>1 DEF Announced, Messages, Connected
  <1>3. toDisp \in Wire(Announced')
    BY <1>1, AnnouncedGrows DEF Inv, Typed
  <1>4. toDisp' \in Wire(Announced')
    BY <1>1, <1>2, <1>3, ViaTyped
  <1> QED BY <1>1, <1>4 DEF Inv, Typed

LEMMA DisconnectedTyped ==
  ASSUME NEW c \in Client, NEW e \in Entity \cup {None}
  PROVE  Disconnected(c, e) \in Announced
  BY DEF Announced, Messages, Disconnected

LEMMA OnClientProxyCloseInv ==
  ASSUME Inv, NEW c \in Client, OnClientProxyClose(c)
  PROVE  /\ owner' \in [Client -> Entity \cup {None}] /\ used' = used
         /\ tree' \subseteq Val \X Client /\ prop' \in [Client -> Val \cup {None}]
         /\ want' \in [Client -> Val \cup {None}]
         /\ toDisp' \in Wire(Announced) /\ Filtered'
  <1>1. owner[c] \in Entity \cup {None}
    BY DEF Inv, Typed
  <1>2. toDisp' \in Wire(Announced)
    BY <1>1, DisconnectedTyped, ViaTyped DEF OnClientProxyClose, Inv, Typed
  <1>3. /\ tree' \subseteq Val \X Client /\ prop' \in [Client -> Val \cup {None}]
        /\ want' \in [Client -> Val \cup {None}] /\ Filtered'
    BY TreeClear DEF OnClientProxyClose, Inv
  <1> QED BY <1>2, <1>3 DEF OnClientProxyClose, Inv, Typed

LEMMA PostTickInv ==
  ASSUME Inv, PostTick
  PROVE  Inv'
  <1> DEFINE f == Head(posts)
  <1>1. /\ f \in Posted
        /\ posts' \in Seq(Posted)
    <2>1. posts \in Seq(Posted) /\ posts # <<>> /\ posts' = Tail(posts)
      BY DEF PostTick, Inv, Typed
    <2> QED BY <2>1
  <1>2. UNCHANGED <<sock, gate, toGame, fromGame, toGate, dispVars, gameVars, view, budget>>
    BY DEF PostTick
  <1>3. f.client \in Client
    BY <1>1 DEF Posted
  <1>4. OnNewClientProxy(f.client) \/ OnClientProxyClose(f.client)
    BY DEF PostTick
  <1> HIDE DEF f
  <1>5. CASE OnNewClientProxy(f.client)
    <2>1. /\ owner' \in [Client -> Entity \cup {None}]
          /\ used \subseteq used' /\ used' \subseteq Entity
          /\ toDisp' \in Wire(Announced') /\ UNCHANGED <<prop, tree, want>>
      BY <1>3, <1>5, OnNewClientProxyInv
    <2>2. toGame' \in Wire(Announced')
      BY <1>2, <2>1, AnnouncedGrows DEF Inv, Typed
    <2>3. Typed'
      BY <1>1, <1>2, <2>1, <2>2 DEF Inv, Typed, dispVars, gameVars
    <2>4. Filtered'
      BY <2>1, TreeKept DEF Inv
    <2> QED BY <2>3, <2>4 DEF Inv
  <1>6. CASE OnClientProxyClose(f.client)
    <2>1. /\ owner' \in [Client -> Entity \cup {None}] /\ used' = used
          /\ tree' \subseteq Val \X Client /\ prop' \in [Client -> Val \cup {None}]
          /\ want' \in [Client -> Val \cup {None}]
          /\ toDisp' \in Wire(Announced) /\ Filtered'
      BY <1>3, <1>6, OnClientProxyCloseInv
    <2>2. Announced' = Announced
      BY <2>1 DEF Announced
    <2>3. Typed'
      BY <1>1, <1>2, <2>1, <2>2 DEF Inv, Typed, dispVars, gameVars
    <2> QED BY <2>1, <2>3 DEF Inv
  <1> QED BY <1>4, <1>5, <1>6

\* What the packets of the game do at the gate.
LEMMA GatePacketInv ==
  ASSUME Inv, NEW m \in Messages,
         \/ m.type = "createOnClient" /\ OnCreateEntity(m.client, m.entity)
         \/ m.type = "destroyOnClient" /\ OnDestroyEntity(m.client, m.entity)
         \/ m.type = "setFilterProp" /\ OnSetFilterProp(m.client, m.val)
         \/ m.type = "clearFilterProps" /\ OnClearFilterProps(m.client)
         \/ m.type \in {"setFilterProp", "clearFilterProps"} /\ OnAbsentProxy(m.client)
  PROVE  /\ owner' \in [Client -> Entity \cup {None}]
         /\ tree' \subseteq Val \X Client /\ prop' \in [Client -> Val \cup {None}]
         /\ want' \in [Client -> Val \cup {None}]
         /\ view' \in [Client -> SUBSET Entity]
         /\ toDisp' \in Wire(Announced) /\ Filtered'
  <1> USE DEF Inv
  <1>1. CASE m.type = "createOnClient" /\ OnCreateEntity(m.client, m.entity)
    <2>1. m.client \in Client /\ m.entity \in Entity
      BY <1>1, MessageFields
    <2>2. toDisp' \in Wire(Announced)
      <3>1. Disconnected(m.client, m.entity) \in Announced
        BY <2>1, DisconnectedTyped
      <3>2. Via(toDisp, m.entity, Disconnected(m.client, m.entity)) \in Wire(Announced)
        BY <3>1, ViaTyped DEF Typed
      <3> QED BY <1>1, <3>2 DEF OnCreateEntity, Typed
    <2>3. UNCHANGED <<prop, tree, want>>
      BY <1>1 DEF OnCreateEntity
    <2>4. owner' \in [Client -> Entity \cup {None}] /\ view' \in [Client -> SUBSET Entity]
      <3>1. owner \in [Client -> Entity \cup {None}] /\ view \in [Client -> SUBSET Entity]
        BY DEF Typed
      <3>2. /\ \/ owner' = owner
               \/ owner' = [owner EXCEPT ![m.client] = m.entity]
            /\ \/ view' = view
               \/ view' = [view EXCEPT ![m.client] = @ \cup {m.entity}]
        BY <1>1 DEF OnCreateEntity
      <3> QED BY <2>1, <3>1, <3>2
    <2>5. Filtered'
      BY <2>3, TreeKept
    <2> QED BY <2>2, <2>3, <2>4, <2>5 DEF Typed
  <1>2. CASE m.type = "destroyOnClient" /\ OnDestroyEntity(m.client, m.entity)
    <2>1. m.client \in Client /\ m.entity \in Entity
      BY <1>2, MessageFields
    <2>2. UNCHANGED <<owner, prop, tree, want, toDisp>>
      BY <1>2 DEF OnDestroyEntity
    <2>3. view' \in [Client -> SUBSET Entity]
      BY <1>2, <2>1 DEF OnDestroyEntity, Typed
    <2> QED BY <2>2, <2>3, TreeKept DEF Typed
  <1>3. CASE m.type = "setFilterProp" /\ OnSetFilterProp(m.client, m.val)
    <2>1. m.client \in Client /\ m.val \in Val
      BY <1>3, MessageFields
    <2>2. UNCHANGED <<owner, toDisp, view>>
      BY <1>3 DEF OnSetFilterProp
    <2>3. /\ tree' \subseteq Val \X Client /\ prop' \in [Client -> Val \cup {None}]
          /\ want' \in [Client -> Val \cup {None}] /\ Filtered'
      BY <1>3, <2>1, TreeSet DEF OnSetFilterProp
    <2> QED BY <2>2, <2>3 DEF Typed
  <1>4. CASE m.type = "clearFilterProps" /\ OnClearFilterProps(m.client)
    <2>1. m.client \in Client
      BY <1>4, MessageFields
    <2>2. UNCHANGED <<owner, toDisp, view>>
      BY <1>4 DEF OnClearFilterProps
    <2>3. /\ tree' \subseteq Val \X Client /\ prop' \in [Client -> Val \cup {None}]
          /\ want' \in [Client -> Val \cup {None}] /\ Filtered'
      BY <1>4, <2>1, TreeClear DEF OnClearFilterProps
    <2> QED BY <2>2, <2>3 DEF Typed
  <1>5. CASE m.type \in {"setFilterProp", "clearFilterProps"} /\ OnAbsentProxy(m.client)
    BY <1>5, TreeKept DEF OnAbsentProxy, Typed
  <1> QED BY <1>1, <1>2, <1>3, <1>4, <1>5

LEMMA HandleDispatcherClientPacketInv ==
  ASSUME Inv, NEW d \in Dispatcher, HandleDispatcherClientPacket(d)
  PROVE  Inv'
  <1> DEFINE m == Head(toGate[d])
  <1>1. m \in Messages /\ toGate' \in Wire(Messages)
    BY TailTyped DEF HandleDispatcherClientPacket, Inv, Typed
  <1>2. \/ m.type = "createOnClient" /\ OnCreateEntity(m.client, m.entity)
        \/ m.type = "destroyOnClient" /\ OnDestroyEntity(m.client, m.entity)
        \/ m.type = "setFilterProp" /\ OnSetFilterProp(m.client, m.val)
        \/ m.type = "clearFilterProps" /\ OnClearFilterProps(m.client)
        \/ m.type \in {"setFilterProp", "clearFilterProps"} /\ OnAbsentProxy(m.client)
    BY DEF HandleDispatcherClientPacket
  <1> HIDE DEF m
  <1>3. /\ owner' \in [Client -> Entity \cup {None}]
        /\ tree' \subseteq Val \X Client /\ prop' \in [Client -> Val \cup {None}]
        /\ want' \in [Client -> Val \cup {None}]
        /\ view' \in [Client -> SUBSET Entity]
        /\ toDisp' \in Wire(Announced) /\ Filtered'
    BY <1>1, <1>2, GatePacketInv
  <1>4. UNCHANGED <<sock, posts, gate, toGame, fromGame, dispVars, gameVars, used, budget>>
    BY DEF HandleDispatcherClientPacket
  <1>5. Announced' = Announced
    BY <1>4 DEF Announced
  <1>6. Typed'
    BY <1>1, <1>3, <1>4, <1>5 DEF Inv, Typed, dispVars, gameVars
  <1> QED BY <1>3, <1>6 DEF Inv

LEMMA SpendTyped ==
  ASSUME Typed, NEW k \in {"op", "death"}, Spend(k)
  PROVE  budget' \in [DOMAIN Limits -> Nat]
  BY DEF Typed, Spend, Limits

LEMMA GateDiesInv ==
  ASSUME Inv, GateDies
  PROVE  Inv'
  <1>1. budget' \in [DOMAIN Limits -> Nat]
    BY SpendTyped DEF GateDies, Inv
  <1>2. toDisp' \in Wire(Announced)
    BY CutTyped DEF GateDies, Inv, Typed
  <1>3. toGate' \in Wire(Messages)
    BY DEF GateDies, Wire
  <1>4. UNCHANGED <<toGame, fromGame, dispVars, gameVars, used, view>>
    BY DEF GateDies
  <1>5. Announced' = Announced
    BY <1>4 DEF Announced
  <1>6. /\ posts' \in Seq(Posted) /\ gate' \in BOOLEAN /\ tree' \subseteq Val \X Client
        /\ sock' \in [Client -> {"new", "open", "shut"}]
        /\ owner' \in [Client -> Entity \cup {None}]
        /\ prop' \in [Client -> Val \cup {None}]
        /\ want' \in [Client -> Val \cup {None}]
    <2>1. /\ posts' = <<>> /\ gate' = FALSE /\ tree' = {}
          /\ owner' = [c \in Client |-> None] /\ prop' = owner' /\ want' = owner'
          /\ sock' = [c \in Client |-> IF sock[c] = "open" THEN "shut" ELSE sock[c]]
      BY DEF GateDies
    <2>2. sock \in [Client -> {"new", "open", "shut"}]
      BY DEF Inv, Typed
    <2>3. sock' \in [Client -> {"new", "open", "shut"}]
      BY <2>1, <2>2
    <2>4. posts' \in Seq(Posted)
      BY <2>1
    <2>5. /\ owner' \in [Client -> Entity \cup {None}]
          /\ prop' \in [Client -> Val \cup {None}]
          /\ want' \in [Client -> Val \cup {None}]
      BY <2>1
    <2> QED BY <2>1, <2>3, <2>4, <2>5
  <1>7. Filtered'
    BY NobodyAssumption DEF GateDies, Filtered
  <1>8. Typed'
    BY <1>1, <1>2, <1>3, <1>4, <1>5, <1>6 DEF Inv, Typed, dispVars, gameVars
  <1> QED BY <1>7, <1>8 DEF Inv

LEMMA ServeGateInv ==
  ASSUME Inv, NEW d \in Dispatcher, ServeGate(d)
  PROVE  Inv'
  <1> DEFINE m == Head(toDisp[d])
  <1>1. m \in Announced /\ toDisp' \in Wire(Announced)
    BY TailTyped DEF ServeGate, Inv, Typed
  <1>2. toGame' = toGame \/ toGame' = [toGame EXCEPT ![d] = Append(@, m)]
    BY DEF ServeGate
  <1>3. late' = late \/ (m.type = "connected" /\ late' = late \cup {m.client})
    BY DEF ServeGate
  <1> HIDE DEF m
  <1>4. toGame' \in Wire(Announced)
    <2>1. toGame \in Wire(Announced)
      BY DEF Inv, Typed
    <2>2. [toGame EXCEPT ![d] = Append(@, m)] \in Wire(Announced)
      BY <1>1, <2>1, AppendTyped
    <2> QED BY <1>2, <2>1, <2>2
  <1>5. late' \subseteq Client
    <2>1. m \in Messages
      BY <1>1 DEF Announced
    <2> QED BY <1>3, <2>1, MessageFields DEF Inv, Typed
  <1>6. UNCHANGED <<gateVars, fromGame, toGate, route, noticed, gameVars, used, view, budget>>
    BY DEF ServeGate
  <1>7. Announced' = Announced
    BY <1>6 DEF Announced
  <1>8. Typed'
    BY <1>1, <1>4, <1>5, <1>6, <1>7 DEF Inv, Typed, gateVars, gameVars
  <1>9. Filtered'
    BY <1>6, TreeKept DEF Inv, gateVars
  <1> QED BY <1>8, <1>9 DEF Inv

LEMMA ServeGameInv ==
  ASSUME Inv, NEW d \in Dispatcher, ServeGame(d)
  PROVE  Inv'
  <1> DEFINE m == Head(fromGame[d])
  <1>1. m \in Messages /\ fromGame' \in Wire(Messages)
    BY TailTyped DEF ServeGame, Inv, Typed
  <1>2. toGate' = toGate \/ toGate' = [toGate EXCEPT ![d] = Append(@, m)]
    BY DEF ServeGame
  <1>3. \/ m.type = "created" /\ route' = route \cup {m.entity}
        \/ m.type = "destroyed" /\ route' = route \ {m.entity}
        \/ route' = route
    BY DEF ServeGame
  <1> HIDE DEF m
  <1>4. toGate' \in Wire(Messages)
    <2>1. toGate \in Wire(Messages)
      BY DEF Inv, Typed
    <2>2. [toGate EXCEPT ![d] = Append(@, m)] \in Wire(Messages)
      BY <1>1, <2>1, AppendTyped
    <2> QED BY <1>2, <2>1, <2>2
  <1>5. route' \subseteq Entity
    BY <1>1, <1>3, MessageFields DEF Inv, Typed
  <1>6. UNCHANGED <<gateVars, toDisp, toGame, noticed, late, gameVars, used, view, budget>>
    BY DEF ServeGame
  <1>7. Announced' = Announced
    BY <1>6 DEF Announced
  <1>8. Typed'
    BY <1>1, <1>4, <1>5, <1>6, <1>7 DEF Inv, Typed, gateVars, gameVars
  <1>9. Filtered'
    BY <1>6, TreeKept DEF Inv, gateVars
  <1> QED BY <1>8, <1>9 DEF Inv

LEMMA GateDisconnectedInv ==
  ASSUME Inv, NEW d \in Dispatcher, GateDisconnected(d)
  PROVE  Inv'
  <1>1. GateDown \in Announced
    BY DEF Announced, Messages, GateDown
  <1>2. toGame' \in Wire(Announced)
    BY <1>1, AppendTyped DEF GateDisconnected, Inv, Typed
  <1>3. UNCHANGED <<gateVars, toDisp, fromGame, toGate, route, late, gameVars, used, view, budget>>
    BY DEF GateDisconnected
  <1>4. Announced' = Announced
    BY <1>3 DEF Announced
  <1>5. noticed' \subseteq Dispatcher
    BY DEF GateDisconnected, Inv, Typed
  <1>6. Typed'
    BY <1>2, <1>3, <1>4, <1>5 DEF Inv, Typed, gateVars, gameVars
  <1>7. Filtered'
    BY <1>3, TreeKept DEF Inv, gateVars
  <1> QED BY <1>6, <1>7 DEF Inv

\* The game's own operations touch its entities and what it sends.
LEMMA GameStepInv ==
  ASSUME Inv, UNCHANGED <<gateVars, toGate, toDisp, dispVars, view>>,
         fromGame' \in Wire(Messages), toGame' \in Wire(Announced),
         used \subseteq used', used' \subseteq Entity, live' \subseteq used',
         client' \in [Entity -> Client \cup {None}],
         chosen' \in [Entity -> Val \cup {None}],
         budget' \in [DOMAIN Limits -> Nat]
  PROVE  Inv'
  <1>1. toGame' \in Wire(Announced') /\ toDisp' \in Wire(Announced')
    BY AnnouncedGrows DEF Inv, Typed
  <1>2. Typed'
    BY <1>1 DEF Inv, Typed, gateVars, dispVars
  <1>3. Filtered'
    BY TreeKept DEF Inv, gateVars
  <1> QED BY <1>2, <1>3 DEF Inv

LEMMA CreateEntityInv ==
  ASSUME Inv, NEW e \in Entity, CreateEntity(e)
  PROVE  Inv'
  <1>1. NotifyCreate(e) \in Messages
    BY DEF Messages, NotifyCreate
  <1>2. fromGame' \in Wire(Messages)
    BY <1>1, ViaTyped DEF CreateEntity, Inv, Typed
  <1>3. budget' \in [DOMAIN Limits -> Nat]
    BY SpendTyped DEF CreateEntity, Inv
  <1>4. /\ UNCHANGED <<gateVars, toDisp, toGame, toGate, dispVars, client, chosen, view>>
        /\ used' = used \cup {e} /\ live' = live \cup {e}
    BY DEF CreateEntity
  <1> QED BY <1>2, <1>3, <1>4, GameStepInv DEF Inv, Typed

LEMMA GiveClientToInv ==
  ASSUME Inv, NEW e \in Entity, NEW o \in Entity, GiveClientTo(e, o)
  PROVE  Inv'
  <1> DEFINE c == client[e]
             kept == IF o = e THEN None ELSE client[o]
             q == Release(Release(fromGame, e, c, o), o, kept, o)
  <1>1. c \in Client /\ kept \in Client \cup {None}
    BY DEF GiveClientTo, Inv, Typed
  <1>2. fromGame' = Adopt(q, o, c)
    BY DEF GiveClientTo
  <1>3. /\ client' = [client EXCEPT ![e] = None, ![o] = c]
        /\ chosen' = [chosen EXCEPT ![e] = None, ![o] = None]
        /\ UNCHANGED <<gateVars, toDisp, toGame, toGate, dispVars, live, used, view>>
    BY DEF GiveClientTo
  <1> HIDE DEF c, kept
  <1>4. Release(fromGame, e, c, o) \in Wire(Messages)
    BY <1>1, ReleaseTyped DEF Inv, Typed
  <1>5. q \in Wire(Messages)
    BY <1>1, <1>4, ReleaseTyped
  <1> HIDE DEF q
  <1>6. fromGame' \in Wire(Messages)
    BY <1>1, <1>2, <1>5, AdoptTyped
  <1>7. /\ client' \in [Entity -> Client \cup {None}]
        /\ chosen' \in [Entity -> Val \cup {None}]
    BY <1>1, <1>3 DEF Inv, Typed
  <1>8. budget' \in [DOMAIN Limits -> Nat]
    BY SpendTyped DEF GiveClientTo, Inv
  <1> QED BY <1>3, <1>6, <1>7, <1>8, GameStepInv DEF Inv, Typed

LEMMA SetClientFilterPropInv ==
  ASSUME Inv, NEW e \in Entity, NEW v \in Val, SetClientFilterProp(e, v)
  PROVE  Inv'
  <1>1. client[e] \in Client
    BY DEF SetClientFilterProp, Inv, Typed
  <1>2. SetFilterProp(client[e], v) \in Messages
    BY <1>1 DEF Messages, SetFilterProp
  <1>3. fromGame' \in Wire(Messages)
    BY <1>2, ViaTyped DEF SetClientFilterProp, Inv, Typed
  <1>4. /\ UNCHANGED <<gateVars, toDisp, toGame, toGate, dispVars, client, live, used, view>>
        /\ chosen' \in [Entity -> Val \cup {None}]
    BY DEF SetClientFilterProp, Inv, Typed
  <1>5. budget' \in [DOMAIN Limits -> Nat]
    BY SpendTyped DEF SetClientFilterProp, Inv
  <1> QED BY <1>3, <1>4, <1>5, GameStepInv DEF Inv, Typed

LEMMA DestroyInv ==
  ASSUME Inv, NEW e \in Entity, Destroy(e)
  PROVE  Inv'
  <1>1. client[e] \in Client \cup {None}
    BY DEF Inv, Typed
  <1>2. Release(fromGame, e, client[e], e) \in Wire(Messages)
    BY <1>1, ReleaseTyped DEF Inv, Typed
  <1>3. NotifyDestroy(e) \in Messages
    BY DEF Messages, NotifyDestroy
  <1>4. fromGame' \in Wire(Messages)
    BY <1>2, <1>3, ViaTyped DEF Destroy
  <1>5. /\ UNCHANGED <<gateVars, toDisp, toGame, toGate, dispVars, used, view>>
        /\ client' \in [Entity -> Client \cup {None}]
        /\ chosen' \in [Entity -> Val \cup {None}]
        /\ live' \subseteq used
    BY DEF Destroy, Inv, Typed
  <1>6. budget' \in [DOMAIN Limits -> Nat]
    BY SpendTyped DEF Destroy, Inv
  <1> QED BY <1>4, <1>5, <1>6, GameStepInv DEF Inv, Typed

LEMMA HandlePacketInv ==
  ASSUME Inv, NEW d \in Dispatcher, HandlePacket(d)
  PROVE  Inv'
  <1> DEFINE m == Head(toGame[d])
  <1>1. m \in Announced /\ toGame' \in Wire(Announced)
    BY TailTyped DEF HandlePacket, Inv, Typed
  <1>2. \/ m.type = "connected" /\ HandleNotifyClientConnected(m.client, m.entity)
        \/ m.type = "disconnected" /\ HandleNotifyClientDisconnected(m.client, m.entity)
        \/ m.type = "gateDown" /\ HandleNotifyGateDisconnected
    BY DEF HandlePacket
  <1>3. UNCHANGED <<gateVars, toDisp, toGate, dispVars, used, view, budget>>
    BY DEF HandlePacket
  <1>4. m \in Messages /\ (m.type = "connected" => m.entity \in used)
    BY <1>1 DEF Announced
  <1> HIDE DEF m
  <1>5. /\ fromGame' \in Wire(Messages) /\ live' \subseteq used
        /\ client' \in [Entity -> Client \cup {None}]
        /\ chosen' \in [Entity -> Val \cup {None}]
    <2>1. CASE m.type = "connected" /\ HandleNotifyClientConnected(m.client, m.entity)
      <3>1. m.client \in Client /\ m.entity \in Entity /\ m.entity \in used
        BY <1>4, <2>1, MessageFields
      <3>2. NotifyCreate(m.entity) \in Messages
        BY <3>1 DEF Messages, NotifyCreate
      <3>3. Via(fromGame, m.entity, NotifyCreate(m.entity)) \in Wire(Messages)
        BY <3>2, ViaTyped DEF Inv, Typed
      <3>4. fromGame' \in Wire(Messages)
        BY <2>1, <3>1, <3>3, AdoptTyped DEF HandleNotifyClientConnected
      <3> QED BY <2>1, <3>1, <3>4 DEF HandleNotifyClientConnected, Inv, Typed
    <2>2. CASE m.type = "disconnected" /\ HandleNotifyClientDisconnected(m.client, m.entity)
      BY <2>2 DEF HandleNotifyClientDisconnected, Inv, Typed
    <2>3. CASE m.type = "gateDown" /\ HandleNotifyGateDisconnected
      BY <2>3 DEF HandleNotifyGateDisconnected, Inv, Typed
    <2> QED BY <1>2, <2>1, <2>2, <2>3
  <1> QED BY <1>1, <1>3, <1>5, GameStepInv DEF Inv, Typed

\* The inductive invariant: every step of the gate, the dispatchers and the game
\* keeps the types and what the filter trees are made of.
THEOREM Inductive ==
  Inv /\ [Next]_vars => Inv'
  <1> SUFFICES ASSUME Inv, [Next]_vars PROVE Inv'
    OBVIOUS
  <1>1. ASSUME NEW c \in Client, Connect(c) \/ Disconnect(c) PROVE Inv'
    BY <1>1, ConnectInv
  <1>2. CASE PostTick
    BY <1>2, PostTickInv
  <1>3. CASE GateDies
    BY <1>3, GateDiesInv
  <1>4. ASSUME NEW d \in Dispatcher, HandleDispatcherClientPacket(d) PROVE Inv'
    BY <1>4, HandleDispatcherClientPacketInv
  <1>5. ASSUME NEW d \in Dispatcher, HandlePacket(d) PROVE Inv'
    BY <1>5, HandlePacketInv
  <1>6. ASSUME NEW d \in Dispatcher, ServeGate(d) PROVE Inv'
    BY <1>6, ServeGateInv
  <1>7. ASSUME NEW d \in Dispatcher, ServeGame(d) PROVE Inv'
    BY <1>7, ServeGameInv
  <1>8. ASSUME NEW d \in Dispatcher, GateDisconnected(d) PROVE Inv'
    BY <1>8, GateDisconnectedInv
  <1>9. ASSUME NEW e \in Entity, CreateEntity(e) PROVE Inv'
    BY <1>9, CreateEntityInv
  <1>10. ASSUME NEW e \in Entity, Destroy(e) PROVE Inv'
    BY <1>10, DestroyInv
  <1>11. ASSUME NEW e \in Entity, NEW o \in Entity, GiveClientTo(e, o) PROVE Inv'
    BY <1>11, GiveClientToInv
  <1>12. ASSUME NEW e \in Entity, NEW v \in Val, SetClientFilterProp(e, v) PROVE Inv'
    BY <1>12, SetClientFilterPropInv
  <1>13. CASE UNCHANGED vars
    <2>1. Announced' = Announced
      BY <1>13 DEF Announced, vars
    <2> QED BY <1>13, <2>1
        DEF vars, gateVars, wires, dispVars, gameVars, Inv, Typed, Filtered
  <1> QED BY <1>1, <1>2, <1>3, <1>4, <1>5, <1>6, <1>7, <1>8, <1>9, <1>10, <1>11,
             <1>12, <1>13 DEF Next

-----------------------------------------------------------------------------
(* The theorems                                                             *)

LEMMA SpecInv ==
  Spec => []Inv
  <1> QED BY InitInv, Inductive, PTL DEF Spec

\* The state of gate, dispatchers, game and clients keeps its types, and an entity
\* of the game has an id that was given out before (createEntity, onNewClientProxy).
THEOREM TypeCorrect ==
  Spec => []TypeOK
  <1>1. Inv => TypeOK
    <2> SUFFICES ASSUME Inv PROVE TypeOK
      OBVIOUS
    <2>1. Announced \subseteq Messages
      BY DEF Announced
    <2>2. toDisp \in Wire(Messages) /\ toGame \in Wire(Messages)
      BY <2>1, WireMonotonic DEF Inv, Typed
    <2> QED BY <2>2 DEF Inv, Typed, TypeOK, Wire, Posted
  <1> QED BY <1>1, SpecInv, PTL

\* Which items the ranges of the tree contain (AscendLessThan, AscendGreaterOrEqual,
\* NextLargerKey).
LEMMA Ranges ==
  ASSUME tree \subseteq Val \X Client, NEW v \in Val, NEW w \in Val, NEW c \in Client
  PROVE  /\ <<w, c>> \in Below(Key(v)) <=> <<w, c>> \in tree /\ w < v
         /\ <<w, c>> \in Below(NextLargerKey(v)) <=> <<w, c>> \in tree /\ w <= v
         /\ <<w, c>> \in AtLeast(Key(v)) <=> <<w, c>> \in tree /\ w >= v
         /\ <<w, c>> \in AtLeast(NextLargerKey(v)) <=> <<w, c>> \in tree /\ w > v
  <1>1. v \in Nat /\ w \in Nat /\ <<w, c>>[1] = w
    BY ValAssumption
  <1> QED BY <1>1 DEF Below, AtLeast, Key, NextLargerKey

\* Each operator visits the items whose value compares as asked.
LEMMA VisitItems ==
  ASSUME tree \subseteq Val \X Client, NEW op \in Ops, NEW v \in Val
  PROVE  Visit(op, v) = {c \in Client : \E w \in Val : <<w, c>> \in tree /\ Holds(w, op, v)}
  <1> DEFINE items ==
        CASE op = "="  -> {it \in AtLeast(Key(v)) : ~ it[1] > v}
          [] op = "!=" -> Below(Key(v)) \cup AtLeast(NextLargerKey(v))
          [] op = ">"  -> AtLeast(NextLargerKey(v))
          [] op = ">=" -> AtLeast(Key(v))
          [] op = "<"  -> Below(Key(v))
          [] op = "<=" -> Below(NextLargerKey(v))
  <1>1. Visit(op, v) = {it[2] : it \in items}
    BY DEF Visit
  <1>2. items \subseteq tree
    BY DEF Ops, Below, AtLeast
  <1>3. ASSUME NEW w \in Val, NEW c \in Client
        PROVE  <<w, c>> \in items <=> <<w, c>> \in tree /\ Holds(w, op, v)
    <2>1. v \in Nat /\ w \in Nat /\ <<w, c>>[1] = w
      BY ValAssumption
    <2>2. CASE op = "="
      BY <2>1, <2>2, Ranges DEF Holds
    <2>3. CASE op = "!="
      BY <2>1, <2>3, Ranges DEF Holds
    <2>4. CASE op = ">"
      BY <2>1, <2>4, Ranges DEF Holds
    <2>5. CASE op = "<"
      BY <2>1, <2>5, Ranges DEF Holds
    <2>6. CASE op = ">="
      BY <2>1, <2>6, Ranges DEF Holds
    <2>7. CASE op = "<="
      BY <2>1, <2>7, Ranges DEF Holds
    <2> QED BY <2>2, <2>3, <2>4, <2>5, <2>6, <2>7 DEF Ops
  <1> HIDE DEF items
  <1>4. ASSUME NEW it \in items
        PROVE  it[1] \in Val /\ it[2] \in Client /\ it = <<it[1], it[2]>>
    BY <1>2
  <1>5. ASSUME NEW c
        PROVE  c \in {it[2] : it \in items}
                 <=> c \in {x \in Client : \E w \in Val : <<w, x>> \in tree /\ Holds(w, op, v)}
    <2>1. ASSUME NEW it \in items, c = it[2]
          PROVE  c \in Client /\ \E w \in Val : <<w, c>> \in tree /\ Holds(w, op, v)
      BY <1>3, <1>4, <2>1
    <2>2. ASSUME NEW w \in Val, c \in Client, <<w, c>> \in tree, Holds(w, op, v)
          PROVE  \E it \in items : c = it[2]
      <3>1. <<w, c>> \in items /\ <<w, c>>[2] = c
        BY <1>3, <2>2
      <3> QED BY <3>1
    <2> QED BY <2>1, <2>2
  <1> QED BY <1>1, <1>5

\* A filtered call reaches exactly the clients whose property compares as asked, for
\* any values, operators and histories of set, clear, connect and close
\* (FilterTree.Visit, handleSetClientFilterProp, onClientProxyClose).
THEOREM FilteredCallsExact ==
  Spec => []VisitExact
  <1>1. Inv => VisitExact
    <2> SUFFICES ASSUME Inv, NEW op \in Ops, NEW v \in Val
                 PROVE  Visit(op, v) = {c \in Client : want[c] # None /\ Holds(want[c], op, v)}
      BY DEF VisitExact
    <2>1. Visit(op, v) = {c \in Client : \E w \in Val : <<w, c>> \in tree /\ Holds(w, op, v)}
      BY VisitItems DEF Inv, Typed
    <2>2. ASSUME NEW c \in Client
          PROVE  (\E w \in Val : <<w, c>> \in tree /\ Holds(w, op, v))
                   <=> want[c] # None /\ Holds(want[c], op, v)
      <3>1. want[c] \in Val \cup {None} /\ None \notin Val
        BY NobodyAssumption DEF Inv, Typed
      <3>2. \A w \in Val : <<w, c>> \in tree <=> want[c] = w
        BY DEF Inv, Filtered
      <3> QED BY <3>1, <3>2
    <2> QED BY <2>1, <2>2
  <1> QED BY <1>1, SpecInv, PTL

-----------------------------------------------------------------------------
(* Who owns a client: the inductive invariant                               *)

\* What a queue holds, and what it holds before what.
Has(q, m) == \E i \in DOMAIN q : q[i] = m
Pre(q, m, n) == \E i, j \in DOMAIN q : i < j /\ q[i] = m /\ q[j] = n

\* m is in q and no message of S comes after it.
Final(q, m, S) == \E i \in DOMAIN q : q[i] = m /\ \A j \in DOMAIN q : j > i => q[j] \notin S

\* What is on its way through a dispatcher, to the game and to the gate.
Joined(a, b) == [d \in Dispatcher |-> a[d] \o b[d]]
Up == Joined(toGame, toDisp)
Down == Joined(toGate, fromGame)

NewPost(c) == [kind |-> "new", client |-> c]
ClosePost(c) == [kind |-> "close", client |-> c]

\* What sets or clears the filter property of a client.
FilterMessages(c) == {ClearFilterProps(c)} \cup {SetFilterProp(c, v) : v \in Val}

Announces(c) == \E d \in Dispatcher : \E b \in Entity : Has(Up[d], Connected(c, b))

\* The gate knows of a client, and nobody has been told of its entity.
Waiting(c) == sock[c] = "new" \/ Has(posts, NewPost(c)) \/ Announces(c)

\* A client is announced once, with an entity of its own that does not live yet.
Announcing ==
  /\ \A c \in Client : sock[c] = "new" =>
       ~Has(posts, NewPost(c)) /\ owner[c] = None /\ ~Announces(c)
  /\ \A c \in Client : Has(posts, NewPost(c)) => owner[c] = None /\ ~Announces(c)
  /\ \A c \in Client : ~Pre(posts, NewPost(c), NewPost(c)) /\ ~Pre(posts, ClosePost(c), NewPost(c))
  /\ \A d \in Dispatcher, c \in Client, b \in Entity : Has(Up[d], Connected(c, b)) =>
       /\ d = DispatcherOf[b] /\ b \in used /\ b \notin live /\ b \notin route
       /\ \A x \in Dispatcher : ~Has(Down[x], NotifyCreate(b)) /\ ~Has(Down[x], NotifyDestroy(b))
       /\ ~Pre(Up[d], Connected(c, b), Connected(c, b))
       /\ \A x \in Dispatcher, k \in Client, e \in Entity :
            Has(Up[x], Connected(k, e)) => (k = c <=> e = b)
  /\ \A c \in Client : Waiting(c) =>
       /\ view[c] = {}
       /\ \A e \in Entity : client[e] # c
       /\ \A d \in Dispatcher : /\ \A e \in Entity : /\ ~Has(Down[d], CreateOnClient(c, e))
                                                     /\ ~Has(Down[d], DestroyOnClient(c, e))
                                /\ \A v \in Val : ~Has(Down[d], SetFilterProp(c, v))

\* A connection that is shut is closed by the main routine, after it was announced.
Closing ==
  \A c \in Client :
    /\ sock[c] = "open" /\ owner[c] = None => Has(posts, NewPost(c))
    /\ sock[c] = "shut" /\ owner[c] # None => Has(posts, ClosePost(c))
    /\ sock[c] = "shut" /\ Has(posts, NewPost(c)) => Pre(posts, NewPost(c), ClosePost(c))
    /\ sock[c] # "shut" =>
         /\ ~Has(posts, ClosePost(c))
         /\ \A d \in Dispatcher, e \in Entity : ~Has(Up[d], Disconnected(c, e))

\* A live entity has a route, or the notice that makes one is on its way.
Routed ==
  /\ route \subseteq used
  /\ \A e \in Entity, d \in Dispatcher :
       /\ Has(Down[d], NotifyCreate(e)) \/ Has(Down[d], NotifyDestroy(e)) => e \in used
       /\ e \in live => ~Has(Down[d], NotifyDestroy(e))
       /\ ~Has(toGate[d], NotifyCreate(e))
  /\ \A e \in live : e \in route \/ Has(Down[DispatcherOf[e]], NotifyCreate(e))

\* A client has one entity at most, and the notices of at most one on their way.
Creating ==
  /\ \A e \in Entity : client[e] # None => e \in live
  /\ \A e, f \in Entity : client[e] = client[f] /\ client[e] # None => e = f
  /\ \A d \in Dispatcher, c \in Client, e \in Entity : Has(Down[d], CreateOnClient(c, e)) =>
       /\ d = DispatcherOf[e]
       /\ ~Pre(Down[d], CreateOnClient(c, e), CreateOnClient(c, e))
       /\ \A x \in Dispatcher, f \in Entity : Has(Down[x], CreateOnClient(c, f)) => f = e
       /\ \A f \in Entity : client[f] = c => f = e
       /\ client[e] = c => e \in route \/ Pre(Down[d], NotifyCreate(e), CreateOnClient(c, e))

\* The gate knows the owner of a client, or will be told, or has told it that the
\* client is gone.
OwnedAt(e, c) ==
  \/ Has(Down[DispatcherOf[e]], CreateOnClient(c, e))
  \/ /\ e \in route
     /\ \/ owner[c] = e
        \/ owner[c] = None /\ Has(Up[DispatcherOf[e]], Disconnected(c, e))
Owning == \A e \in Entity : client[e] # None => OwnedAt(e, client[e])

\* What the client shows is its owner, or is taken away before the next is shown.
Shown(c) ==
  owner[c] # None =>
    /\ \A d \in Dispatcher, o \in Entity : Has(Down[d], CreateOnClient(c, o)) =>
         \A x \in view[c] : x = o \/ Pre(Down[d], DestroyOnClient(c, x), CreateOnClient(c, o))
    /\ \A e \in Entity : client[e] = c /\ ~Has(Down[DispatcherOf[e]], CreateOnClient(c, e)) =>
         view[c] \subseteq {e}

\* Nothing is taken away after the owner was shown.
Taken(c) ==
  \A e \in Entity : client[e] = c =>
    \A d \in Dispatcher, x \in Entity :
      /\ Has(Down[d], DestroyOnClient(c, x)) => Has(Down[d], CreateOnClient(c, e))
      /\ ~Pre(Down[d], CreateOnClient(c, e), DestroyOnClient(c, x))

\* What is not the owner will be taken away.
Leaving(c) ==
  sock[c] = "open" =>
    /\ \A e \in Entity : client[e] = c =>
         e \in view[c] \/ Has(Down[DispatcherOf[e]], CreateOnClient(c, e))
    /\ \A x \in view[c] : client[x] = c \/ \E d \in Dispatcher : Has(Down[d], DestroyOnClient(c, x))
    /\ \A d \in Dispatcher, o \in Entity : Has(Down[d], CreateOnClient(c, o)) =>
         client[o] = c \/ Pre(Down[d], CreateOnClient(c, o), DestroyOnClient(c, o))

Showing == \A c \in Client : Shown(c) /\ Taken(c) /\ Leaving(c)

\* The last word on the way to the gate about the filter property is the owner's.
Filtering ==
  \A e \in Entity : client[e] # None =>
    /\ \A d \in Dispatcher, v \in Val :
         Final(Down[d], SetFilterProp(client[e], v), FilterMessages(client[e])) =>
           d = DispatcherOf[e] /\ v = chosen[e]
    /\ \/ want[client[e]] \in {None, chosen[e]}
       \/ \E d \in Dispatcher : \E m \in FilterMessages(client[e]) : Has(Down[d], m)

\* After the gate's end a dispatcher's notice comes after what it announced before.
Ended ==
  /\ gate => noticed = {}
  /\ ~gate => \A c \in Client : sock[c] # "open" /\ owner[c] = None
  /\ \A c \in Client : owner[c] = None => want[c] = None
  /\ \A c \in Client : \A x, y \in view[c] : x = y
  /\ \A d \in Dispatcher : ~Has(toDisp[d], GateDown)
  /\ \A d \in Dispatcher : d \notin noticed => ~Has(toGame[d], GateDown)
  /\ \A d \in Dispatcher, c \in Client, b \in Entity : Has(toGame[d], Connected(c, b)) =>
       \/ c \in late
       \/ /\ ~Pre(toGame[d], GateDown, Connected(c, b))
          /\ d \notin noticed \/ Has(toGame[d], GateDown)
  /\ ~gate => \A e \in Entity : client[e] # None =>
       client[e] \in late \/ \E d \in Dispatcher : d \notin noticed \/ Has(toGame[d], GateDown)

Following == Announcing /\ Closing /\ Routed /\ Creating /\ Owning /\ Showing /\ Filtering
OwnerInv == Ended /\ (gate => Following)
-----------------------------------------------------------------------------
(* What queues hold                                                         *)

LEMMA HoldsNothing ==
  ASSUME NEW m, NEW n, NEW S
  PROVE  ~Has(<<>>, m) /\ ~Pre(<<>>, m, n) /\ ~Final(<<>>, m, S)
  BY DEF Has, Pre, Final

\* r is q with x after everything.
Extends(r, q, x) ==
  \A m, n, S :
    /\ Has(r, m) <=> Has(q, m) \/ m = x
    /\ Pre(r, m, n) <=> Pre(q, m, n) \/ (Has(q, m) /\ n = x)
    /\ Final(r, m, S) <=> m = x \/ (x \notin S /\ Final(q, m, S))

LEMMA HoldsAppended ==
  ASSUME NEW T, NEW q \in Seq(T), NEW x \in T
  PROVE  Extends(Append(q, x), q, x)
  <1> SUFFICES ASSUME NEW m, NEW n, NEW S
               PROVE  /\ Has(Append(q, x), m) <=> Has(q, m) \/ m = x
                      /\ Pre(Append(q, x), m, n) <=> Pre(q, m, n) \/ (Has(q, m) /\ n = x)
                      /\ Final(Append(q, x), m, S) <=> m = x \/ (x \notin S /\ Final(q, m, S))
    BY DEF Extends
  <1> DEFINE r == Append(q, x)
             k == Len(q)
  <1>1. /\ k \in Nat /\ DOMAIN q = 1..k /\ DOMAIN r = 1..(k + 1)
        /\ \A i \in 1..k : r[i] = q[i]
        /\ r[k + 1] = x
    OBVIOUS
  <1>2. Has(r, m) <=> Has(q, m) \/ m = x
    BY <1>1 DEF Has
  <1>3. Pre(r, m, n) <=> Pre(q, m, n) \/ (Has(q, m) /\ n = x)
    <2>1. ASSUME Pre(r, m, n) PROVE Pre(q, m, n) \/ (Has(q, m) /\ n = x)
      <3>1. PICK i, j \in DOMAIN r : i < j /\ r[i] = m /\ r[j] = n
        BY <2>1 DEF Pre
      <3> QED BY <1>1, <3>1 DEF Pre, Has
    <2>2. ASSUME Pre(q, m, n) PROVE Pre(r, m, n)
      BY <1>1, <2>2 DEF Pre
    <2>3. ASSUME Has(q, m), n = x PROVE Pre(r, m, n)
      <3>1. PICK i \in DOMAIN q : q[i] = m
        BY <2>3 DEF Has
      <3>2. i < k + 1 /\ i \in DOMAIN r /\ k + 1 \in DOMAIN r /\ r[i] = m
        BY <1>1, <3>1
      <3> QED BY <1>1, <2>3, <3>2 DEF Pre
    <2> QED BY <2>1, <2>2, <2>3
  <1>4. Final(r, m, S) <=> m = x \/ (x \notin S /\ Final(q, m, S))
    <2>1. ASSUME Final(r, m, S) PROVE m = x \/ (x \notin S /\ Final(q, m, S))
      <3>1. PICK i \in DOMAIN r : r[i] = m /\ \A j \in DOMAIN r : j > i => r[j] \notin S
        BY <2>1 DEF Final
      <3>2. CASE i = k + 1
        BY <1>1, <3>1, <3>2
      <3>3. CASE i \in 1..k
        BY <1>1, <3>1, <3>3 DEF Final
      <3> QED BY <1>1, <3>2, <3>3
    <2>2. ASSUME m = x PROVE Final(r, m, S)
      BY <1>1, <2>2 DEF Final
    <2>3. ASSUME x \notin S, Final(q, m, S) PROVE Final(r, m, S)
      <3>1. PICK i \in DOMAIN q : q[i] = m /\ \A j \in DOMAIN q : j > i => q[j] \notin S
        BY <2>3 DEF Final
      <3>2. i \in DOMAIN r /\ r[i] = m /\ \A j \in DOMAIN r : j > i => r[j] \notin S
        BY <1>1, <2>3, <3>1
      <3> QED BY <3>2 DEF Final
    <2> QED BY <2>1, <2>2, <2>3
  <1> QED BY <1>2, <1>3, <1>4

LEMMA HoldsHead ==
  ASSUME NEW T, NEW q \in Seq(T), q # <<>>, NEW m, NEW n, NEW S
  PROVE  /\ Has(q, m) <=> Has(Tail(q), m) \/ m = Head(q)
         /\ Pre(q, m, n) <=> Pre(Tail(q), m, n) \/ (m = Head(q) /\ Has(Tail(q), n))
         /\ Final(q, m, S) <=> \/ Final(Tail(q), m, S)
                               \/ m = Head(q) /\ \A x \in S : ~Has(Tail(q), x)
  <1> DEFINE r == Tail(q)
             k == Len(q)
  <1>1. /\ k \in Nat /\ k > 0 /\ DOMAIN q = 1..k /\ DOMAIN r = 1..(k - 1)
        /\ \A i \in 1..(k - 1) : r[i] = q[i + 1]
        /\ q[1] = Head(q)
    OBVIOUS
  <1> HIDE DEF r, k
  <1>2. Has(q, m) <=> Has(r, m) \/ m = Head(q)
    <2>1. ASSUME Has(q, m) PROVE Has(r, m) \/ m = Head(q)
      <3>1. PICK i \in DOMAIN q : q[i] = m
        BY <2>1 DEF Has
      <3>2. i = 1 \/ (i - 1 \in DOMAIN r /\ r[i - 1] = m)
        BY <1>1, <3>1
      <3> QED BY <1>1, <3>1, <3>2 DEF Has
    <2>2. ASSUME Has(r, m) PROVE Has(q, m)
      <3>1. PICK i \in DOMAIN r : r[i] = m
        BY <2>2 DEF Has
      <3>2. i + 1 \in DOMAIN q /\ q[i + 1] = m
        BY <1>1, <3>1
      <3> QED BY <3>2 DEF Has
    <2>3. 1 \in DOMAIN q
      BY <1>1
    <2> QED BY <1>1, <2>1, <2>2, <2>3 DEF Has
  <1>3. Pre(q, m, n) <=> Pre(r, m, n) \/ (m = Head(q) /\ Has(r, n))
    <2>1. ASSUME Pre(q, m, n) PROVE Pre(r, m, n) \/ (m = Head(q) /\ Has(r, n))
      <3>1. PICK i, j \in DOMAIN q : i < j /\ q[i] = m /\ q[j] = n
        BY <2>1 DEF Pre
      <3>2. j - 1 \in DOMAIN r /\ r[j - 1] = n
        BY <1>1, <3>1
      <3>3. CASE i = 1
        BY <1>1, <3>1, <3>2, <3>3 DEF Has
      <3>4. CASE i # 1
        <4>1. i - 1 \in DOMAIN r /\ r[i - 1] = m /\ i - 1 < j - 1
          BY <1>1, <3>1, <3>4
        <4> QED BY <3>2, <4>1 DEF Pre
      <3> QED BY <3>3, <3>4
    <2>2. ASSUME Pre(r, m, n) PROVE Pre(q, m, n)
      <3>1. PICK i, j \in DOMAIN r : i < j /\ r[i] = m /\ r[j] = n
        BY <2>2 DEF Pre
      <3>2. /\ i + 1 \in DOMAIN q /\ q[i + 1] = m
            /\ j + 1 \in DOMAIN q /\ q[j + 1] = n /\ i + 1 < j + 1
        BY <1>1, <3>1
      <3> QED BY <3>2 DEF Pre
    <2>3. ASSUME m = Head(q), Has(r, n) PROVE Pre(q, m, n)
      <3>1. PICK j \in DOMAIN r : r[j] = n
        BY <2>3 DEF Has
      <3>2. 1 \in DOMAIN q /\ j + 1 \in DOMAIN q /\ q[j + 1] = n /\ 1 < j + 1
        BY <1>1, <3>1
      <3> QED BY <1>1, <2>3, <3>2 DEF Pre
    <2> QED BY <2>1, <2>2, <2>3
  <1>4. Final(q, m, S) <=> \/ Final(r, m, S)
                           \/ m = Head(q) /\ \A x \in S : ~Has(r, x)
    <2>1. ASSUME Final(q, m, S)
          PROVE  Final(r, m, S) \/ (m = Head(q) /\ \A x \in S : ~Has(r, x))
      <3>1. PICK i \in DOMAIN q : q[i] = m /\ \A j \in DOMAIN q : j > i => q[j] \notin S
        BY <2>1 DEF Final
      <3>2. CASE i = 1
        <4>1. ASSUME NEW j \in DOMAIN r PROVE r[j] \notin S
          <5>1. j + 1 \in DOMAIN q /\ j + 1 > 1 /\ q[j + 1] = r[j]
            BY <1>1
          <5> QED BY <3>1, <3>2, <5>1
        <4> QED BY <1>1, <3>1, <3>2, <4>1 DEF Has
      <3>3. CASE i # 1
        <4>1. i - 1 \in DOMAIN r /\ r[i - 1] = m
          BY <1>1, <3>1, <3>3
        <4>2. ASSUME NEW j \in DOMAIN r, j > i - 1 PROVE r[j] \notin S
          <5>1. j + 1 \in DOMAIN q /\ j + 1 > i /\ q[j + 1] = r[j]
            BY <1>1, <4>2
          <5> QED BY <3>1, <5>1
        <4> QED BY <4>1, <4>2 DEF Final
      <3> QED BY <3>2, <3>3
    <2>2. ASSUME Final(r, m, S) PROVE Final(q, m, S)
      <3>1. PICK i \in DOMAIN r : r[i] = m /\ \A j \in DOMAIN r : j > i => r[j] \notin S
        BY <2>2 DEF Final
      <3>2. i + 1 \in DOMAIN q /\ q[i + 1] = m
        BY <1>1, <3>1
      <3>3. ASSUME NEW j \in DOMAIN q, j > i + 1 PROVE q[j] \notin S
        <4>1. j - 1 \in DOMAIN r /\ j - 1 > i /\ r[j - 1] = q[j]
          BY <1>1, <3>1, <3>3
        <4> QED BY <3>1, <4>1
      <3> QED BY <3>2, <3>3 DEF Final
    <2>3. ASSUME m = Head(q), \A x \in S : ~Has(r, x) PROVE Final(q, m, S)
      <3>1. ASSUME NEW j \in DOMAIN q, j > 1 PROVE q[j] \notin S
        <4>1. j - 1 \in DOMAIN r /\ r[j - 1] = q[j]
          BY <1>1, <3>1
        <4>2. Has(r, q[j])
          BY <4>1 DEF Has
        <4> QED BY <2>3, <4>2
      <3>2. 1 \in DOMAIN q
        BY <1>1
      <3> QED BY <1>1, <2>3, <3>1, <3>2 DEF Final
    <2> QED BY <2>1, <2>2, <2>3
  <1> QED BY <1>2, <1>3, <1>4 DEF r

LEMMA HoldsBoth ==
  ASSUME NEW T, NEW p \in Seq(T), NEW q \in Seq(T), NEW m, NEW n, NEW S
  PROVE  /\ Has(p \o q, m) <=> Has(p, m) \/ Has(q, m)
         /\ Pre(p \o q, m, n) <=> Pre(p, m, n) \/ Pre(q, m, n) \/ (Has(p, m) /\ Has(q, n))
         /\ Final(p \o q, m, S) <=> \/ Final(q, m, S)
                                    \/ Final(p, m, S) /\ \A x \in S : ~Has(q, x)
  <1> DEFINE r == p \o q
             k == Len(p)
             l == Len(q)
  <1>1. /\ k \in Nat /\ l \in Nat /\ DOMAIN p = 1..k /\ DOMAIN q = 1..l
        /\ DOMAIN r = 1..(k + l)
        /\ \A i \in 1..k : r[i] = p[i]
        /\ \A i \in 1..l : r[k + i] = q[i]
    OBVIOUS
  <1> HIDE DEF r, k, l
  <1>2. ASSUME NEW i \in DOMAIN r
        PROVE  \/ i \in DOMAIN p /\ r[i] = p[i]
               \/ i > k /\ i - k \in DOMAIN q /\ r[i] = q[i - k]
    <2>1. CASE i <= k
      BY <1>1, <2>1
    <2>2. CASE i > k
      <3>1. i - k \in 1..l /\ k + (i - k) = i
        BY <1>1, <2>2
      <3> QED BY <1>1, <2>2, <3>1
    <2> QED BY <1>1, <2>1, <2>2
  <1>3. /\ \A i \in DOMAIN p : i \in DOMAIN r /\ r[i] = p[i] /\ i <= k
        /\ \A i \in DOMAIN q : k + i \in DOMAIN r /\ r[k + i] = q[i] /\ k + i > k
    BY <1>1
  <1>4. Has(r, m) <=> Has(p, m) \/ Has(q, m)
    <2>1. ASSUME Has(r, m) PROVE Has(p, m) \/ Has(q, m)
      BY <1>2, <2>1 DEF Has
    <2>2. ASSUME Has(p, m) \/ Has(q, m) PROVE Has(r, m)
      BY <1>3, <2>2 DEF Has
    <2> QED BY <2>1, <2>2
  <1>5. Pre(r, m, n) <=> Pre(p, m, n) \/ Pre(q, m, n) \/ (Has(p, m) /\ Has(q, n))
    <2>1. ASSUME Pre(r, m, n)
          PROVE  Pre(p, m, n) \/ Pre(q, m, n) \/ (Has(p, m) /\ Has(q, n))
      <3>1. PICK i, j \in DOMAIN r : i < j /\ r[i] = m /\ r[j] = n
        BY <2>1 DEF Pre
      <3>2. CASE i \in DOMAIN p /\ r[i] = p[i]
        BY <1>2, <3>1, <3>2 DEF Pre, Has
      <3>3. CASE i > k /\ i - k \in DOMAIN q /\ r[i] = q[i - k]
        <4>1. j - k \in DOMAIN q /\ r[j] = q[j - k] /\ i - k < j - k
          BY <1>1, <1>2, <3>1, <3>3
        <4> QED BY <3>1, <3>3, <4>1 DEF Pre
      <3> QED BY <1>2, <3>2, <3>3
    <2>2. ASSUME Pre(p, m, n) PROVE Pre(r, m, n)
      BY <1>3, <2>2 DEF Pre
    <2>3. ASSUME Pre(q, m, n) PROVE Pre(r, m, n)
      <3>1. PICK i, j \in DOMAIN q : i < j /\ q[i] = m /\ q[j] = n
        BY <2>3 DEF Pre
      <3>2. k + i < k + j
        BY <1>1, <3>1
      <3> QED BY <1>3, <3>1, <3>2 DEF Pre
    <2>4. ASSUME Has(p, m), Has(q, n) PROVE Pre(r, m, n)
      <3>1. PICK i \in DOMAIN p : p[i] = m
        BY <2>4 DEF Has
      <3>2. PICK j \in DOMAIN q : q[j] = n
        BY <2>4 DEF Has
      <3>3. i < k + j
        BY <1>1, <3>1, <3>2
      <3> QED BY <1>3, <3>1, <3>2, <3>3 DEF Pre
    <2> QED BY <2>1, <2>2, <2>3, <2>4
  <1>6. Final(r, m, S) <=> \/ Final(q, m, S)
                           \/ Final(p, m, S) /\ \A x \in S : ~Has(q, x)
    <2>1. ASSUME Final(r, m, S)
          PROVE  Final(q, m, S) \/ (Final(p, m, S) /\ \A x \in S : ~Has(q, x))
      <3>1. PICK i \in DOMAIN r : r[i] = m /\ \A j \in DOMAIN r : j > i => r[j] \notin S
        BY <2>1 DEF Final
      <3>2. CASE i \in DOMAIN p /\ r[i] = p[i]
        <4>1. \A j \in DOMAIN p : j > i => p[j] \notin S
          BY <1>3, <3>1
        <4>2. ASSUME NEW j \in DOMAIN q PROVE q[j] \notin S
          <5>1. k + j > i
            BY <1>1, <3>2
          <5> QED BY <1>3, <3>1, <5>1
        <4> QED BY <3>1, <3>2, <4>1, <4>2 DEF Final, Has
      <3>3. CASE i > k /\ i - k \in DOMAIN q /\ r[i] = q[i - k]
        <4>1. ASSUME NEW j \in DOMAIN q, j > i - k PROVE q[j] \notin S
          <5>1. k + j > i
            BY <1>1, <3>3, <4>1
          <5> QED BY <1>3, <3>1, <5>1
        <4> QED BY <3>1, <3>3, <4>1 DEF Final
      <3> QED BY <1>2, <3>2, <3>3
    <2>2. ASSUME Final(q, m, S) PROVE Final(r, m, S)
      <3>1. PICK i \in DOMAIN q : q[i] = m /\ \A j \in DOMAIN q : j > i => q[j] \notin S
        BY <2>2 DEF Final
      <3>2. ASSUME NEW j \in DOMAIN r, j > k + i PROVE r[j] \notin S
        <4>1. j - k \in DOMAIN q /\ r[j] = q[j - k] /\ j - k > i
          BY <1>1, <1>2, <3>1, <3>2
        <4> QED BY <3>1, <4>1
      <3> QED BY <1>3, <3>1, <3>2 DEF Final
    <2>3. ASSUME Final(p, m, S), \A x \in S : ~Has(q, x) PROVE Final(r, m, S)
      <3>1. PICK i \in DOMAIN p : p[i] = m /\ \A j \in DOMAIN p : j > i => p[j] \notin S
        BY <2>3 DEF Final
      <3>2. ASSUME NEW j \in DOMAIN r, j > i PROVE r[j] \notin S
        <4>1. CASE j \in DOMAIN p /\ r[j] = p[j]
          BY <3>1, <3>2, <4>1
        <4>2. CASE j > k /\ j - k \in DOMAIN q /\ r[j] = q[j - k]
          BY <2>3, <4>2 DEF Has
        <4> QED BY <1>2, <4>1, <4>2
      <3> QED BY <1>3, <3>1, <3>2 DEF Final
    <2> QED BY <2>1, <2>2, <2>3
  <1> QED BY <1>4, <1>5, <1>6 DEF r
\* What is told of entities, clients and properties on the way to the gate is the
\* same.
SameNotices(q, r) ==
  \A d \in Dispatcher, e \in Entity :
    /\ Has(r[d], NotifyCreate(e)) <=> Has(q[d], NotifyCreate(e))
    /\ Has(r[d], NotifyDestroy(e)) <=> Has(q[d], NotifyDestroy(e))
SameCreates(q, r) ==
  \A d \in Dispatcher, c \in Client, e \in Entity :
    /\ Has(r[d], CreateOnClient(c, e)) <=> Has(q[d], CreateOnClient(c, e))
    /\ Pre(r[d], CreateOnClient(c, e), CreateOnClient(c, e))
         <=> Pre(q[d], CreateOnClient(c, e), CreateOnClient(c, e))
    /\ Pre(r[d], NotifyCreate(e), CreateOnClient(c, e))
         <=> Pre(q[d], NotifyCreate(e), CreateOnClient(c, e))
SameDestroys(q, r) ==
  \A d \in Dispatcher, c \in Client, x, y \in Entity :
    /\ Has(r[d], DestroyOnClient(c, x)) <=> Has(q[d], DestroyOnClient(c, x))
    /\ Pre(r[d], CreateOnClient(c, x), DestroyOnClient(c, y))
         <=> Pre(q[d], CreateOnClient(c, x), DestroyOnClient(c, y))
    /\ Pre(r[d], DestroyOnClient(c, x), CreateOnClient(c, y))
         <=> Pre(q[d], DestroyOnClient(c, x), CreateOnClient(c, y))
SameFilters(q, r) ==
  \A d \in Dispatcher, c \in Client :
    /\ Has(r[d], ClearFilterProps(c)) <=> Has(q[d], ClearFilterProps(c))
    /\ \A v \in Val :
         /\ Has(r[d], SetFilterProp(c, v)) <=> Has(q[d], SetFilterProp(c, v))
         /\ Final(r[d], SetFilterProp(c, v), FilterMessages(c))
              <=> Final(q[d], SetFilterProp(c, v), FilterMessages(c))

\* q and r differ in where m is only.
Besides(q, r, m) ==
  \A d \in Dispatcher : \A a, b, S :
    /\ a # m => (Has(r[d], a) <=> Has(q[d], a))
    /\ a # m /\ b # m => (Pre(r[d], a, b) <=> Pre(q[d], a, b))
    /\ a # m /\ m \notin S => (Final(r[d], a, S) <=> Final(q[d], a, S))

\* The first message of q[d], which r has no more, is m.
Reads(q, r, d, m) ==
  /\ \A x \in Dispatcher : x # d => r[x] = q[x]
  /\ \A n : Has(q[d], n) <=> Has(r[d], n) \/ n = m
  /\ \A n, p : Pre(q[d], n, p) <=> Pre(r[d], n, p) \/ (n = m /\ Has(r[d], p))
  /\ \A n, S : Final(q[d], n, S) <=> Final(r[d], n, S) \/ (n = m /\ \A p \in S : ~Has(r[d], p))
  /\ Besides(q, r, m)

\* r is q without a message m of q[d], wherever it was.
Drops(q, r, d, m) ==
  /\ \A x \in Dispatcher : x # d => r[x] = q[x]
  /\ \A n : Has(q[d], n) <=> Has(r[d], n) \/ n = m
  /\ Besides(q, r, m)

\* Messages of one kind are equal if they say the same, those of two kinds are not.
LEMMA MessagesDiffer ==
  ASSUME NEW c, NEW e, NEW k, NEW f, NEW v, NEW w
  PROVE  /\ NotifyCreate(e) = NotifyCreate(f) <=> e = f
         /\ NotifyDestroy(e) = NotifyDestroy(f) <=> e = f
         /\ CreateOnClient(c, e) = CreateOnClient(k, f) <=> c = k /\ e = f
         /\ DestroyOnClient(c, e) = DestroyOnClient(k, f) <=> c = k /\ e = f
         /\ Connected(c, e) = Connected(k, f) <=> c = k /\ e = f
         /\ Disconnected(c, e) = Disconnected(k, f) <=> c = k /\ e = f
         /\ SetFilterProp(c, v) = SetFilterProp(k, w) <=> c = k /\ v = w
         /\ ClearFilterProps(c) = ClearFilterProps(k) <=> c = k
         /\ CreateOnClient(c, e) # DestroyOnClient(k, f)
         /\ Connected(c, e) # Disconnected(k, f)
         /\ SetFilterProp(c, v) # ClearFilterProps(k)
  BY DEF NotifyCreate, NotifyDestroy, CreateOnClient, DestroyOnClient, Connected,
         Disconnected, SetFilterProp, ClearFilterProps

LEMMA MessageTypes ==
  ASSUME NEW c, NEW e, NEW v
  PROVE  /\ NotifyCreate(e).type = "created" /\ NotifyDestroy(e).type = "destroyed"
         /\ CreateOnClient(c, e).type = "createOnClient"
         /\ DestroyOnClient(c, e).type = "destroyOnClient"
         /\ SetFilterProp(c, v).type = "setFilterProp"
         /\ ClearFilterProps(c).type = "clearFilterProps"
         /\ Connected(c, e).type = "connected" /\ Disconnected(c, e).type = "disconnected"
         /\ GateDown.type = "gateDown"
  BY DEF NotifyCreate, NotifyDestroy, CreateOnClient, DestroyOnClient, Connected,
         Disconnected, SetFilterProp, ClearFilterProps, GateDown

\* A message is what its type and its fields say.
LEMMA MessageIs ==
  ASSUME NEW m \in Messages
  PROVE  /\ m.type = "created" => m = NotifyCreate(m.entity)
         /\ m.type = "destroyed" => m = NotifyDestroy(m.entity)
         /\ m.type = "createOnClient" => m = CreateOnClient(m.client, m.entity)
         /\ m.type = "destroyOnClient" => m = DestroyOnClient(m.client, m.entity)
         /\ m.type = "connected" => m = Connected(m.client, m.entity)
         /\ m.type = "disconnected" => m = Disconnected(m.client, m.entity)
         /\ m.type = "setFilterProp" => m = SetFilterProp(m.client, m.val)
         /\ m.type = "clearFilterProps" => m = ClearFilterProps(m.client)
         /\ m.type = "gateDown" => m = GateDown
         /\ m.type \in {"created", "destroyed", "createOnClient", "destroyOnClient",
                        "connected", "disconnected", "setFilterProp", "clearFilterProps",
                        "gateDown"}
  BY DEF Messages, NotifyCreate, NotifyDestroy, CreateOnClient, DestroyOnClient,
         Connected, Disconnected, SetFilterProp, ClearFilterProps, GateDown

\* What a message says nothing about stays the same wherever it is put or taken from.
LEMMA BesidesKinds ==
  ASSUME NEW q, NEW r, NEW m, Besides(q, r, m)
  PROVE  /\ m.type \notin {"created", "destroyed"} => SameNotices(q, r)
         /\ m.type \notin {"created", "createOnClient"} => SameCreates(q, r)
         /\ m.type \notin {"createOnClient", "destroyOnClient"} => SameDestroys(q, r)
         /\ m.type \notin {"setFilterProp", "clearFilterProps"} => SameFilters(q, r)
  <1>1. ASSUME m.type \notin {"created", "destroyed"} PROVE SameNotices(q, r)
    <2>1. \A e : m # NotifyCreate(e) /\ m # NotifyDestroy(e)
      BY <1>1, MessageTypes
    <2> QED BY <2>1 DEF SameNotices, Besides
  <1>2. ASSUME m.type \notin {"created", "createOnClient"} PROVE SameCreates(q, r)
    <2>1. \A c, e : m # CreateOnClient(c, e) /\ m # NotifyCreate(e)
      BY <1>2, MessageTypes
    <2> QED BY <2>1 DEF SameCreates, Besides
  <1>3. ASSUME m.type \notin {"createOnClient", "destroyOnClient"} PROVE SameDestroys(q, r)
    <2>1. \A c, e : m # CreateOnClient(c, e) /\ m # DestroyOnClient(c, e)
      BY <1>3, MessageTypes
    <2> QED BY <2>1 DEF SameDestroys, Besides
  <1>4. ASSUME m.type \notin {"setFilterProp", "clearFilterProps"} PROVE SameFilters(q, r)
    <2>1. \A c, v : m # SetFilterProp(c, v) /\ m # ClearFilterProps(c)
      BY <1>4, MessageTypes
    <2>2. \A c : m \notin FilterMessages(c)
      BY <2>1 DEF FilterMessages
    <2> QED BY <2>1, <2>2 DEF SameFilters, Besides
  <1> QED BY <1>1, <1>2, <1>3, <1>4

-----------------------------------------------------------------------------
(* What is sent                                                             *)

\* r is q with x sent after everything to the dispatcher of e.
Sends(q, r, e, x) ==
  \A d \in Dispatcher : \A m, n, S :
    /\ d # DispatcherOf[e] => r[d] = q[d]
    /\ Has(r[d], m) <=> Has(q[d], m) \/ (d = DispatcherOf[e] /\ m = x)
    /\ Pre(r[d], m, n)
         <=> Pre(q[d], m, n) \/ (d = DispatcherOf[e] /\ Has(q[d], m) /\ n = x)
    /\ d = DispatcherOf[e] =>
         (Final(r[d], m, S) <=> m = x \/ (x \notin S /\ Final(q[d], m, S)))

LEMMA ViaHolds ==
  ASSUME NEW q \in Wire(Messages), NEW e, NEW x \in Messages, NEW r, r = Via(q, e, x)
  PROVE  Sends(q, r, e, x)
  <1> SUFFICES ASSUME NEW d \in Dispatcher, NEW m, NEW n, NEW S
               PROVE  /\ d # DispatcherOf[e] => r[d] = q[d]
                      /\ d = DispatcherOf[e] =>
                           /\ Has(r[d], m) <=> Has(q[d], m) \/ m = x
                           /\ Pre(r[d], m, n) <=> Pre(q[d], m, n) \/ (Has(q[d], m) /\ n = x)
                           /\ Final(r[d], m, S) <=> m = x \/ (x \notin S /\ Final(q[d], m, S))
    BY DEF Sends
  <1>1. q[d] \in Seq(Messages)
    BY DEF Wire
  <1>2. d # DispatcherOf[e] => Via(q, e, x)[d] = q[d]
    BY DEF Via, Wire
  <1>3. d = DispatcherOf[e] => Via(q, e, x)[d] = Append(q[d], x)
    BY DEF Via, Wire
  <1>4. PICK p \in Seq(Messages) : p = q[d]
    BY <1>1
  <1>5. Extends(Append(p, x), p, x)
    BY HoldsAppended
  <1> QED BY <1>2, <1>3, <1>4, <1>5 DEF Extends

LEMMA ViaBesides ==
  ASSUME NEW q \in Wire(Messages), NEW e, NEW x \in Messages
  PROVE  Besides(q, Via(q, e, x), x)
  <1>1. PICK r : r = Via(q, e, x)
    OBVIOUS
  <1> SUFFICES ASSUME NEW d \in Dispatcher, NEW a, NEW b, NEW S
               PROVE  /\ a # x => (Has(r[d], a) <=> Has(q[d], a))
                      /\ a # x /\ b # x => (Pre(r[d], a, b) <=> Pre(q[d], a, b))
                      /\ a # x /\ x \notin S => (Final(r[d], a, S) <=> Final(q[d], a, S))
    BY <1>1 DEF Besides
  <1>2. /\ d # DispatcherOf[e] => r[d] = q[d]
        /\ d = DispatcherOf[e] =>
             /\ Has(r[d], a) <=> Has(q[d], a) \/ a = x
             /\ Pre(r[d], a, b) <=> Pre(q[d], a, b) \/ (Has(q[d], a) /\ b = x)
             /\ Final(r[d], a, S) <=> a = x \/ (x \notin S /\ Final(q[d], a, S))
    <2>1. Sends(q, r, e, x)
      BY <1>1, ViaHolds
    <2> QED BY <2>1 DEF Sends
  <1>3. CASE d # DispatcherOf[e]
    BY <1>2, <1>3
  <1>4. CASE d = DispatcherOf[e]
    BY <1>2, <1>4
  <1> QED BY <1>3, <1>4

\* c is told to create o, to destroy x, to forget its filter property.
AddsCreate(q, r, c, o) ==
  \A d \in Dispatcher, k \in Client : \A x, y \in Entity :
    /\ Has(r[d], CreateOnClient(k, x))
         <=> Has(q[d], CreateOnClient(k, x)) \/ (d = DispatcherOf[o] /\ k = c /\ x = o)
    /\ Pre(r[d], CreateOnClient(k, x), CreateOnClient(k, x))
         <=> \/ Pre(q[d], CreateOnClient(k, x), CreateOnClient(k, x))
             \/ d = DispatcherOf[o] /\ k = c /\ x = o /\ Has(q[d], CreateOnClient(c, o))
    /\ Pre(r[d], NotifyCreate(x), CreateOnClient(k, x))
         <=> \/ Pre(q[d], NotifyCreate(x), CreateOnClient(k, x))
             \/ d = DispatcherOf[o] /\ k = c /\ x = o /\ Has(q[d], NotifyCreate(o))
    /\ Has(r[d], DestroyOnClient(k, x)) <=> Has(q[d], DestroyOnClient(k, x))
    /\ Pre(r[d], CreateOnClient(k, x), DestroyOnClient(k, y))
         <=> Pre(q[d], CreateOnClient(k, x), DestroyOnClient(k, y))
    /\ Pre(r[d], DestroyOnClient(k, x), CreateOnClient(k, y))
         <=> \/ Pre(q[d], DestroyOnClient(k, x), CreateOnClient(k, y))
             \/ d = DispatcherOf[o] /\ k = c /\ y = o /\ Has(q[d], DestroyOnClient(c, x))
AddsDestroy(q, r, c, e, o) ==
  \A d \in Dispatcher, k \in Client : \A x, y \in Entity :
    /\ Has(r[d], DestroyOnClient(k, x))
         <=> Has(q[d], DestroyOnClient(k, x)) \/ (d = DispatcherOf[o] /\ k = c /\ x = e)
    /\ Pre(r[d], CreateOnClient(k, x), DestroyOnClient(k, y))
         <=> \/ Pre(q[d], CreateOnClient(k, x), DestroyOnClient(k, y))
             \/ d = DispatcherOf[o] /\ k = c /\ y = e /\ Has(q[d], CreateOnClient(c, x))
    /\ Pre(r[d], DestroyOnClient(k, x), CreateOnClient(k, y))
         <=> Pre(q[d], DestroyOnClient(k, x), CreateOnClient(k, y))
AddsClear(q, r, c, e) ==
  \A d \in Dispatcher, k \in Client :
    /\ Has(r[d], ClearFilterProps(k))
         <=> Has(q[d], ClearFilterProps(k)) \/ (d = DispatcherOf[e] /\ k = c)
    /\ \A v \in Val :
         /\ Has(r[d], SetFilterProp(k, v)) <=> Has(q[d], SetFilterProp(k, v))
         /\ Final(r[d], SetFilterProp(k, v), FilterMessages(k))
              <=> /\ Final(q[d], SetFilterProp(k, v), FilterMessages(k))
                  /\ ~(d = DispatcherOf[e] /\ k = c)
AddsSet(q, r, c, e, w) ==
  \A d \in Dispatcher, k \in Client :
    /\ Has(r[d], ClearFilterProps(k)) <=> Has(q[d], ClearFilterProps(k))
    /\ \A v \in Val :
         /\ Has(r[d], SetFilterProp(k, v))
              <=> Has(q[d], SetFilterProp(k, v)) \/ (d = DispatcherOf[e] /\ k = c /\ v = w)
         /\ Final(r[d], SetFilterProp(k, v), FilterMessages(k))
              <=> IF d = DispatcherOf[e] /\ k = c THEN v = w
                  ELSE Final(q[d], SetFilterProp(k, v), FilterMessages(k))

LEMMA SendCreate ==
  ASSUME NEW q \in Wire(Messages), NEW c \in Client, NEW o \in Entity,
         NEW r, r = Via(q, o, CreateOnClient(c, o))
  PROVE  AddsCreate(q, r, c, o) /\ SameNotices(q, r) /\ SameFilters(q, r)
  <1>1. CreateOnClient(c, o) \in Messages
    BY DEF CreateOnClient, Messages
  <1>2. SameNotices(q, r) /\ SameFilters(q, r)
    BY <1>1, ViaBesides, BesidesKinds, MessageTypes
  <1>3. ASSUME NEW d \in Dispatcher, NEW m, NEW n
        PROVE  /\ Has(r[d], m)
                    <=> Has(q[d], m) \/ (d = DispatcherOf[o] /\ m = CreateOnClient(c, o))
               /\ Pre(r[d], m, n) <=> \/ Pre(q[d], m, n)
                                      \/ /\ d = DispatcherOf[o] /\ Has(q[d], m)
                                         /\ n = CreateOnClient(c, o)
    <2>1. Sends(q, r, o, CreateOnClient(c, o))
      BY <1>1, ViaHolds
    <2> QED BY <2>1 DEF Sends
  <1>4. \A d \in Dispatcher, k \in Client : \A x, y \in Entity :
          /\ CreateOnClient(k, x) = CreateOnClient(c, o) <=> k = c /\ x = o
          /\ DestroyOnClient(k, x) # CreateOnClient(c, o)
    BY MessagesDiffer
  <1> QED BY <1>2, <1>3, <1>4 DEF AddsCreate

LEMMA SendDestroy ==
  ASSUME NEW q \in Wire(Messages), NEW c \in Client, NEW e \in Entity, NEW o \in Entity,
         NEW r, r = Via(q, o, DestroyOnClient(c, e))
  PROVE  AddsDestroy(q, r, c, e, o) /\ SameNotices(q, r) /\ SameCreates(q, r)
         /\ SameFilters(q, r)
  <1>1. DestroyOnClient(c, e) \in Messages
    BY DEF DestroyOnClient, Messages
  <1>2. SameNotices(q, r) /\ SameCreates(q, r) /\ SameFilters(q, r)
    BY <1>1, ViaBesides, BesidesKinds, MessageTypes
  <1>3. ASSUME NEW d \in Dispatcher, NEW m, NEW n
        PROVE  /\ Has(r[d], m)
                    <=> Has(q[d], m) \/ (d = DispatcherOf[o] /\ m = DestroyOnClient(c, e))
               /\ Pre(r[d], m, n) <=> \/ Pre(q[d], m, n)
                                      \/ /\ d = DispatcherOf[o] /\ Has(q[d], m)
                                         /\ n = DestroyOnClient(c, e)
    <2>1. Sends(q, r, o, DestroyOnClient(c, e))
      BY <1>1, ViaHolds
    <2> QED BY <2>1 DEF Sends
  <1>4. \A d \in Dispatcher, k \in Client : \A x, y \in Entity :
          /\ DestroyOnClient(k, x) = DestroyOnClient(c, e) <=> k = c /\ x = e
          /\ CreateOnClient(k, x) # DestroyOnClient(c, e)
    BY MessagesDiffer
  <1> QED BY <1>2, <1>3, <1>4 DEF AddsDestroy

LEMMA SendClear ==
  ASSUME NEW q \in Wire(Messages), NEW c \in Client, NEW e \in Entity,
         NEW r, r = Via(q, e, ClearFilterProps(c))
  PROVE  AddsClear(q, r, c, e) /\ SameNotices(q, r) /\ SameCreates(q, r)
         /\ SameDestroys(q, r)
  <1>1. ClearFilterProps(c) \in Messages
    BY DEF ClearFilterProps, Messages
  <1>2. SameNotices(q, r) /\ SameCreates(q, r) /\ SameDestroys(q, r)
    BY <1>1, ViaBesides, BesidesKinds, MessageTypes
  <1>3. ASSUME NEW d \in Dispatcher, NEW m, NEW S
        PROVE  /\ d # DispatcherOf[e] => r[d] = q[d]
               /\ d = DispatcherOf[e] =>
                    /\ Has(r[d], m) <=> Has(q[d], m) \/ m = ClearFilterProps(c)
                    /\ Final(r[d], m, S) <=> \/ m = ClearFilterProps(c)
                                             \/ ClearFilterProps(c) \notin S /\ Final(q[d], m, S)
    <2>1. Sends(q, r, e, ClearFilterProps(c))
      BY <1>1, ViaHolds
    <2> QED BY <2>1 DEF Sends
  <1>4. \A k \in Client, v \in Val :
          /\ ClearFilterProps(k) = ClearFilterProps(c) <=> k = c
          /\ SetFilterProp(k, v) # ClearFilterProps(c)
          /\ ClearFilterProps(c) \in FilterMessages(k) <=> k = c
    BY MessagesDiffer DEF FilterMessages
  <1>5. \A k \in Client : ClearFilterProps(k) = ClearFilterProps(c) <=> k = c
    BY MessagesDiffer
  <1> QED BY <1>2, <1>3, <1>4, <1>5 DEF AddsClear

LEMMA SendSet ==
  ASSUME NEW q \in Wire(Messages), NEW c \in Client, NEW e \in Entity, NEW w \in Val,
         NEW r, r = Via(q, e, SetFilterProp(c, w))
  PROVE  AddsSet(q, r, c, e, w) /\ SameNotices(q, r) /\ SameCreates(q, r)
         /\ SameDestroys(q, r)
  <1>1. SetFilterProp(c, w) \in Messages
    BY DEF SetFilterProp, Messages
  <1>2. SameNotices(q, r) /\ SameCreates(q, r) /\ SameDestroys(q, r)
    BY <1>1, ViaBesides, BesidesKinds, MessageTypes
  <1>3. ASSUME NEW d \in Dispatcher, NEW m, NEW S
        PROVE  /\ d # DispatcherOf[e] => r[d] = q[d]
               /\ d = DispatcherOf[e] =>
                    /\ Has(r[d], m) <=> Has(q[d], m) \/ m = SetFilterProp(c, w)
                    /\ Final(r[d], m, S) <=> \/ m = SetFilterProp(c, w)
                                             \/ SetFilterProp(c, w) \notin S /\ Final(q[d], m, S)
    <2>1. PICK x \in Messages : x = SetFilterProp(c, w)
      BY <1>1
    <2>2. /\ d # DispatcherOf[e] => r[d] = q[d]
          /\ d = DispatcherOf[e] =>
               /\ Has(r[d], m) <=> Has(q[d], m) \/ m = x
               /\ Final(r[d], m, S) <=> m = x \/ (x \notin S /\ Final(q[d], m, S))
      <3>1. Sends(q, r, e, x)
        BY <2>1, ViaHolds
      <3> QED BY <3>1 DEF Sends
    <2> QED BY <2>1, <2>2
  <1>4. \A k \in Client, v \in Val :
          /\ SetFilterProp(k, v) = SetFilterProp(c, w) <=> k = c /\ v = w
          /\ SetFilterProp(c, w) \in FilterMessages(k) <=> k = c
    BY MessagesDiffer DEF FilterMessages
  <1>5. \A k \in Client : ClearFilterProps(k) # SetFilterProp(c, w)
    BY MessagesDiffer
  <1>6. ASSUME NEW d \in Dispatcher, NEW k \in Client, NEW v \in Val
        PROVE  /\ Has(r[d], SetFilterProp(k, v))
                    <=> Has(q[d], SetFilterProp(k, v)) \/ (d = DispatcherOf[e] /\ k = c /\ v = w)
               /\ Final(r[d], SetFilterProp(k, v), FilterMessages(k))
                    <=> IF d = DispatcherOf[e] /\ k = c THEN v = w
                        ELSE Final(q[d], SetFilterProp(k, v), FilterMessages(k))
    BY <1>3, <1>4
  <1>7. ASSUME NEW d \in Dispatcher, NEW k \in Client
        PROVE  Has(r[d], ClearFilterProps(k)) <=> Has(q[d], ClearFilterProps(k))
    BY <1>3, <1>5
  <1> QED BY <1>2, <1>6, <1>7 DEF AddsSet

\* What SetClient sends for the old client and for the new one.
LEMMA ReleaseSends ==
  ASSUME NEW q \in Wire(Messages), NEW c \in Client, NEW e \in Entity, NEW o \in Entity,
         NEW r, r = Release(q, e, c, o)
  PROVE  AddsDestroy(q, r, c, e, o) /\ AddsClear(q, r, c, e) /\ SameNotices(q, r)
         /\ SameCreates(q, r)
  <1>1. c # None
    BY NobodyAssumption
  <1>2. PICK p : p = Via(q, e, ClearFilterProps(c))
    OBVIOUS
  <1>3. r = Via(p, o, DestroyOnClient(c, e))
    BY <1>1, <1>2 DEF Release
  <1>4. ClearFilterProps(c) \in Messages /\ p \in Wire(Messages)
    BY <1>2, ViaTyped DEF ClearFilterProps, Messages
  <1>5. AddsClear(q, p, c, e) /\ SameNotices(q, p) /\ SameCreates(q, p) /\ SameDestroys(q, p)
    BY <1>2, SendClear
  <1>6. AddsDestroy(p, r, c, e, o) /\ SameNotices(p, r) /\ SameCreates(p, r) /\ SameFilters(p, r)
    BY <1>3, <1>4, SendDestroy
  <1>7. SameNotices(q, r)
    BY <1>5, <1>6 DEF SameNotices
  <1>8. SameCreates(q, r)
    BY <1>5, <1>6 DEF SameCreates
  <1>9. AddsClear(q, r, c, e)
    BY <1>5, <1>6 DEF AddsClear, SameFilters
  <1>10. AddsDestroy(q, r, c, e, o)
    BY <1>5, <1>6 DEF AddsDestroy, SameDestroys, SameCreates
  <1> QED BY <1>7, <1>8, <1>9, <1>10

LEMMA AdoptSends ==
  ASSUME NEW q \in Wire(Messages), NEW c \in Client, NEW o \in Entity,
         NEW r, r = Adopt(q, o, c)
  PROVE  AddsCreate(q, r, c, o) /\ AddsClear(q, r, c, o) /\ SameNotices(q, r)
  <1>1. PICK p : p = Via(q, o, ClearFilterProps(c))
    OBVIOUS
  <1>2. r = Via(p, o, CreateOnClient(c, o))
    BY <1>1 DEF Adopt
  <1>3. ClearFilterProps(c) \in Messages /\ p \in Wire(Messages)
    BY <1>1, ViaTyped DEF ClearFilterProps, Messages
  <1>4. AddsClear(q, p, c, o) /\ SameNotices(q, p) /\ SameCreates(q, p) /\ SameDestroys(q, p)
    BY <1>1, SendClear
  <1>5. AddsCreate(p, r, c, o) /\ SameNotices(p, r) /\ SameFilters(p, r)
    BY <1>2, <1>3, SendCreate
  <1>6. SameNotices(q, r)
    BY <1>4, <1>5 DEF SameNotices
  <1>7. AddsClear(q, r, c, o)
    BY <1>4, <1>5 DEF AddsClear, SameFilters
  <1>8. AddsCreate(q, r, c, o)
    BY <1>4, <1>5 DEF AddsCreate, SameCreates, SameDestroys, SameNotices
  <1> QED BY <1>6, <1>7, <1>8

-----------------------------------------------------------------------------
(* Two wires in a row                                                       *)

LEMMA JoinedTyped ==
  ASSUME NEW a \in Wire(Messages), NEW b \in Wire(Messages)
  PROVE  /\ Joined(a, b) \in Wire(Messages)
         /\ \A d \in Dispatcher : /\ a[d] \in Seq(Messages) /\ b[d] \in Seq(Messages)
                                  /\ Joined(a, b)[d] = a[d] \o b[d]
  <1>1. \A d \in Dispatcher : a[d] \in Seq(Messages) /\ b[d] \in Seq(Messages)
    BY DEF Wire
  <1>2. ASSUME NEW d \in Dispatcher PROVE a[d] \o b[d] \in Seq(Messages)
    <2>1. PICK s, t \in Seq(Messages) : s = a[d] /\ t = b[d]
      BY <1>1
    <2>2. s \o t \in Seq(Messages)
      OBVIOUS
    <2> QED BY <2>1, <2>2
  <1> QED BY <1>1, <1>2 DEF Joined, Wire

LEMMA JoinedVia ==
  ASSUME NEW a \in Wire(Messages), NEW b \in Wire(Messages), NEW e,
         NEW m \in Messages
  PROVE  Joined(a, Via(b, e, m)) = Via(Joined(a, b), e, m)
  <1>1. ASSUME NEW d \in Dispatcher
        PROVE  a[d] \o Via(b, e, m)[d] = Via(Joined(a, b), e, m)[d]
    <2>1. PICK s, t \in Seq(Messages) : s = a[d] /\ t = b[d]
      BY JoinedTyped
    <2>2. Joined(a, b)[d] = s \o t /\ Joined(a, b) \in Wire(Messages)
      BY <2>1, JoinedTyped
    <2>3. CASE d = DispatcherOf[e]
      <3>1. Via(b, e, m)[d] = Append(t, m)
        BY <2>1, <2>3 DEF Via, Wire
      <3>2. Via(Joined(a, b), e, m)[d] = Append(s \o t, m)
        BY <2>2, <2>3 DEF Via, Wire
      <3>3. s \o Append(t, m) = Append(s \o t, m)
        OBVIOUS
      <3> QED BY <2>1, <3>1, <3>2, <3>3
    <2>4. CASE d # DispatcherOf[e]
      <3>1. Via(b, e, m)[d] = t
        BY <2>1, <2>4 DEF Via, Wire
      <3>2. Via(Joined(a, b), e, m)[d] = s \o t
        BY <2>2, <2>4 DEF Via, Wire
      <3> QED BY <2>1, <3>1, <3>2
    <2> QED BY <2>3, <2>4
  <1>2. Via(Joined(a, b), e, m) = [d \in Dispatcher |-> Via(Joined(a, b), e, m)[d]]
    <2>1. PICK j \in Wire(Messages) : j = Joined(a, b)
      BY JoinedTyped
    <2>2. PICK w \in Wire(Messages) : w = Via(j, e, m)
      BY ViaTyped
    <2>3. w = [d \in Dispatcher |-> w[d]]
      BY DEF Wire
    <2> QED BY <2>1, <2>2, <2>3
  <1> QED BY <1>1, <1>2 DEF Joined

LEMMA JoinedRelease ==
  ASSUME NEW a \in Wire(Messages), NEW b \in Wire(Messages), NEW e \in Entity,
         NEW o \in Entity, NEW c \in Client
  PROVE  Joined(a, Release(b, e, c, o)) = Release(Joined(a, b), e, c, o)
  <1>1. c # None
    BY NobodyAssumption
  <1>2. PICK m \in Messages : m = ClearFilterProps(c)
    BY DEF ClearFilterProps, Messages
  <1>3. PICK n \in Messages : n = DestroyOnClient(c, e)
    BY DEF DestroyOnClient, Messages
  <1>4. PICK p \in Wire(Messages) : p = Via(b, e, m)
    BY ViaTyped
  <1>5. Joined(a, Via(p, o, n)) = Via(Joined(a, p), o, n)
    BY JoinedVia
  <1>6. Joined(a, p) = Via(Joined(a, b), e, m)
    BY <1>4, JoinedVia
  <1> QED BY <1>1, <1>2, <1>3, <1>4, <1>5, <1>6 DEF Release

LEMMA JoinedAdopt ==
  ASSUME NEW a \in Wire(Messages), NEW b \in Wire(Messages), NEW e \in Entity,
         NEW c \in Client
  PROVE  Joined(a, Adopt(b, e, c)) = Adopt(Joined(a, b), e, c)
  <1>1. PICK m \in Messages : m = ClearFilterProps(c)
    BY DEF ClearFilterProps, Messages
  <1>2. PICK n \in Messages : n = CreateOnClient(c, e)
    BY DEF CreateOnClient, Messages
  <1>3. PICK p \in Wire(Messages) : p = Via(b, e, m)
    BY ViaTyped
  <1>4. Joined(a, Via(p, e, n)) = Via(Joined(a, p), e, n)
    BY JoinedVia
  <1>5. Joined(a, p) = Via(Joined(a, b), e, m)
    BY <1>3, JoinedVia
  <1> QED BY <1>1, <1>2, <1>3, <1>4, <1>5 DEF Adopt

\* The receiver reads the first message.
LEMMA JoinedRead ==
  ASSUME NEW a \in Wire(Messages), NEW b \in Wire(Messages), NEW d \in Dispatcher,
         a[d] # <<>>, NEW r, r = Joined([a EXCEPT ![d] = Tail(@)], b)
  PROVE  r \in Wire(Messages) /\ Reads(Joined(a, b), r, d, Head(a[d]))
  <1>1. [a EXCEPT ![d] = Tail(@)] \in Wire(Messages) /\ Head(a[d]) \in Messages
    BY TailTyped
  <1>2. /\ r \in Wire(Messages)
        /\ \A x \in Dispatcher : r[x] = [a EXCEPT ![d] = Tail(@)][x] \o b[x]
    <2>1. PICK a2 \in Wire(Messages) : a2 = [a EXCEPT ![d] = Tail(@)]
      BY <1>1
    <2>2. Joined(a2, b) \in Wire(Messages)
      BY JoinedTyped
    <2>3. \A x \in Dispatcher : Joined(a2, b)[x] = a2[x] \o b[x]
      BY JoinedTyped
    <2> QED BY <2>1, <2>2, <2>3
  <1>3. PICK s, t \in Seq(Messages) : s = a[d] /\ t = b[d]
    BY JoinedTyped
  <1>4. s \o t \in Seq(Messages)
    OBVIOUS
  <1>5. PICK q \in Seq(Messages) : q = s \o t
    BY <1>4
  <1>6. s # <<>>
    BY <1>3
  <1>7. q # <<>> /\ Head(q) = Head(s) /\ Tail(q) = Tail(s) \o t
    BY <1>5, <1>6
  <1>8. Joined(a, b)[d] = q
    BY <1>3, <1>5, JoinedTyped
  <1>9. r[d] = Tail(q)
    <2>1. [a EXCEPT ![d] = Tail(@)][d] = Tail(s)
      BY <1>3 DEF Wire
    <2> QED BY <1>2, <1>3, <1>7, <2>1
  <1>10. ASSUME NEW x \in Dispatcher, x # d PROVE r[x] = Joined(a, b)[x]
    <2>1. [a EXCEPT ![d] = Tail(@)][x] = a[x]
      BY <1>10 DEF Wire
    <2>2. Joined(a, b)[x] = a[x] \o b[x]
      BY JoinedTyped
    <2> QED BY <1>2, <2>1, <2>2
  <1>11. ASSUME NEW m PROVE Has(q, m) <=> Has(Tail(q), m) \/ m = Head(q)
    BY <1>7, HoldsHead
  <1>12. ASSUME NEW m, NEW n
         PROVE  Pre(q, m, n) <=> Pre(Tail(q), m, n) \/ (m = Head(q) /\ Has(Tail(q), n))
    BY <1>7, HoldsHead
  <1>13. ASSUME NEW m, NEW S
         PROVE  Final(q, m, S) <=> \/ Final(Tail(q), m, S)
                                   \/ m = Head(q) /\ \A x \in S : ~Has(Tail(q), x)
    BY <1>7, HoldsHead
  <1>14. Head(q) = Head(a[d])
    BY <1>3, <1>7
  <1>15. Besides(Joined(a, b), r, Head(a[d]))
    <2> SUFFICES ASSUME NEW x \in Dispatcher, NEW m, NEW n, NEW S
                 PROVE  /\ m # Head(q) => (Has(r[x], m) <=> Has(Joined(a, b)[x], m))
                        /\ m # Head(q) /\ n # Head(q) =>
                             (Pre(r[x], m, n) <=> Pre(Joined(a, b)[x], m, n))
                        /\ m # Head(q) /\ Head(q) \notin S =>
                             (Final(r[x], m, S) <=> Final(Joined(a, b)[x], m, S))
      BY <1>14 DEF Besides
    <2>1. CASE x # d
      BY <1>10, <2>1
    <2>2. CASE x = d
      BY <1>8, <1>9, <1>11, <1>12, <1>13, <2>2
    <2> QED BY <2>1, <2>2
  <1> QED BY <1>2, <1>8, <1>9, <1>10, <1>11, <1>12, <1>13, <1>14, <1>15 DEF Reads

\* What the dispatcher forwards stays in its place.
LEMMA JoinedForward ==
  ASSUME NEW a \in Wire(Messages), NEW b \in Wire(Messages), NEW d \in Dispatcher,
         NEW a2, NEW b2, b[d] # <<>>, a2[d] = Append(a[d], Head(b[d])), b2[d] = Tail(b[d]),
         \A x \in Dispatcher : x # d => a2[x] = a[x] /\ b2[x] = b[x]
  PROVE  Joined(a2, b2) = Joined(a, b)
  <1>1. ASSUME NEW x \in Dispatcher PROVE a2[x] \o b2[x] = a[x] \o b[x]
    <2>1. CASE x # d
      <3>1. a2[x] = a[x] /\ b2[x] = b[x]
        BY <2>1 DEF Wire
      <3> QED BY <3>1
    <2>2. CASE x = d
      <3>1. PICK s, t \in Seq(Messages) : s = a[d] /\ t = b[d]
        BY JoinedTyped
      <3>2. a2[d] = Append(s, Head(t)) /\ b2[d] = Tail(t)
        BY <3>1 DEF Wire
      <3>3. Append(s, Head(t)) \o Tail(t) = s \o t
        <4>1. t # <<>>
          BY <3>1
        <4>2. Head(t) \in Messages /\ Tail(t) \in Seq(Messages)
          BY <4>1
        <4>3. <<Head(t)>> \o Tail(t) = t
          BY <4>1
        <4>4. Append(s, Head(t)) \o Tail(t) = s \o (<<Head(t)>> \o Tail(t))
          BY <4>2
        <4> QED BY <4>3, <4>4
      <3> QED BY <2>2, <3>1, <3>2, <3>3
    <2> QED BY <2>1, <2>2
  <1> QED BY <1>1 DEF Joined

\* What it does not is gone.
LEMMA JoinedDrop ==
  ASSUME NEW a \in Wire(Messages), NEW b \in Wire(Messages), NEW d \in Dispatcher,
         b[d] # <<>>, NEW b2, b2 = [b EXCEPT ![d] = Tail(@)]
  PROVE  Drops(Joined(a, b), Joined(a, b2), d, Head(b[d]))
  <1> DEFINE h == Head(b[d])
  <1> DEFINE r == Joined(a, b2)
  <1>1. b2 \in Wire(Messages) /\ h \in Messages
    BY TailTyped
  <1>2. /\ r \in Wire(Messages)
        /\ \A x \in Dispatcher : r[x] = a[x] \o b2[x]
    <2>1. PICK p \in Wire(Messages) : p = b2
      BY <1>1
    <2>2. Joined(a, p) \in Wire(Messages)
      BY JoinedTyped
    <2>3. \A x \in Dispatcher : Joined(a, p)[x] = a[x] \o p[x]
      BY JoinedTyped
    <2> QED BY <2>1, <2>2, <2>3
  <1>3. PICK s, t \in Seq(Messages) : s = a[d] /\ t = b[d]
    BY JoinedTyped
  <1>4. b2[d] = Tail(t) /\ h = Head(t)
    BY <1>3 DEF Wire
  <1>5. PICK l \in Seq(Messages) : l = Tail(t)
    <2>1. t # <<>>
      BY <1>3
    <2>2. Tail(t) \in Seq(Messages)
      BY <2>1
    <2> QED BY <2>2
  <1>6. r[d] = s \o l /\ Joined(a, b)[d] = s \o t
    BY <1>2, <1>3, <1>4, <1>5, JoinedTyped
  <1>7. ASSUME NEW x \in Dispatcher, x # d PROVE r[x] = Joined(a, b)[x]
    <2>1. b2[x] = b[x]
      BY <1>7 DEF Wire
    <2>2. Joined(a, b)[x] = a[x] \o b[x]
      BY JoinedTyped
    <2> QED BY <1>2, <2>1, <2>2
  <1> HIDE DEF r, h
  <1>8. ASSUME NEW m, NEW n, NEW S
        PROVE  /\ Has(t, m) <=> Has(l, m) \/ m = h
               /\ Pre(t, m, n) <=> Pre(l, m, n) \/ (m = h /\ Has(l, n))
               /\ Final(t, m, S) <=> Final(l, m, S) \/ (m = h /\ \A x \in S : ~Has(l, x))
    <2>1. t # <<>>
      BY <1>3
    <2>2. Has(t, m) <=> Has(Tail(t), m) \/ m = Head(t)
      BY <2>1, HoldsHead
    <2>3. Pre(t, m, n) <=> Pre(Tail(t), m, n) \/ (m = Head(t) /\ Has(Tail(t), n))
      BY <2>1, HoldsHead
    <2>4. Final(t, m, S) <=> \/ Final(Tail(t), m, S)
                             \/ m = Head(t) /\ \A x \in S : ~Has(Tail(t), x)
      BY <2>1, HoldsHead
    <2> QED BY <1>4, <1>5, <2>2, <2>3, <2>4
  <1>9. ASSUME NEW q \in Seq(Messages), NEW m
        PROVE  Has(s \o q, m) <=> Has(s, m) \/ Has(q, m)
    BY HoldsBoth
  <1>10. ASSUME NEW q \in Seq(Messages), NEW m, NEW n
         PROVE  Pre(s \o q, m, n) <=> Pre(s, m, n) \/ Pre(q, m, n) \/ (Has(s, m) /\ Has(q, n))
    BY HoldsBoth
  <1>11. ASSUME NEW q \in Seq(Messages), NEW m, NEW S
         PROVE  Final(s \o q, m, S) <=> \/ Final(q, m, S)
                                        \/ Final(s, m, S) /\ \A x \in S : ~Has(q, x)
    BY HoldsBoth
  <1>12. \A m : Has(r[d], m) <=> Has(s, m) \/ Has(l, m)
    BY <1>6, <1>9
  <1>13. ASSUME NEW m PROVE Has(Joined(a, b)[d], m) <=> Has(r[d], m) \/ m = h
    <2>1. Has(s \o t, m) <=> Has(s, m) \/ Has(t, m)
      BY <1>9
    <2>2. Has(t, m) <=> Has(l, m) \/ m = h
      BY <1>8
    <2> QED BY <1>6, <1>12, <2>1, <2>2
  <1>14. ASSUME NEW m, NEW n
         PROVE  Pre(Joined(a, b)[d], m, n) <=>
                  \/ Pre(r[d], m, n)
                  \/ m = h /\ Has(l, n)
                  \/ n = h /\ Has(s, m)
    <2>1. Pre(s \o t, m, n) <=> Pre(s, m, n) \/ Pre(t, m, n) \/ (Has(s, m) /\ Has(t, n))
      BY <1>10
    <2>2. Pre(s \o l, m, n) <=> Pre(s, m, n) \/ Pre(l, m, n) \/ (Has(s, m) /\ Has(l, n))
      BY <1>10
    <2>3. /\ Has(t, n) <=> Has(l, n) \/ n = h
          /\ Pre(t, m, n) <=> Pre(l, m, n) \/ (m = h /\ Has(l, n))
      BY <1>8
    <2> QED BY <1>6, <2>1, <2>2, <2>3
  <1>15. Besides(Joined(a, b), r, h)
    <2> SUFFICES ASSUME NEW x \in Dispatcher, NEW m, NEW n, NEW S
                 PROVE  /\ m # h => (Has(r[x], m) <=> Has(Joined(a, b)[x], m))
                        /\ m # h /\ n # h => (Pre(r[x], m, n) <=> Pre(Joined(a, b)[x], m, n))
                        /\ m # h /\ h \notin S =>
                             (Final(r[x], m, S) <=> Final(Joined(a, b)[x], m, S))
      BY DEF Besides
    <2>1. CASE x # d
      BY <1>7, <2>1
    <2>2. CASE x = d
      <3>1. ASSUME m # h, h \notin S PROVE Final(r[d], m, S) <=> Final(Joined(a, b)[d], m, S)
        <4>1. Final(t, m, S) <=> Final(l, m, S)
          BY <1>8, <3>1
        <4>2. (\A y \in S : ~Has(t, y)) <=> (\A y \in S : ~Has(l, y))
          BY <1>8, <3>1
        <4>3. Final(s \o t, m, S) <=> \/ Final(t, m, S)
                                      \/ Final(s, m, S) /\ \A y \in S : ~Has(t, y)
          BY <1>11
        <4>4. Final(s \o l, m, S) <=> \/ Final(l, m, S)
                                      \/ Final(s, m, S) /\ \A y \in S : ~Has(l, y)
          BY <1>11
        <4> QED BY <1>6, <4>1, <4>2, <4>3, <4>4
      <3> QED BY <1>13, <1>14, <2>2, <3>1
    <2> QED BY <2>1, <2>2
  <1> QED BY <1>7, <1>13, <1>15 DEF r, h, Drops

-----------------------------------------------------------------------------
(* What the game's steps send                                               *)

LEMMA WiresTyped ==
  ASSUME Inv
  PROVE  /\ toDisp \in Wire(Messages) /\ toGame \in Wire(Messages)
         /\ fromGame \in Wire(Messages) /\ toGate \in Wire(Messages)
         /\ Up \in Wire(Messages) /\ Down \in Wire(Messages)
  <1>1. Announced \subseteq Messages
    BY DEF Announced
  <1>2. toDisp \in Wire(Messages) /\ toGame \in Wire(Messages)
    BY <1>1, WireMonotonic DEF Inv, Typed
  <1>3. fromGame \in Wire(Messages) /\ toGate \in Wire(Messages)
    BY DEF Inv, Typed
  <1> QED BY <1>2, <1>3, JoinedTyped DEF Up, Down

\* What giving c from e to o sends, k being the client o had.
Gives(q, r, e, o, c, k) ==
  /\ SameNotices(q, r)
  /\ \A d \in Dispatcher, l \in Client : \A x, y \in Entity :
       /\ Has(r[d], CreateOnClient(l, x))
            <=> Has(q[d], CreateOnClient(l, x)) \/ (d = DispatcherOf[o] /\ l = c /\ x = o)
       /\ Pre(r[d], CreateOnClient(l, x), CreateOnClient(l, x))
            <=> \/ Pre(q[d], CreateOnClient(l, x), CreateOnClient(l, x))
                \/ d = DispatcherOf[o] /\ l = c /\ x = o /\ Has(q[d], CreateOnClient(c, o))
       /\ Pre(r[d], NotifyCreate(x), CreateOnClient(l, x))
            <=> \/ Pre(q[d], NotifyCreate(x), CreateOnClient(l, x))
                \/ d = DispatcherOf[o] /\ l = c /\ x = o /\ Has(q[d], NotifyCreate(o))
       /\ Has(r[d], DestroyOnClient(l, x))
            <=> \/ Has(q[d], DestroyOnClient(l, x))
                \/ d = DispatcherOf[o] /\ ((l = c /\ x = e) \/ (l = k /\ x = o))
       /\ Pre(r[d], CreateOnClient(l, x), DestroyOnClient(l, y))
            <=> \/ Pre(q[d], CreateOnClient(l, x), DestroyOnClient(l, y))
                \/ /\ d = DispatcherOf[o] /\ Has(q[d], CreateOnClient(l, x))
                   /\ (l = c /\ y = e) \/ (l = k /\ y = o)
       /\ Pre(r[d], DestroyOnClient(l, x), CreateOnClient(l, y))
            <=> \/ Pre(q[d], DestroyOnClient(l, x), CreateOnClient(l, y))
                \/ /\ d = DispatcherOf[o] /\ l = c /\ y = o
                   /\ Has(q[d], DestroyOnClient(c, x)) \/ x = e \/ (c = k /\ x = o)
  /\ \A d \in Dispatcher, l \in Client :
       /\ Has(r[d], ClearFilterProps(l))
            <=> \/ Has(q[d], ClearFilterProps(l))
                \/ d = DispatcherOf[e] /\ l = c
                \/ d = DispatcherOf[o] /\ (l = c \/ l = k)
       /\ \A v \in Val :
            /\ Has(r[d], SetFilterProp(l, v)) <=> Has(q[d], SetFilterProp(l, v))
            /\ Final(r[d], SetFilterProp(l, v), FilterMessages(l))
                 <=> /\ Final(q[d], SetFilterProp(l, v), FilterMessages(l))
                     /\ ~(d = DispatcherOf[e] /\ l = c)
                     /\ ~(d = DispatcherOf[o] /\ (l = c \/ l = k))

LEMMA GiveSends ==
  ASSUME Inv, NEW e \in Entity, NEW o \in Entity, GiveClientTo(e, o)
  PROVE  Gives(Down, Down', e, o, client[e], IF o = e THEN None ELSE client[o])
  <1>1. PICK c \in Client : c = client[e]
    BY DEF GiveClientTo, Inv, Typed
  <1>2. PICK k \in Client \cup {None} : k = IF o = e THEN None ELSE client[o]
    BY DEF Inv, Typed
  <1>3. /\ fromGame' = Adopt(Release(Release(fromGame, e, c, o), o, k, o), o, c)
        /\ toGate' = toGate
    BY <1>1, <1>2 DEF GiveClientTo
  <1>4. PICK a, b \in Wire(Messages) : a = toGate /\ b = fromGame
    BY WiresTyped
  <1>5. PICK b1 \in Wire(Messages) : b1 = Release(b, e, c, o)
    BY ReleaseTyped
  <1>6. PICK b2 \in Wire(Messages) : b2 = Release(b1, o, k, o)
    BY ReleaseTyped
  <1>7. PICK q, q1, q2 \in Wire(Messages) : q = Joined(a, b) /\ q1 = Joined(a, b1) /\ q2 = Joined(a, b2)
    BY JoinedTyped
  <1>8. q1 = Release(q, e, c, o)
    BY <1>5, <1>7, JoinedRelease
  <1>9. AddsDestroy(q, q1, c, e, o) /\ AddsClear(q, q1, c, e) /\ SameNotices(q, q1)
        /\ SameCreates(q, q1)
    BY <1>8, ReleaseSends
  <1>10. PICK r : r = Down'
    OBVIOUS
  <1>11. r = Adopt(q2, o, c)
    <2>1. r = Joined(a, Adopt(b2, o, c))
      BY <1>3, <1>4, <1>5, <1>6, <1>10 DEF Down
    <2> QED BY <1>7, <2>1, JoinedAdopt
  <1>12. AddsCreate(q2, r, c, o) /\ AddsClear(q2, r, c, o) /\ SameNotices(q2, r)
    BY <1>11, AdoptSends
  <1>13. CASE k = None
    <2>1. q2 = q1
      BY <1>6, <1>7, <1>13 DEF Release
    <2>2. SameNotices(q, r)
      BY <1>9, <1>12, <2>1 DEF SameNotices
    <2>3. \A l \in Client : l # k
      BY <1>13, NobodyAssumption
    <2>4. Gives(q, r, e, o, c, k)
      BY <1>9, <1>12, <2>1, <2>2, <2>3
         DEF Gives, AddsDestroy, AddsClear, AddsCreate, SameCreates, SameNotices
    <2> QED BY <1>1, <1>2, <1>4, <1>7, <1>10, <2>4 DEF Down
  <1>14. CASE k \in Client
    <2>1. q2 = Release(q1, o, k, o)
      BY <1>6, <1>7, <1>14, JoinedRelease
    <2>2. AddsDestroy(q1, q2, k, o, o) /\ AddsClear(q1, q2, k, o) /\ SameNotices(q1, q2)
          /\ SameCreates(q1, q2)
      BY <1>14, <2>1, ReleaseSends
    <2>3. SameNotices(q, q2) /\ SameNotices(q, r) /\ SameCreates(q, q2)
      BY <1>9, <1>12, <2>2 DEF SameNotices, SameCreates
    <2>4. Gives(q, r, e, o, c, k)
      <3>1. \A d \in Dispatcher, l \in Client : \A x, y \in Entity :
              /\ Has(q2[d], DestroyOnClient(l, x))
                   <=> \/ Has(q[d], DestroyOnClient(l, x))
                       \/ d = DispatcherOf[o] /\ ((l = c /\ x = e) \/ (l = k /\ x = o))
              /\ Pre(q2[d], CreateOnClient(l, x), DestroyOnClient(l, y))
                   <=> \/ Pre(q[d], CreateOnClient(l, x), DestroyOnClient(l, y))
                       \/ /\ d = DispatcherOf[o] /\ Has(q[d], CreateOnClient(l, x))
                          /\ (l = c /\ y = e) \/ (l = k /\ y = o)
              /\ Pre(q2[d], DestroyOnClient(l, x), CreateOnClient(l, y))
                   <=> Pre(q[d], DestroyOnClient(l, x), CreateOnClient(l, y))
        BY <1>9, <2>2 DEF AddsDestroy, SameCreates
      <3>2. \A d \in Dispatcher, l \in Client :
              /\ Has(q2[d], ClearFilterProps(l))
                   <=> \/ Has(q[d], ClearFilterProps(l))
                       \/ d = DispatcherOf[e] /\ l = c
                       \/ d = DispatcherOf[o] /\ l = k
              /\ \A v \in Val :
                   /\ Has(q2[d], SetFilterProp(l, v)) <=> Has(q[d], SetFilterProp(l, v))
                   /\ Final(q2[d], SetFilterProp(l, v), FilterMessages(l))
                        <=> /\ Final(q[d], SetFilterProp(l, v), FilterMessages(l))
                            /\ ~(d = DispatcherOf[e] /\ l = c)
                            /\ ~(d = DispatcherOf[o] /\ l = k)
        BY <1>9, <2>2 DEF AddsClear
      <3>3. \A d \in Dispatcher, l \in Client : \A x \in Entity :
              /\ Has(q2[d], CreateOnClient(l, x)) <=> Has(q[d], CreateOnClient(l, x))
              /\ Pre(q2[d], CreateOnClient(l, x), CreateOnClient(l, x))
                   <=> Pre(q[d], CreateOnClient(l, x), CreateOnClient(l, x))
              /\ Pre(q2[d], NotifyCreate(x), CreateOnClient(l, x))
                   <=> Pre(q[d], NotifyCreate(x), CreateOnClient(l, x))
              /\ Has(q2[d], NotifyCreate(x)) <=> Has(q[d], NotifyCreate(x))
        BY <2>3 DEF SameCreates, SameNotices
      <3> QED BY <1>12, <2>3, <3>1, <3>2, <3>3 DEF Gives, AddsClear, AddsCreate
    <2> QED BY <1>1, <1>2, <1>4, <1>7, <1>10, <2>4 DEF Down
  <1> QED BY <1>13, <1>14

-----------------------------------------------------------------------------
(* Steps that keep what the game and the gate know of each other            *)

\* What the parts of the invariant are about, if nothing of it changes.
LEMMA UpDownKept ==
  ASSUME UNCHANGED wires
  PROVE  Up' = Up /\ Down' = Down
  BY DEF wires, Up, Down, Joined

LEMMA PostAdded ==
  ASSUME Inv, NEW p \in Posted, posts' = Append(posts, p), NEW m, NEW n
  PROVE  /\ Has(posts', m) <=> Has(posts, m) \/ m = p
         /\ Pre(posts', m, n) <=> Pre(posts, m, n) \/ (Has(posts, m) /\ n = p)
  <1>1. PICK q \in Seq(Posted) : q = posts
    BY DEF Inv, Typed
  <1>2. Extends(Append(q, p), q, p)
    BY HoldsAppended
  <1> QED BY <1>1, <1>2 DEF Extends

LEMMA PostTaken ==
  ASSUME Inv, posts # <<>>, posts' = Tail(posts)
  PROVE  /\ \A m : Has(posts, m) <=> Has(posts', m) \/ m = Head(posts)
         /\ \A m, n : Pre(posts, m, n) <=> Pre(posts', m, n) \/ (m = Head(posts) /\ Has(posts', n))
  <1>1. PICK q \in Seq(Posted) : q = posts
    BY DEF Inv, Typed
  <1>2. ASSUME NEW m PROVE Has(q, m) <=> Has(Tail(q), m) \/ m = Head(q)
    BY <1>1, HoldsHead
  <1>3. ASSUME NEW m, NEW n
        PROVE  Pre(q, m, n) <=> Pre(Tail(q), m, n) \/ (m = Head(q) /\ Has(Tail(q), n))
    BY <1>1, HoldsHead
  <1> QED BY <1>1, <1>2, <1>3

LEMMA PostsDiffer ==
  ASSUME NEW c, NEW k
  PROVE  /\ NewPost(c) = NewPost(k) <=> c = k
         /\ ClosePost(c) = ClosePost(k) <=> c = k
         /\ NewPost(c) # ClosePost(k)
         /\ c \in Client => NewPost(c) \in Posted /\ ClosePost(c) \in Posted
  BY DEF NewPost, ClosePost, Posted

LEMMA ConnectOwner ==
  ASSUME Inv, OwnerInv, NEW c \in Client, Connect(c)
  PROVE  OwnerInv'
  <1>1. gate /\ Ended /\ Following
    BY DEF OwnerInv, Connect
  <1>2. UNCHANGED <<owner, gate, want, wires, route, noticed, late, client, live, chosen,
                    used, view>>
    BY DEF Connect, dispVars, gameVars
  <1>3. Up' = Up /\ Down' = Down /\ UNCHANGED <<toDisp, toGame, fromGame, toGate>>
    BY <1>2, UpDownKept DEF wires
  <1>4. sock[c] = "new" /\ sock' = [sock EXCEPT ![c] = "open"]
        /\ sock \in [Client -> {"new", "open", "shut"}]
    BY DEF Connect, Inv, Typed
  <1>5. \A k \in Client : sock'[k] = IF k = c THEN "open" ELSE sock[k]
    BY <1>4
  <1>6. posts' = Append(posts, NewPost(c))
    BY DEF Connect, NewPost
  <1>7. \A k \in Client :
          /\ Has(posts', NewPost(k)) <=> Has(posts, NewPost(k)) \/ k = c
          /\ Has(posts', ClosePost(k)) <=> Has(posts, ClosePost(k))
          /\ Pre(posts', NewPost(k), NewPost(k))
               <=> Pre(posts, NewPost(k), NewPost(k)) \/ (k = c /\ Has(posts, NewPost(c)))
          /\ Pre(posts', ClosePost(k), NewPost(k))
               <=> Pre(posts, ClosePost(k), NewPost(k)) \/ (k = c /\ Has(posts, ClosePost(c)))
          /\ Pre(posts', NewPost(k), ClosePost(k)) <=> Pre(posts, NewPost(k), ClosePost(k))
    BY <1>6, PostAdded, PostsDiffer
  <1>8. /\ ~Has(posts, NewPost(c)) /\ ~Has(posts, ClosePost(c)) /\ owner[c] = None
        /\ ~Announces(c)
    BY <1>1, <1>4 DEF Following, Announcing, Closing
  <1>9. \A k \in Client : (Announces(k))' <=> Announces(k)
    BY <1>3 DEF Announces
  <1>10. \A k \in Client : (Waiting(k))' <=> Waiting(k)
    BY <1>4, <1>5, <1>7, <1>9 DEF Waiting
  <1>11. Announcing'
    <2>1. \A k \in Client : sock'[k] = "new" =>
            ~Has(posts', NewPost(k)) /\ owner'[k] = None /\ ~(Announces(k))'
      BY <1>1, <1>2, <1>5, <1>7, <1>9 DEF Following, Announcing
    <2>2. \A k \in Client : Has(posts', NewPost(k)) => owner'[k] = None /\ ~(Announces(k))'
      BY <1>1, <1>2, <1>7, <1>8, <1>9 DEF Following, Announcing
    <2>3. \A k \in Client : ~Pre(posts', NewPost(k), NewPost(k)) /\ ~Pre(posts', ClosePost(k), NewPost(k))
      BY <1>1, <1>7, <1>8 DEF Following, Announcing
    <2> QED BY <1>1, <1>2, <1>3, <1>10, <2>1, <2>2, <2>3 DEF Following, Announcing
  <1>12. Closing'
    BY <1>1, <1>2, <1>3, <1>4, <1>5, <1>7, <1>8 DEF Following, Closing
  <1>13. Routed' /\ Creating' /\ Owning' /\ Filtering'
    BY <1>1, <1>2, <1>3 DEF Following, Routed, Creating, Owning, OwnedAt, Filtering
  <1>14. Showing'
    <2>1. \A k \in Client : (Shown(k))' /\ (Taken(k))'
      BY <1>1, <1>2, <1>3 DEF Following, Showing, Shown, Taken
    <2>2. \A k \in Client : (Leaving(k))'
      <3>1. \A k \in Client : k # c => (Leaving(k))'
        BY <1>1, <1>2, <1>3, <1>5 DEF Following, Showing, Leaving
      <3>2. (Leaving(c))'
        BY <1>1, <1>2, <1>3, <1>4 DEF Following, Announcing, Waiting, Leaving
      <3> QED BY <3>1, <3>2
    <2> QED BY <2>1, <2>2 DEF Showing
  <1>15. Ended'
    BY <1>1, <1>2, <1>3 DEF Ended
  <1> QED BY <1>11, <1>12, <1>13, <1>14, <1>15 DEF OwnerInv, Following

LEMMA DisconnectOwner ==
  ASSUME Inv, OwnerInv, NEW c \in Client, Disconnect(c)
  PROVE  OwnerInv'
  <1>1. gate /\ Ended /\ Following
    BY DEF OwnerInv, Disconnect
  <1>2. UNCHANGED <<owner, gate, want, wires, route, noticed, late, client, live, chosen,
                    used, view>>
    BY DEF Disconnect, dispVars, gameVars
  <1>3. Up' = Up /\ Down' = Down /\ UNCHANGED <<toDisp, toGame, fromGame, toGate>>
    BY <1>2, UpDownKept DEF wires
  <1>4. sock[c] = "open" /\ sock' = [sock EXCEPT ![c] = "shut"]
        /\ sock \in [Client -> {"new", "open", "shut"}]
    BY DEF Disconnect, Inv, Typed
  <1>5. \A k \in Client : sock'[k] = IF k = c THEN "shut" ELSE sock[k]
    BY <1>4
  <1>6. posts' = Append(posts, ClosePost(c))
    BY DEF Disconnect, ClosePost
  <1>7. \A k \in Client :
          /\ Has(posts', NewPost(k)) <=> Has(posts, NewPost(k))
          /\ Has(posts', ClosePost(k)) <=> Has(posts, ClosePost(k)) \/ k = c
          /\ Pre(posts', NewPost(k), NewPost(k)) <=> Pre(posts, NewPost(k), NewPost(k))
          /\ Pre(posts', ClosePost(k), NewPost(k)) <=> Pre(posts, ClosePost(k), NewPost(k))
          /\ Pre(posts', NewPost(k), ClosePost(k))
               <=> Pre(posts, NewPost(k), ClosePost(k)) \/ (k = c /\ Has(posts, NewPost(c)))
    BY <1>6, PostAdded, PostsDiffer
  <1>8. \A k \in Client : (Announces(k))' <=> Announces(k)
    BY <1>3 DEF Announces
  <1>9. \A k \in Client : (Waiting(k))' <=> Waiting(k)
    BY <1>4, <1>5, <1>7, <1>8 DEF Waiting
  <1>10. Announcing'
    BY <1>1, <1>2, <1>3, <1>5, <1>7, <1>8, <1>9 DEF Following, Announcing
  <1>11. Closing'
    BY <1>1, <1>2, <1>3, <1>4, <1>5, <1>7 DEF Following, Closing
  <1>12. Routed' /\ Creating' /\ Owning' /\ Filtering'
    BY <1>1, <1>2, <1>3 DEF Following, Routed, Creating, Owning, OwnedAt, Filtering
  <1>13. Showing'
    <2>1. \A k \in Client : (Shown(k))' /\ (Taken(k))'
      BY <1>1, <1>2, <1>3 DEF Following, Showing, Shown, Taken
    <2>2. \A k \in Client : (Leaving(k))'
      BY <1>1, <1>2, <1>3, <1>5 DEF Following, Showing, Leaving
    <2> QED BY <2>1, <2>2 DEF Showing
  <1>14. Ended'
    BY <1>1, <1>2, <1>3 DEF Ended
  <1> QED BY <1>10, <1>11, <1>12, <1>13, <1>14 DEF OwnerInv, Following

\* The main routine announces a client.
LEMMA NewClientOwner ==
  ASSUME Inv, OwnerInv, PostTick, NEW c \in Client, Head(posts) = NewPost(c),
         OnNewClientProxy(c)
  PROVE  OwnerInv'
  <1>1. gate /\ Ended /\ Following
    BY DEF OwnerInv, PostTick
  <1>2. PICK boot \in Entity \ used :
          /\ owner' = [owner EXCEPT ![c] = boot]
          /\ used' = used \cup {boot}
          /\ toDisp' = Via(toDisp, boot, Connected(c, boot))
          /\ UNCHANGED <<prop, tree, want>>
    BY DEF OnNewClientProxy
  <1>3. UNCHANGED <<sock, gate, want, route, noticed, late, client, live, chosen, view,
                    toGame, fromGame, toGate>>
    BY <1>2 DEF PostTick, dispVars, gameVars
  <1>4. Down' = Down
    BY <1>3 DEF Down, Joined
  <1>5. /\ owner \in [Client -> Entity \cup {None}] /\ live \subseteq used
        /\ boot # None /\ used \subseteq Entity
    BY NobodyAssumption DEF Inv, Typed
  <1>6. \A k \in Client : owner'[k] = IF k = c THEN boot ELSE owner[k]
    BY <1>2, <1>5
  <1>7. Connected(c, boot) \in Messages
    BY DEF Connected, Messages
  <1>8. Up' = Via(Up, boot, Connected(c, boot))
    BY <1>2, <1>3, <1>7, WiresTyped, JoinedVia DEF Up
  <1>9. \A d \in Dispatcher, k \in Client : \A e \in Entity :
          /\ Has(Up'[d], Connected(k, e))
               <=> Has(Up[d], Connected(k, e)) \/ (d = DispatcherOf[boot] /\ k = c /\ e = boot)
          /\ Pre(Up'[d], Connected(k, e), Connected(k, e))
               <=> \/ Pre(Up[d], Connected(k, e), Connected(k, e))
                   \/ /\ d = DispatcherOf[boot] /\ k = c /\ e = boot
                      /\ Has(Up[d], Connected(c, boot))
          /\ Has(Up'[d], Disconnected(k, e)) <=> Has(Up[d], Disconnected(k, e))
    <2>1. PICK q \in Wire(Messages) : q = Up
      BY WiresTyped
    <2>2. PICK r : r = Via(q, boot, Connected(c, boot))
      OBVIOUS
    <2>3. ASSUME NEW d \in Dispatcher, NEW m, NEW n
          PROVE  /\ Has(r[d], m)
                      <=> Has(q[d], m) \/ (d = DispatcherOf[boot] /\ m = Connected(c, boot))
                 /\ Pre(r[d], m, n) <=> \/ Pre(q[d], m, n)
                                        \/ /\ d = DispatcherOf[boot] /\ Has(q[d], m)
                                           /\ n = Connected(c, boot)
      <3>1. Sends(q, r, boot, Connected(c, boot))
        BY <1>7, <2>2, ViaHolds
      <3> QED BY <3>1 DEF Sends
    <2>4. \A k \in Client, e \in Entity :
            /\ Connected(k, e) = Connected(c, boot) <=> k = c /\ e = boot
            /\ Disconnected(k, e) # Connected(c, boot)
      BY MessagesDiffer
    <2> QED BY <1>8, <2>1, <2>2, <2>3, <2>4
  <1>10. \A k \in Client :
          /\ Has(posts, NewPost(k)) <=> Has(posts', NewPost(k)) \/ k = c
          /\ Has(posts, ClosePost(k)) <=> Has(posts', ClosePost(k))
          /\ Pre(posts, NewPost(k), NewPost(k))
               <=> Pre(posts', NewPost(k), NewPost(k)) \/ (k = c /\ Has(posts', NewPost(c)))
          /\ Pre(posts, ClosePost(k), NewPost(k)) <=> Pre(posts', ClosePost(k), NewPost(k))
          /\ Pre(posts, NewPost(k), ClosePost(k))
               <=> Pre(posts', NewPost(k), ClosePost(k)) \/ (k = c /\ Has(posts', ClosePost(c)))
    <2>1. posts # <<>> /\ posts' = Tail(posts)
      BY DEF PostTick
    <2>2. \A m : Has(posts, m) <=> Has(posts', m) \/ m = NewPost(c)
      BY <2>1, PostTaken
    <2>3. \A m, n : Pre(posts, m, n) <=> Pre(posts', m, n) \/ (m = NewPost(c) /\ Has(posts', n))
      BY <2>1, PostTaken
    <2> QED BY <2>2, <2>3, PostsDiffer
  <1>11. /\ Has(posts, NewPost(c)) /\ owner[c] = None /\ ~Announces(c) /\ Waiting(c)
         /\ ~Has(posts', NewPost(c)) /\ sock[c] # "new"
    BY <1>1, <1>10 DEF Following, Announcing, Waiting
  <1>12. \A k \in Client : (Announces(k))' <=> Announces(k) \/ k = c
    <2>1. DispatcherOf[boot] \in Dispatcher
      BY DispatcherAssumption
    <2> QED BY <1>9, <2>1 DEF Announces
  <1>13. \A k \in Client : (Waiting(k))' <=> Waiting(k)
    BY <1>3, <1>10, <1>11, <1>12 DEF Waiting
  <1>14. /\ boot \notin live /\ boot \notin route
         /\ \A d \in Dispatcher : /\ ~Has(Down[d], NotifyCreate(boot))
                                  /\ ~Has(Down[d], NotifyDestroy(boot))
                                  /\ \A k \in Client : ~Has(Up[d], Connected(k, boot))
    <2>1. boot \notin used
      BY <1>2
    <2>2. boot \notin live /\ boot \notin route
      BY <1>1, <1>5, <2>1 DEF Following, Routed
    <2>3. \A d \in Dispatcher : ~Has(Down[d], NotifyCreate(boot)) /\ ~Has(Down[d], NotifyDestroy(boot))
      BY <1>1, <2>1 DEF Following, Routed
    <2>4. \A d \in Dispatcher, k \in Client : ~Has(Up[d], Connected(k, boot))
      BY <1>1, <2>1 DEF Following, Announcing
    <2> QED BY <2>2, <2>3, <2>4
  <1>15. Announcing'
    <2>1. /\ \A k \in Client : sock'[k] = "new" =>
               ~Has(posts', NewPost(k)) /\ owner'[k] = None /\ ~(Announces(k))'
          /\ \A k \in Client : Has(posts', NewPost(k)) => owner'[k] = None /\ ~(Announces(k))'
      BY <1>1, <1>3, <1>6, <1>10, <1>11, <1>12 DEF Following, Announcing
    <2>2. \A k \in Client : ~Pre(posts', NewPost(k), NewPost(k)) /\ ~Pre(posts', ClosePost(k), NewPost(k))
      BY <1>1, <1>10 DEF Following, Announcing
    <2>3. ASSUME NEW d \in Dispatcher, NEW k \in Client, NEW b \in Entity,
                 Has(Up'[d], Connected(k, b))
          PROVE  /\ d = DispatcherOf[b] /\ b \in used' /\ b \notin live' /\ b \notin route'
                 /\ \A x \in Dispatcher : /\ ~Has(Down'[x], NotifyCreate(b))
                                          /\ ~Has(Down'[x], NotifyDestroy(b))
                 /\ ~Pre(Up'[d], Connected(k, b), Connected(k, b))
                 /\ \A x \in Dispatcher, l \in Client, e \in Entity :
                      Has(Up'[x], Connected(l, e)) => (l = k <=> e = b)
      <3>1. CASE Has(Up[d], Connected(k, b))
        <4>1. k # c /\ b # boot
          BY <1>11, <1>14, <3>1 DEF Announces
        <4> QED BY <1>1, <1>2, <1>3, <1>4, <1>9, <3>1, <4>1 DEF Following, Announcing
      <3>2. CASE d = DispatcherOf[boot] /\ k = c /\ b = boot
        <4>1. \A x \in Dispatcher, l \in Client, e \in Entity :
                Has(Up[x], Connected(l, e)) => l # c /\ e # boot
          BY <1>11, <1>14 DEF Announces
        <4>2. b \in used' /\ b \notin live' /\ b \notin route'
          BY <1>2, <1>3, <1>14, <3>2
        <4>3. \A x \in Dispatcher : ~Has(Down'[x], NotifyCreate(b)) /\ ~Has(Down'[x], NotifyDestroy(b))
          BY <1>4, <1>14, <3>2
        <4>4. ~Pre(Up'[d], Connected(k, b), Connected(k, b))
          <5>1. ~Has(Up[d], Connected(k, b))
            BY <3>2, <4>1
          <5>2. ~Pre(Up[d], Connected(k, b), Connected(k, b))
            BY <5>1 DEF Has, Pre
          <5> QED BY <1>9, <3>2, <5>1, <5>2
        <4>5. \A x \in Dispatcher, l \in Client, e \in Entity :
                Has(Up'[x], Connected(l, e)) => (l = k <=> e = b)
          BY <1>9, <3>2, <4>1
        <4> QED BY <3>2, <4>2, <4>3, <4>4, <4>5
      <3> QED BY <1>9, <2>3, <3>1, <3>2
    <2>4. \A k \in Client : (Waiting(k))' =>
            /\ view'[k] = {}
            /\ \A e \in Entity : client'[e] # k
            /\ \A d \in Dispatcher :
                 /\ \A e \in Entity : /\ ~Has(Down'[d], CreateOnClient(k, e))
                                      /\ ~Has(Down'[d], DestroyOnClient(k, e))
                 /\ \A v \in Val : ~Has(Down'[d], SetFilterProp(k, v))
      BY <1>1, <1>3, <1>4, <1>13 DEF Following, Announcing
    <2> QED BY <2>1, <2>2, <2>3, <2>4 DEF Announcing
  <1>16. Closing'
    <2> SUFFICES ASSUME NEW k \in Client
                 PROVE  /\ sock[k] = "open" /\ owner'[k] = None => Has(posts', NewPost(k))
                        /\ sock[k] = "shut" /\ owner'[k] # None => Has(posts', ClosePost(k))
                        /\ sock[k] = "shut" /\ Has(posts', NewPost(k)) =>
                             Pre(posts', NewPost(k), ClosePost(k))
                        /\ sock[k] # "shut" =>
                             /\ ~Has(posts', ClosePost(k))
                             /\ \A d \in Dispatcher, e \in Entity : ~Has(Up'[d], Disconnected(k, e))
      BY <1>3 DEF Closing
    <2>1. /\ sock[k] = "open" /\ owner[k] = None => Has(posts, NewPost(k))
          /\ sock[k] = "shut" /\ owner[k] # None => Has(posts, ClosePost(k))
          /\ sock[k] = "shut" /\ Has(posts, NewPost(k)) => Pre(posts, NewPost(k), ClosePost(k))
          /\ sock[k] # "shut" =>
               /\ ~Has(posts, ClosePost(k))
               /\ \A d \in Dispatcher, e \in Entity : ~Has(Up[d], Disconnected(k, e))
      BY <1>1 DEF Following, Closing
    <2>2. Pre(posts, NewPost(k), ClosePost(k)) => Has(posts, ClosePost(k))
      BY DEF Pre, Has
    <2> QED BY <1>5, <1>6, <1>9, <1>10, <1>11, <2>1, <2>2
  <1>17. Routed' /\ Creating'
    BY <1>1, <1>2, <1>3, <1>4 DEF Following, Routed, Creating
  <1>18. Owning' /\ Filtering'
    <2>1. \A e \in Entity : client[e] # c
      BY <1>1, <1>11 DEF Following, Announcing
    <2>2. client \in [Entity -> Client \cup {None}]
      BY DEF Inv, Typed
    <2>3. \A e \in Entity : DispatcherOf[e] \in Dispatcher
      BY DispatcherAssumption
    <2>4. Owning'
      BY <1>1, <1>3, <1>4, <1>6, <1>9, <2>1, <2>2, <2>3 DEF Following, Owning, OwnedAt
    <2>5. Filtering'
      BY <1>1, <1>3, <1>4 DEF Following, Filtering
    <2> QED BY <2>4, <2>5
  <1>19. Showing'
    <2>1. \A k \in Client : (Taken(k))' /\ (Leaving(k))'
      BY <1>1, <1>3, <1>4 DEF Following, Showing, Taken, Leaving
    <2>2. \A k \in Client : k # c => (Shown(k))'
      BY <1>1, <1>3, <1>4, <1>6 DEF Following, Showing, Shown
    <2>3. (Shown(c))'
      BY <1>1, <1>3, <1>4, <1>11 DEF Following, Announcing, Shown
    <2> QED BY <2>1, <2>2, <2>3 DEF Showing
  <1>20. Ended'
    <2>1. \A d \in Dispatcher : ~Has(toDisp'[d], GateDown)
      <3>1. \A d \in Dispatcher : Has(toDisp'[d], GateDown) <=> Has(toDisp[d], GateDown)
        BY <1>2, <1>7, WiresTyped, ViaBesides, MessageTypes DEF Besides
      <3> QED BY <1>1, <3>1 DEF Ended
    <2>2. \A k \in Client : owner'[k] = None => want'[k] = None
      BY <1>1, <1>3, <1>5, <1>6 DEF Ended
    <2> QED BY <1>1, <1>3, <2>1, <2>2 DEF Ended
  <1> QED BY <1>15, <1>16, <1>17, <1>18, <1>19, <1>20 DEF OwnerInv, Following

\* What the gate tells the dispatcher of e: that c, which e owns or was to own, is gone.
LEMMA SendDisconnected ==
  ASSUME Inv, NEW c \in Client, NEW e \in Entity \cup {None},
         toDisp' = Via(toDisp, e, Disconnected(c, e)), UNCHANGED toGame
  PROVE  /\ \A d \in Dispatcher, k \in Client : \A x \in Entity :
              /\ Has(Up'[d], Connected(k, x)) <=> Has(Up[d], Connected(k, x))
              /\ Pre(Up'[d], Connected(k, x), Connected(k, x))
                   <=> Pre(Up[d], Connected(k, x), Connected(k, x))
              /\ Has(Up'[d], Disconnected(k, x))
                   <=> \/ Has(Up[d], Disconnected(k, x))
                       \/ d = DispatcherOf[e] /\ k = c /\ x = e
         /\ \A d \in Dispatcher : Has(toDisp'[d], GateDown) <=> Has(toDisp[d], GateDown)
  <1>1. Disconnected(c, e) \in Messages
    BY DEF Disconnected, Messages
  <1>2. Up' = Via(Up, e, Disconnected(c, e))
    BY <1>1, WiresTyped, JoinedVia DEF Up
  <1>3. PICK q \in Wire(Messages) : q = Up
    BY WiresTyped
  <1>4. PICK r : r = Via(q, e, Disconnected(c, e))
    OBVIOUS
  <1>5. ASSUME NEW d \in Dispatcher, NEW m, NEW n
        PROVE  /\ Has(r[d], m)
                    <=> Has(q[d], m) \/ (d = DispatcherOf[e] /\ m = Disconnected(c, e))
               /\ Pre(r[d], m, n) <=> \/ Pre(q[d], m, n)
                                      \/ /\ d = DispatcherOf[e] /\ Has(q[d], m)
                                         /\ n = Disconnected(c, e)
    <2>1. Sends(q, r, e, Disconnected(c, e))
      BY <1>1, <1>4, ViaHolds
    <2> QED BY <2>1 DEF Sends
  <1>6. \A k \in Client, x \in Entity :
          /\ Disconnected(k, x) = Disconnected(c, e) <=> k = c /\ x = e
          /\ Connected(k, x) # Disconnected(c, e)
    BY MessagesDiffer
  <1>7. \A d \in Dispatcher : Has(toDisp'[d], GateDown) <=> Has(toDisp[d], GateDown)
    BY <1>1, WiresTyped, ViaBesides, MessageTypes DEF Besides
  <1>8. \A d \in Dispatcher, k \in Client : \A x \in Entity :
          /\ Has(r[d], Connected(k, x)) <=> Has(q[d], Connected(k, x))
          /\ Pre(r[d], Connected(k, x), Connected(k, x))
               <=> Pre(q[d], Connected(k, x), Connected(k, x))
    BY <1>5, <1>6
  <1>9. \A d \in Dispatcher, k \in Client : \A x \in Entity :
          Has(r[d], Disconnected(k, x))
            <=> \/ Has(q[d], Disconnected(k, x))
                \/ d = DispatcherOf[e] /\ k = c /\ x = e
    BY <1>5, <1>6
  <1> QED BY <1>2, <1>3, <1>4, <1>7, <1>8, <1>9

\* The main routine tells the owner of a client that it is gone.
LEMMA ClientGoneOwner ==
  ASSUME Inv, OwnerInv, PostTick, NEW c \in Client, Head(posts) = ClosePost(c),
         OnClientProxyClose(c)
  PROVE  OwnerInv'
  <1>1. gate /\ Ended /\ Following
    BY DEF OwnerInv, PostTick
  <1>2. /\ owner' = [owner EXCEPT ![c] = None] /\ want' = [want EXCEPT ![c] = None]
        /\ toDisp' = Via(toDisp, owner[c], Disconnected(c, owner[c]))
        /\ used' = used
    BY DEF OnClientProxyClose
  <1>3. UNCHANGED <<sock, gate, route, noticed, late, client, live, chosen, view,
                    toGame, fromGame, toGate>>
    BY DEF PostTick, dispVars, gameVars
  <1>4. Down' = Down
    BY <1>3 DEF Down, Joined
  <1>5. /\ owner \in [Client -> Entity \cup {None}] /\ want \in [Client -> Val \cup {None}]
        /\ client \in [Entity -> Client \cup {None}] /\ sock \in [Client -> {"new", "open", "shut"}]
    BY DEF Inv, Typed
  <1>6. \A k \in Client : /\ owner'[k] = IF k = c THEN None ELSE owner[k]
                          /\ want'[k] = IF k = c THEN None ELSE want[k]
    BY <1>2, <1>5
  <1>7. PICK o \in Entity \cup {None} : o = owner[c]
    BY <1>5
  <1>8. \A d \in Dispatcher, k \in Client : \A x \in Entity :
          /\ Has(Up'[d], Connected(k, x)) <=> Has(Up[d], Connected(k, x))
          /\ Pre(Up'[d], Connected(k, x), Connected(k, x))
               <=> Pre(Up[d], Connected(k, x), Connected(k, x))
          /\ Has(Up'[d], Disconnected(k, x))
               <=> \/ Has(Up[d], Disconnected(k, x))
                   \/ d = DispatcherOf[o] /\ k = c /\ x = o
    BY <1>2, <1>3, <1>7, SendDisconnected
  <1>9. \A k \in Client :
          /\ Has(posts, NewPost(k)) <=> Has(posts', NewPost(k))
          /\ Has(posts, ClosePost(k)) <=> Has(posts', ClosePost(k)) \/ k = c
          /\ Pre(posts, NewPost(k), NewPost(k)) <=> Pre(posts', NewPost(k), NewPost(k))
          /\ Pre(posts, ClosePost(k), NewPost(k))
               <=> Pre(posts', ClosePost(k), NewPost(k)) \/ (k = c /\ Has(posts', NewPost(c)))
          /\ Pre(posts, NewPost(k), ClosePost(k)) <=> Pre(posts', NewPost(k), ClosePost(k))
    <2>1. posts # <<>> /\ posts' = Tail(posts)
      BY DEF PostTick
    <2>2. \A m : Has(posts, m) <=> Has(posts', m) \/ m = ClosePost(c)
      BY <2>1, PostTaken
    <2>3. \A m, n : Pre(posts, m, n) <=> Pre(posts', m, n) \/ (m = ClosePost(c) /\ Has(posts', n))
      BY <2>1, PostTaken
    <2> QED BY <2>2, <2>3, PostsDiffer
  <1>10. sock[c] = "shut" /\ ~Has(posts, NewPost(c))
    <2>1. Has(posts, ClosePost(c))
      BY <1>9
    <2>2. sock[c] = "shut"
      BY <1>1, <2>1 DEF Following, Closing
    <2>3. ~Has(posts', NewPost(c))
      BY <1>1, <1>9 DEF Following, Announcing
    <2> QED BY <1>9, <2>2, <2>3
  <1>11. \A k \in Client : (Announces(k))' <=> Announces(k)
    BY <1>8 DEF Announces
  <1>12. \A k \in Client : (Waiting(k))' <=> Waiting(k)
    BY <1>3, <1>9, <1>11 DEF Waiting
  <1>13. Announcing'
    <2>1. /\ \A k \in Client : sock'[k] = "new" =>
               ~Has(posts', NewPost(k)) /\ owner'[k] = None /\ ~(Announces(k))'
          /\ \A k \in Client : Has(posts', NewPost(k)) => owner'[k] = None /\ ~(Announces(k))'
      BY <1>1, <1>3, <1>6, <1>9, <1>11 DEF Following, Announcing
    <2>2. \A k \in Client : ~Pre(posts', NewPost(k), NewPost(k)) /\ ~Pre(posts', ClosePost(k), NewPost(k))
      BY <1>1, <1>9 DEF Following, Announcing
    <2> QED BY <1>1, <1>2, <1>3, <1>4, <1>8, <1>12, <2>1, <2>2 DEF Following, Announcing
  <1>14. Closing'
    <2> SUFFICES ASSUME NEW k \in Client
                 PROVE  /\ sock[k] = "open" /\ owner'[k] = None => Has(posts', NewPost(k))
                        /\ sock[k] = "shut" /\ owner'[k] # None => Has(posts', ClosePost(k))
                        /\ sock[k] = "shut" /\ Has(posts', NewPost(k)) =>
                             Pre(posts', NewPost(k), ClosePost(k))
                        /\ sock[k] # "shut" =>
                             /\ ~Has(posts', ClosePost(k))
                             /\ \A d \in Dispatcher, e \in Entity : ~Has(Up'[d], Disconnected(k, e))
      BY <1>3 DEF Closing
    <2>1. /\ sock[k] = "open" /\ owner[k] = None => Has(posts, NewPost(k))
          /\ sock[k] = "shut" /\ owner[k] # None => Has(posts, ClosePost(k))
          /\ sock[k] = "shut" /\ Has(posts, NewPost(k)) => Pre(posts, NewPost(k), ClosePost(k))
          /\ sock[k] # "shut" =>
               /\ ~Has(posts, ClosePost(k))
               /\ \A d \in Dispatcher, e \in Entity : ~Has(Up[d], Disconnected(k, e))
      BY <1>1 DEF Following, Closing
    <2> QED BY <1>6, <1>8, <1>9, <1>10, <2>1
  <1>15. Routed' /\ Creating'
    BY <1>1, <1>2, <1>3, <1>4 DEF Following, Routed, Creating
  <1>16. Owning'
    <2> SUFFICES ASSUME NEW e \in Entity, client[e] # None
                 PROVE  (OwnedAt(e, client[e]))'
      BY <1>3 DEF Owning
    <2>1. PICK k \in Client : k = client[e]
      BY <1>5
    <2>2. OwnedAt(e, k)
      BY <1>1, <2>1, NobodyAssumption DEF Following, Owning
    <2>3. DispatcherOf[e] \in Dispatcher
      BY DispatcherAssumption
    <2>4. (OwnedAt(e, k))'
      BY <1>3, <1>4, <1>6, <1>7, <1>8, <2>2, <2>3 DEF OwnedAt
    <2> QED BY <1>3, <2>1, <2>4
  <1>17. Showing'
    <2>1. \A k \in Client : (Taken(k))' /\ (Leaving(k))'
      BY <1>1, <1>3, <1>4 DEF Following, Showing, Taken, Leaving
    <2>2. \A k \in Client : (Shown(k))'
      BY <1>1, <1>3, <1>4, <1>6 DEF Following, Showing, Shown
    <2> QED BY <2>1, <2>2 DEF Showing
  <1>18. Filtering'
    <2>1. \A e \in Entity : client[e] # None =>
            want'[client[e]] = want[client[e]] \/ want'[client[e]] = None
      BY <1>5, <1>6
    <2> QED BY <1>1, <1>3, <1>4, <2>1 DEF Following, Filtering
  <1>19. Ended'
    <2>1. \A d \in Dispatcher : ~Has(toDisp'[d], GateDown)
      <3>1. \A d \in Dispatcher : Has(toDisp'[d], GateDown) <=> Has(toDisp[d], GateDown)
        BY <1>2, <1>3, <1>7, SendDisconnected
      <3> QED BY <1>1, <3>1 DEF Ended
    <2>2. \A k \in Client : owner'[k] = None => want'[k] = None
      BY <1>1, <1>6 DEF Ended
    <2> QED BY <1>1, <1>3, <2>1, <2>2 DEF Ended
  <1> QED BY <1>13, <1>14, <1>15, <1>16, <1>17, <1>18, <1>19 DEF OwnerInv, Following

LEMMA PostTickOwner ==
  ASSUME Inv, OwnerInv, PostTick
  PROVE  OwnerInv'
  <1>1. PICK f \in Posted : f = Head(posts)
    <2>1. posts \in Seq(Posted) /\ posts # <<>>
      BY DEF PostTick, Inv, Typed
    <2> QED BY <2>1
  <1>2. \/ f.kind = "new" /\ OnNewClientProxy(f.client)
        \/ f.kind = "close" /\ OnClientProxyClose(f.client)
    BY <1>1 DEF PostTick
  <1>3. /\ f.client \in Client /\ (f.kind = "new" => f = NewPost(f.client))
        /\ f.kind = "close" => f = ClosePost(f.client)
    BY DEF Posted, NewPost, ClosePost
  <1> QED BY <1>1, <1>2, <1>3, NewClientOwner, ClientGoneOwner

-----------------------------------------------------------------------------
(* What the gate reads                                                      *)

\* r is q without its first message at d, which tells c to create e, to destroy e,
\* or is about its filter property.
TakesCreate(q, r, d, c, e) ==
  \A x \in Dispatcher, k \in Client : \A y, z \in Entity :
    /\ Has(q[x], CreateOnClient(k, y))
         <=> Has(r[x], CreateOnClient(k, y)) \/ (x = d /\ k = c /\ y = e)
    /\ Pre(q[x], CreateOnClient(k, y), CreateOnClient(k, y))
         <=> \/ Pre(r[x], CreateOnClient(k, y), CreateOnClient(k, y))
             \/ x = d /\ k = c /\ y = e /\ Has(r[d], CreateOnClient(c, e))
    /\ Pre(q[x], NotifyCreate(y), CreateOnClient(k, y))
         <=> Pre(r[x], NotifyCreate(y), CreateOnClient(k, y))
    /\ Has(q[x], DestroyOnClient(k, y)) <=> Has(r[x], DestroyOnClient(k, y))
    /\ Pre(q[x], CreateOnClient(k, y), DestroyOnClient(k, z))
         <=> \/ Pre(r[x], CreateOnClient(k, y), DestroyOnClient(k, z))
             \/ x = d /\ k = c /\ y = e /\ Has(r[d], DestroyOnClient(c, z))
    /\ Pre(q[x], DestroyOnClient(k, y), CreateOnClient(k, z))
         <=> Pre(r[x], DestroyOnClient(k, y), CreateOnClient(k, z))
TakesDestroy(q, r, d, c, e) ==
  \A x \in Dispatcher, k \in Client : \A y, z \in Entity :
    /\ Has(q[x], DestroyOnClient(k, y))
         <=> Has(r[x], DestroyOnClient(k, y)) \/ (x = d /\ k = c /\ y = e)
    /\ Pre(q[x], CreateOnClient(k, y), DestroyOnClient(k, z))
         <=> Pre(r[x], CreateOnClient(k, y), DestroyOnClient(k, z))
    /\ Pre(q[x], DestroyOnClient(k, y), CreateOnClient(k, z))
         <=> \/ Pre(r[x], DestroyOnClient(k, y), CreateOnClient(k, z))
             \/ x = d /\ k = c /\ y = e /\ Has(r[d], CreateOnClient(c, z))
TakesFilter(q, r, d, c, m) ==
  /\ \A x \in Dispatcher, k \in Client : k # c =>
       /\ Has(q[x], ClearFilterProps(k)) <=> Has(r[x], ClearFilterProps(k))
       /\ \A v \in Val : Has(q[x], SetFilterProp(k, v)) <=> Has(r[x], SetFilterProp(k, v))
  /\ \A x \in Dispatcher, k \in Client, v \in Val :
       /\ Has(r[x], SetFilterProp(k, v)) => Has(q[x], SetFilterProp(k, v))
       /\ Final(r[x], SetFilterProp(k, v), FilterMessages(k)) =>
            Final(q[x], SetFilterProp(k, v), FilterMessages(k))
  /\ \/ \E n \in FilterMessages(c) : Has(r[d], n)
     \/ Final(q[d], m, FilterMessages(c))

LEMMA ReadTakesCreate ==
  ASSUME NEW q, NEW r, NEW d \in Dispatcher, NEW c, NEW e,
         Reads(q, r, d, CreateOnClient(c, e))
  PROVE  SameNotices(q, r) /\ SameFilters(q, r) /\ TakesCreate(q, r, d, c, e)
  <1>1. SameNotices(q, r) /\ SameFilters(q, r)
    BY BesidesKinds, MessageTypes DEF Reads
  <1>2. \A k \in Client : \A y \in Entity :
          /\ CreateOnClient(k, y) = CreateOnClient(c, e) <=> k = c /\ y = e
          /\ DestroyOnClient(k, y) # CreateOnClient(c, e)
          /\ NotifyCreate(y) # CreateOnClient(c, e)
    <2>1. \A y : NotifyCreate(y) # CreateOnClient(c, e)
      BY MessageTypes
    <2> QED BY <2>1, MessagesDiffer
  <1>3. ASSUME NEW x \in Dispatcher, NEW m, NEW n
        PROVE  /\ Has(q[x], m) <=> Has(r[x], m) \/ (x = d /\ m = CreateOnClient(c, e))
               /\ Pre(q[x], m, n) <=> \/ Pre(r[x], m, n)
                                      \/ x = d /\ m = CreateOnClient(c, e) /\ Has(r[d], n)
    <2>1. CASE x = d
      BY <2>1 DEF Reads
    <2>2. CASE x # d
      BY <2>2 DEF Reads
    <2> QED BY <2>1, <2>2
  <1> QED BY <1>1, <1>2, <1>3 DEF TakesCreate

LEMMA ReadTakesDestroy ==
  ASSUME NEW q, NEW r, NEW d \in Dispatcher, NEW c, NEW e,
         Reads(q, r, d, DestroyOnClient(c, e))
  PROVE  /\ SameNotices(q, r) /\ SameFilters(q, r) /\ SameCreates(q, r)
         /\ TakesDestroy(q, r, d, c, e)
  <1>1. SameNotices(q, r) /\ SameFilters(q, r) /\ SameCreates(q, r)
    BY BesidesKinds, MessageTypes DEF Reads
  <1>2. \A k \in Client : \A y \in Entity :
          /\ DestroyOnClient(k, y) = DestroyOnClient(c, e) <=> k = c /\ y = e
          /\ CreateOnClient(k, y) # DestroyOnClient(c, e)
    BY MessagesDiffer
  <1>3. ASSUME NEW x \in Dispatcher, NEW m, NEW n
        PROVE  /\ Has(q[x], m) <=> Has(r[x], m) \/ (x = d /\ m = DestroyOnClient(c, e))
               /\ Pre(q[x], m, n) <=> \/ Pre(r[x], m, n)
                                      \/ x = d /\ m = DestroyOnClient(c, e) /\ Has(r[d], n)
    <2>1. CASE x = d
      BY <2>1 DEF Reads
    <2>2. CASE x # d
      BY <2>2 DEF Reads
    <2> QED BY <2>1, <2>2
  <1> QED BY <1>1, <1>2, <1>3 DEF TakesDestroy

LEMMA ReadTakesFilter ==
  ASSUME NEW q, NEW r, NEW d \in Dispatcher, NEW c, NEW m \in FilterMessages(c),
         Reads(q, r, d, m)
  PROVE  /\ SameNotices(q, r) /\ SameCreates(q, r) /\ SameDestroys(q, r)
         /\ TakesFilter(q, r, d, c, m)
  <1>1. m.type \in {"setFilterProp", "clearFilterProps"}
    BY MessageTypes DEF FilterMessages
  <1>2. SameNotices(q, r) /\ SameCreates(q, r) /\ SameDestroys(q, r)
    BY <1>1, BesidesKinds DEF Reads
  <1>3. \A k \in Client : k # c =>
          ClearFilterProps(k) # m /\ \A v \in Val : SetFilterProp(k, v) # m
    BY MessagesDiffer DEF FilterMessages
  <1>4. ASSUME NEW x \in Dispatcher, NEW n, NEW S
        PROVE  /\ Has(q[x], n) <=> Has(r[x], n) \/ (x = d /\ n = m)
               /\ Final(r[x], n, S) => Final(q[x], n, S)
    <2>1. CASE x = d
      BY <2>1 DEF Reads
    <2>2. CASE x # d
      BY <2>2 DEF Reads
    <2> QED BY <2>1, <2>2
  <1>5. \/ \E n \in FilterMessages(c) : Has(r[d], n)
        \/ Final(q[d], m, FilterMessages(c))
    BY DEF Reads
  <1> QED BY <1>2, <1>3, <1>4, <1>5 DEF TakesFilter

LEMMA GateReads ==
  ASSUME Inv, NEW d \in Dispatcher, HandleDispatcherClientPacket(d)
  PROVE  Head(toGate[d]) \in Messages /\ Reads(Down, Down', d, Head(toGate[d]))
  <1>1. PICK a, b \in Wire(Messages) : a = toGate /\ b = fromGame
    BY WiresTyped
  <1>2. PICK r : r = Joined([a EXCEPT ![d] = Tail(@)], b)
    OBVIOUS
  <1>3. Down' = r /\ Down = Joined(a, b) /\ a[d] # <<>>
    BY <1>1, <1>2 DEF HandleDispatcherClientPacket, Down
  <1>4. Head(a[d]) \in Messages
    BY <1>3, TailTyped
  <1>5. Reads(Joined(a, b), r, d, Head(a[d]))
    BY <1>2, <1>3, JoinedRead
  <1> QED BY <1>1, <1>3, <1>4, <1>5

LEMMA DispatchersOf ==
  /\ \A e \in Entity : DispatcherOf[e] \in Dispatcher
  /\ None \notin Client /\ None \notin Entity /\ None \notin Val
  BY DispatcherAssumption, NobodyAssumption

\* Nothing changes of what a client shows and is going to.
SameFor(q, r, k) ==
  \A d \in Dispatcher : \A x, y \in Entity :
    /\ Has(r[d], CreateOnClient(k, x)) <=> Has(q[d], CreateOnClient(k, x))
    /\ Has(r[d], DestroyOnClient(k, x)) <=> Has(q[d], DestroyOnClient(k, x))
    /\ Pre(r[d], CreateOnClient(k, x), DestroyOnClient(k, y))
         <=> Pre(q[d], CreateOnClient(k, x), DestroyOnClient(k, y))
    /\ Pre(r[d], DestroyOnClient(k, x), CreateOnClient(k, y))
         <=> Pre(q[d], DestroyOnClient(k, x), CreateOnClient(k, y))

LEMMA ShowingKept ==
  ASSUME Inv, NEW k \in Client, Shown(k), Taken(k), Leaving(k), SameFor(Down, Down', k),
         owner'[k] = owner[k], view'[k] = view[k], sock'[k] = sock[k],
         \A y \in Entity : client'[y] = k <=> client[y] = k
  PROVE  (Shown(k))' /\ (Taken(k))' /\ (Leaving(k))'
  <1>1. view[k] \subseteq Entity
    BY DEF Inv, Typed
  <1>2. (Shown(k))'
    BY <1>1, DispatchersOf DEF Shown, SameFor
  <1>3. (Taken(k))'
    BY DEF Taken, SameFor
  <1>4. (Leaving(k))'
    BY <1>1, DispatchersOf DEF Leaving, SameFor
  <1> QED BY <1>2, <1>3, <1>4

LEMMA FilterHeld ==
  ASSUME NEW q, NEW r, SameFilters(q, r), NEW d \in Dispatcher, NEW c \in Client,
         NEW m \in FilterMessages(c)
  PROVE  Has(r[d], m) <=> Has(q[d], m)
  BY DEF SameFilters, FilterMessages

LEMMA FilteringKept ==
  ASSUME Inv, Filtering, SameFilters(Down, Down'), UNCHANGED <<client, chosen, want>>
  PROVE  Filtering'
  <1> SUFFICES ASSUME NEW e \in Entity, client[e] # None
               PROVE  /\ \A d \in Dispatcher, v \in Val :
                           Final(Down'[d], SetFilterProp(client[e], v), FilterMessages(client[e])) =>
                             d = DispatcherOf[e] /\ v = chosen[e]
                      /\ \/ want[client[e]] \in {None, chosen[e]}
                         \/ \E d \in Dispatcher : \E m \in FilterMessages(client[e]) : Has(Down'[d], m)
    BY DEF Filtering
  <1>1. PICK c \in Client : c = client[e]
    BY DEF Inv, Typed
  <1>2. /\ \A d \in Dispatcher, v \in Val :
             Final(Down[d], SetFilterProp(c, v), FilterMessages(c)) =>
               d = DispatcherOf[e] /\ v = chosen[e]
        /\ \/ want[c] \in {None, chosen[e]}
           \/ \E d \in Dispatcher : \E m \in FilterMessages(c) : Has(Down[d], m)
    BY <1>1 DEF Filtering
  <1>3. \A d \in Dispatcher, m \in FilterMessages(c) : Has(Down'[d], m) <=> Has(Down[d], m)
    BY FilterHeld
  <1>4. \A d \in Dispatcher, v \in Val :
          Final(Down'[d], SetFilterProp(c, v), FilterMessages(c))
            <=> Final(Down[d], SetFilterProp(c, v), FilterMessages(c))
    BY DEF SameFilters
  <1> QED BY <1>1, <1>2, <1>3, <1>4

\* A client is told of its owner, whom the game had given it to, and shows it alone.
LEMMA CreateReadOwner ==
  ASSUME Inv, OwnerInv, NEW d \in Dispatcher, HandleDispatcherClientPacket(d),
         NEW c \in Client, NEW e \in Entity, Head(toGate[d]) = CreateOnClient(c, e),
         OnCreateEntity(c, e)
  PROVE  OwnerInv'
  <1>1. gate /\ Ended /\ Following
    BY DEF OwnerInv, HandleDispatcherClientPacket
  <1>2. UNCHANGED <<sock, posts, gate, toGame, fromGame, route, noticed, late, client, live,
                    chosen, used, want>>
    BY DEF HandleDispatcherClientPacket, OnCreateEntity, dispVars, gameVars
  <1>3. /\ owner \in [Client -> Entity \cup {None}] /\ view \in [Client -> SUBSET Entity]
        /\ client \in [Entity -> Client \cup {None}] /\ sock \in [Client -> {"new", "open", "shut"}]
        /\ toGate \in Wire(Messages)
    BY DEF Inv, Typed
  <1>4. Reads(Down, Down', d, CreateOnClient(c, e))
    BY GateReads
  <1>5. SameNotices(Down, Down') /\ SameFilters(Down, Down')
    BY <1>4, ReadTakesCreate
  <1>6. TakesCreate(Down, Down', d, c, e)
    BY <1>4, ReadTakesCreate
  <1>7. \A x \in Dispatcher, k \in Client : \A y, z \in Entity :
          /\ Has(Down[x], CreateOnClient(k, y))
               <=> Has(Down'[x], CreateOnClient(k, y)) \/ (x = d /\ k = c /\ y = e)
          /\ Pre(Down[x], CreateOnClient(k, y), CreateOnClient(k, y))
               <=> \/ Pre(Down'[x], CreateOnClient(k, y), CreateOnClient(k, y))
                   \/ x = d /\ k = c /\ y = e /\ Has(Down'[d], CreateOnClient(c, e))
          /\ Pre(Down[x], NotifyCreate(y), CreateOnClient(k, y))
               <=> Pre(Down'[x], NotifyCreate(y), CreateOnClient(k, y))
          /\ Has(Down[x], DestroyOnClient(k, y)) <=> Has(Down'[x], DestroyOnClient(k, y))
          /\ Pre(Down[x], CreateOnClient(k, y), DestroyOnClient(k, z))
               <=> \/ Pre(Down'[x], CreateOnClient(k, y), DestroyOnClient(k, z))
                   \/ x = d /\ k = c /\ y = e /\ Has(Down'[d], DestroyOnClient(c, z))
          /\ Pre(Down[x], DestroyOnClient(k, y), CreateOnClient(k, z))
               <=> Pre(Down'[x], DestroyOnClient(k, y), CreateOnClient(k, z))
    BY <1>6 DEF TakesCreate
  <1>8. \A k \in Client : k # c => SameFor(Down, Down', k)
    BY <1>6 DEF TakesCreate, SameFor
  <1>9. Has(Down[d], CreateOnClient(c, e))
    BY <1>7
  \* The notice is the only one to c, and what it tells is all that matters of c.
  <1>10. /\ d = DispatcherOf[e]
         /\ \A x \in Dispatcher, y \in Entity : ~Has(Down'[x], CreateOnClient(c, y))
         /\ \A y \in Entity : client[y] = c => y = e
         /\ ~Waiting(c) /\ sock[c] # "new"
    <2>1. /\ d = DispatcherOf[e]
          /\ ~Pre(Down[d], CreateOnClient(c, e), CreateOnClient(c, e))
          /\ \A x \in Dispatcher, f \in Entity : Has(Down[x], CreateOnClient(c, f)) => f = e
          /\ \A f \in Entity : client[f] = c => f = e
      BY <1>1, <1>9 DEF Following, Creating
    <2>2. \A x \in Dispatcher : Has(Down[x], CreateOnClient(c, e)) => x = d
      BY <1>1, <2>1 DEF Following, Creating
    <2>3. ASSUME NEW x \in Dispatcher, NEW y \in Entity, Has(Down'[x], CreateOnClient(c, y))
          PROVE  FALSE
      <3>1. Has(Down[x], CreateOnClient(c, y))
        BY <1>7, <2>3
      <3>2. y = e
        BY <2>1, <3>1
      <3>3. x = d
        BY <2>2, <3>1, <3>2
      <3> QED BY <1>7, <2>1, <2>3, <3>2, <3>3
    <2>4. ~Waiting(c)
      BY <1>1, <1>9 DEF Following, Announcing
    <2> QED BY <2>1, <2>3, <2>4 DEF Waiting
  <1>11. client[e] = c => e \in route
    <2>1. ~Pre(Down[d], NotifyCreate(e), CreateOnClient(c, e))
      <3>1. Pre(Down'[d], NotifyCreate(e), CreateOnClient(c, e)) => Has(Down'[d], CreateOnClient(c, e))
        BY DEF Pre, Has
      <3> QED BY <1>7, <1>10, <3>1
    <2> QED BY <1>1, <1>9, <2>1 DEF Following, Creating
  <1>12. client[e] = c => \A x \in Dispatcher, y \in Entity : ~Has(Down'[x], DestroyOnClient(c, y))
    <2> SUFFICES ASSUME client[e] = c, NEW x \in Dispatcher, NEW y \in Entity,
                        Has(Down'[x], DestroyOnClient(c, y))
                 PROVE  FALSE
      OBVIOUS
    <2>1. /\ Has(Down[x], DestroyOnClient(c, y)) => Has(Down[x], CreateOnClient(c, e))
          /\ ~Pre(Down[x], CreateOnClient(c, e), DestroyOnClient(c, y))
      BY <1>1 DEF Following, Showing, Taken
    <2>2. Has(Down[x], CreateOnClient(c, e))
      BY <1>7, <2>1
    <2>3. x = d
      BY <1>7, <1>10, <2>2
    <2> QED BY <1>7, <2>1, <2>3
  <1>13. /\ Routed' /\ Filtering'
    <2>1. \A x \in Dispatcher, y \in Entity : ~Has(toGate'[x], NotifyCreate(y))
      <3>1. toGate[d] # <<>> /\ toGate' = [toGate EXCEPT ![d] = Tail(@)]
        BY DEF HandleDispatcherClientPacket
      <3>2. ASSUME NEW x \in Dispatcher, NEW m, Has(toGate'[x], m) PROVE Has(toGate[x], m)
        <4>1. PICK t \in Seq(Messages) : t = toGate[d]
          BY <1>3 DEF Wire
        <4>2. Has(Tail(t), m) => Has(t, m)
          BY <3>1, <4>1, HoldsHead
        <4> QED BY <1>3, <3>1, <3>2, <4>1, <4>2 DEF Wire
      <3> QED BY <1>1, <3>2 DEF Following, Routed
    <2>2. Routed'
      BY <1>1, <1>2, <1>5, <2>1, DispatchersOf DEF Following, Routed, SameNotices, Inv, Typed
    <2>3. Filtering'
      BY <1>1, <1>2, <1>5, FilteringKept DEF Following
    <2> QED BY <2>2, <2>3
  <1>14. Creating'
    <2>1. ASSUME NEW x \in Dispatcher, NEW k \in Client, NEW y \in Entity,
                 Has(Down'[x], CreateOnClient(k, y))
          PROVE  /\ x = DispatcherOf[y]
                 /\ ~Pre(Down'[x], CreateOnClient(k, y), CreateOnClient(k, y))
                 /\ \A z \in Dispatcher, f \in Entity : Has(Down'[z], CreateOnClient(k, f)) => f = y
                 /\ \A f \in Entity : client'[f] = k => f = y
                 /\ client'[y] = k => \/ y \in route'
                                      \/ Pre(Down'[x], NotifyCreate(y), CreateOnClient(k, y))
      <3>1. Has(Down[x], CreateOnClient(k, y))
        BY <1>7, <2>1
      <3>2. /\ x = DispatcherOf[y]
            /\ ~Pre(Down[x], CreateOnClient(k, y), CreateOnClient(k, y))
            /\ \A z \in Dispatcher, f \in Entity : Has(Down[z], CreateOnClient(k, f)) => f = y
            /\ \A f \in Entity : client[f] = k => f = y
            /\ client[y] = k => y \in route \/ Pre(Down[x], NotifyCreate(y), CreateOnClient(k, y))
        BY <1>1, <3>1 DEF Following, Creating
      <3> QED BY <1>2, <1>7, <3>2
    <2>2. /\ \A y \in Entity : client'[y] # None => y \in live'
          /\ \A y, z \in Entity : client'[y] = client'[z] /\ client'[y] # None => y = z
      BY <1>1, <1>2 DEF Following, Creating
    <2> QED BY <2>1, <2>2 DEF Creating
  <1>15. \A k \in Client : (Taken(k))'
    <2> SUFFICES ASSUME NEW k \in Client, NEW y \in Entity, client[y] = k,
                        NEW x \in Dispatcher, NEW z \in Entity
                 PROVE  /\ Has(Down'[x], DestroyOnClient(k, z)) => Has(Down'[x], CreateOnClient(k, y))
                        /\ ~Pre(Down'[x], CreateOnClient(k, y), DestroyOnClient(k, z))
      BY <1>2 DEF Taken
    <2>1. /\ Has(Down[x], DestroyOnClient(k, z)) => Has(Down[x], CreateOnClient(k, y))
          /\ ~Pre(Down[x], CreateOnClient(k, y), DestroyOnClient(k, z))
      BY <1>1 DEF Following, Showing, Taken
    <2>2. CASE k = c
      <3>1. y = e
        BY <1>10, <2>2
      <3> QED BY <1>7, <1>12, <2>1, <2>2, <3>1
    <2>3. CASE k # c
      BY <1>7, <2>1, <2>3
    <2> QED BY <2>2, <2>3
  <1>16. CASE owner[c] # None
    <2>1. /\ owner' = [owner EXCEPT ![c] = e] /\ view' = [view EXCEPT ![c] = @ \cup {e}]
          /\ toDisp' = toDisp
      BY <1>16 DEF OnCreateEntity
    <2>2. \A k \in Client : /\ owner'[k] = IF k = c THEN e ELSE owner[k]
                            /\ view'[k] = IF k = c THEN view[c] \cup {e} ELSE view[k]
      BY <1>3, <2>1
    <2>3. Up' = Up
      BY <1>2, <2>1 DEF Up, Joined
    <2>4. \A x \in view[c] : x = e
      <3>1. \A x \in view[c] : x = e \/ Pre(Down[d], DestroyOnClient(c, x), CreateOnClient(c, e))
        BY <1>1, <1>9, <1>16 DEF Following, Showing, Shown
      <3>2. \A x \in Entity : Pre(Down'[d], DestroyOnClient(c, x), CreateOnClient(c, e)) =>
              Has(Down'[d], CreateOnClient(c, e))
        BY DEF Pre, Has
      <3>3. \A x \in Entity : ~Pre(Down[d], DestroyOnClient(c, x), CreateOnClient(c, e))
        BY <1>7, <1>10, <3>2
      <3> QED BY <1>3, <3>1, <3>3
    <2>5. \A k \in Client : ((Announces(k))' <=> Announces(k)) /\ ((Waiting(k))' <=> Waiting(k))
      BY <1>2, <2>3 DEF Announces, Waiting
    <2>6. Announcing'
      <3>1. /\ \A k \in Client : sock'[k] = "new" =>
                 ~Has(posts', NewPost(k)) /\ owner'[k] = None /\ ~(Announces(k))'
            /\ \A k \in Client : Has(posts', NewPost(k)) => owner'[k] = None /\ ~(Announces(k))'
        BY <1>1, <1>2, <1>10, <2>2, <2>5 DEF Following, Announcing, Waiting
      <3>2. \A k \in Client : (Waiting(k))' =>
              /\ view'[k] = {}
              /\ \A y \in Entity : client'[y] # k
              /\ \A x \in Dispatcher :
                   /\ \A y \in Entity : /\ ~Has(Down'[x], CreateOnClient(k, y))
                                        /\ ~Has(Down'[x], DestroyOnClient(k, y))
                   /\ \A v \in Val : ~Has(Down'[x], SetFilterProp(k, v))
        BY <1>1, <1>2, <1>5, <1>7, <1>10, <2>2, <2>5 DEF Following, Announcing, SameFilters
      <3> QED BY <1>1, <1>2, <1>5, <2>3, <3>1, <3>2 DEF Following, Announcing, SameNotices
    <2>7. Closing'
      BY <1>1, <1>2, <1>16, <2>2, <2>3, DispatchersOf DEF Following, Closing
    <2>8. Owning'
      <3> SUFFICES ASSUME NEW y \in Entity, client[y] # None
                   PROVE  (OwnedAt(y, client[y]))'
        BY <1>2 DEF Owning
      <3>1. PICK k \in Client : k = client[y]
        BY <1>3
      <3>2. OwnedAt(y, k)
        BY <1>1, <3>1, DispatchersOf DEF Following, Owning
      <3>3. CASE k = c
        <4>1. y = e
          BY <1>10, <3>1, <3>3
        <4> QED BY <1>2, <1>11, <2>2, <3>1, <3>3, <4>1 DEF OwnedAt
      <3>4. CASE k # c
        BY <1>2, <1>7, <2>2, <2>3, <3>1, <3>2, <3>4, DispatchersOf DEF OwnedAt
      <3> QED BY <3>3, <3>4
    <2>9. Showing'
      <3>1. \A k \in Client : k # c => (Shown(k))' /\ (Leaving(k))'
        BY <1>1, <1>2, <1>8, <2>2, ShowingKept DEF Following, Showing
      <3>2. (Shown(c))'
        BY <1>2, <1>10, <2>2, <2>4 DEF Shown
      <3>3. (Leaving(c))'
        <4>1. client[e] = c \/ \E x \in Dispatcher : Has(Down'[x], DestroyOnClient(c, e))
              \/ sock[c] # "open"
          <5>1. Pre(Down'[d], CreateOnClient(c, e), DestroyOnClient(c, e)) =>
                  Has(Down'[d], DestroyOnClient(c, e))
            BY DEF Pre, Has
          <5> QED BY <1>1, <1>7, <1>9, <5>1 DEF Following, Showing, Leaving
        <4> QED BY <1>2, <1>10, <2>2, <2>4, <4>1 DEF Leaving
      <3> QED BY <1>15, <3>1, <3>2, <3>3 DEF Showing
    <2>10. Ended'
      <3>1. \A k \in Client : owner'[k] = None => want'[k] = None
        BY <1>1, <1>2, <2>2, DispatchersOf DEF Ended
      <3>2. \A k \in Client : \A x, y \in view'[k] : x = y
        BY <1>1, <2>2, <2>4 DEF Ended
      <3> QED BY <1>1, <1>2, <2>1, <3>1, <3>2 DEF Ended
    <2> QED BY <1>13, <1>14, <2>6, <2>7, <2>8, <2>9, <2>10 DEF OwnerInv, Following
  <1>17. CASE owner[c] = None
    <2>1. UNCHANGED <<owner, view>> /\ toDisp' = Via(toDisp, e, Disconnected(c, e))
      BY <1>17 DEF OnCreateEntity
    <2>2. \A x \in Dispatcher, k \in Client : \A y \in Entity :
            /\ Has(Up'[x], Connected(k, y)) <=> Has(Up[x], Connected(k, y))
            /\ Pre(Up'[x], Connected(k, y), Connected(k, y))
                 <=> Pre(Up[x], Connected(k, y), Connected(k, y))
            /\ Has(Up'[x], Disconnected(k, y))
                 <=> \/ Has(Up[x], Disconnected(k, y))
                     \/ x = DispatcherOf[e] /\ k = c /\ y = e
      BY <1>2, <2>1, SendDisconnected
    <2>3. sock[c] = "shut"
      BY <1>1, <1>3, <1>10, <1>17 DEF Following, Closing, Waiting
    <2>4. \A k \in Client : ((Announces(k))' <=> Announces(k)) /\ ((Waiting(k))' <=> Waiting(k))
      BY <1>2, <2>2 DEF Announces, Waiting
    <2>5. Announcing'
      <3>1. \A k \in Client : (Waiting(k))' =>
              /\ view'[k] = {}
              /\ \A y \in Entity : client'[y] # k
              /\ \A x \in Dispatcher :
                   /\ \A y \in Entity : /\ ~Has(Down'[x], CreateOnClient(k, y))
                                        /\ ~Has(Down'[x], DestroyOnClient(k, y))
                   /\ \A v \in Val : ~Has(Down'[x], SetFilterProp(k, v))
        BY <1>1, <1>2, <1>5, <1>7, <2>1, <2>4 DEF Following, Announcing, SameFilters
      <3> QED BY <1>1, <1>2, <1>5, <2>1, <2>2, <2>4, <3>1 DEF Following, Announcing, SameNotices
    <2>6. Closing'
      BY <1>1, <1>2, <2>1, <2>2, <2>3 DEF Following, Closing
    <2>7. Owning'
      <3> SUFFICES ASSUME NEW y \in Entity, client[y] # None
                   PROVE  (OwnedAt(y, client[y]))'
        BY <1>2 DEF Owning
      <3>1. PICK k \in Client : k = client[y]
        BY <1>3
      <3>2. OwnedAt(y, k)
        BY <1>1, <3>1, DispatchersOf DEF Following, Owning
      <3>3. CASE k = c
        <4>1. y = e
          BY <1>10, <3>1, <3>3
        <4> QED BY <1>2, <1>10, <1>11, <1>17, <2>1, <2>2, <3>1, <3>3, <4>1 DEF OwnedAt
      <3>4. CASE k # c
        BY <1>2, <1>7, <2>1, <2>2, <3>1, <3>2, <3>4, DispatchersOf DEF OwnedAt
      <3> QED BY <3>3, <3>4
    <2>8. Showing'
      <3>1. \A k \in Client : k # c => (Shown(k))' /\ (Leaving(k))'
        BY <1>1, <1>2, <1>8, <2>1, ShowingKept DEF Following, Showing
      <3>2. (Shown(c))' /\ (Leaving(c))'
        BY <1>2, <1>17, <2>1, <2>3 DEF Shown, Leaving
      <3> QED BY <1>15, <3>1, <3>2 DEF Showing
    <2>9. Ended'
      <3>1. \A x \in Dispatcher : ~Has(toDisp'[x], GateDown)
        <4>1. \A x \in Dispatcher : Has(toDisp'[x], GateDown) <=> Has(toDisp[x], GateDown)
          BY <1>2, <2>1, SendDisconnected
        <4> QED BY <1>1, <4>1 DEF Ended
      <3> QED BY <1>1, <1>2, <2>1, <3>1 DEF Ended
    <2> QED BY <1>13, <1>14, <2>5, <2>6, <2>7, <2>8, <2>9 DEF OwnerInv, Following
  <1> QED BY <1>16, <1>17

\* The gate's wire only loses what the gate reads.
LEMMA GateReadsOnly ==
  ASSUME Inv, NEW d \in Dispatcher, HandleDispatcherClientPacket(d),
         NEW x \in Dispatcher, NEW m, Has(toGate'[x], m)
  PROVE  Has(toGate[x], m)
  <1>1. toGate \in Wire(Messages) /\ toGate[d] # <<>> /\ toGate' = [toGate EXCEPT ![d] = Tail(@)]
    BY DEF HandleDispatcherClientPacket, Inv, Typed
  <1>2. PICK t \in Seq(Messages) : t = toGate[d]
    BY <1>1 DEF Wire
  <1>3. Has(Tail(t), m) => Has(t, m)
    BY <1>1, <1>2, HoldsHead
  <1> QED BY <1>1, <1>2, <1>3 DEF Wire

\* What a message that does not come from the game's notices leaves alone.
LEMMA ReadKeeps ==
  ASSUME Inv, OwnerInv, NEW d \in Dispatcher, HandleDispatcherClientPacket(d),
         SameNotices(Down, Down'), SameCreates(Down, Down'),
         UNCHANGED <<sock, posts, owner, gate, toDisp, toGame, route, noticed, late, client,
                     live, chosen, used>>,
         \A k \in Client : view'[k] \subseteq view[k],
         \A x \in Dispatcher, k \in Client, y \in Entity :
           Has(Down'[x], DestroyOnClient(k, y)) => Has(Down[x], DestroyOnClient(k, y)),
         \A x \in Dispatcher, k \in Client, v \in Val :
           Has(Down'[x], SetFilterProp(k, v)) => Has(Down[x], SetFilterProp(k, v)),
         \A k \in Client : owner[k] = None => want'[k] = None
  PROVE  Ended' /\ Announcing' /\ Closing' /\ Routed' /\ Creating' /\ Owning'
  <1>1. gate /\ Ended /\ Following
    BY DEF OwnerInv, HandleDispatcherClientPacket
  <1>2. Up' = Up
    BY DEF Up, Joined
  <1>3. \A k \in Client : ((Announces(k))' <=> Announces(k)) /\ ((Waiting(k))' <=> Waiting(k))
    BY <1>2 DEF Announces, Waiting
  <1>4. Ended'
    BY <1>1 DEF Ended
  <1>5. Announcing'
    <2>1. \A k \in Client : (Waiting(k))' =>
            /\ view'[k] = {}
            /\ \A y \in Entity : client'[y] # k
            /\ \A x \in Dispatcher :
                 /\ \A y \in Entity : /\ ~Has(Down'[x], CreateOnClient(k, y))
                                      /\ ~Has(Down'[x], DestroyOnClient(k, y))
                 /\ \A v \in Val : ~Has(Down'[x], SetFilterProp(k, v))
      BY <1>1, <1>3 DEF Following, Announcing, SameCreates
    <2> QED BY <1>1, <1>2, <1>3, <2>1 DEF Following, Announcing, SameNotices
  <1>6. Closing'
    BY <1>1, <1>2 DEF Following, Closing
  <1>7. Routed'
    <2>1. \A x \in Dispatcher, y \in Entity : ~Has(toGate'[x], NotifyCreate(y))
      BY <1>1, GateReadsOnly DEF Following, Routed
    <2> QED BY <1>1, <2>1, DispatchersOf DEF Following, Routed, SameNotices, Inv, Typed
  <1>8. Creating'
    BY <1>1 DEF Following, Creating, SameCreates
  <1>9. Owning'
    <2> SUFFICES ASSUME NEW y \in Entity, client[y] # None
                 PROVE  (OwnedAt(y, client[y]))'
      BY DEF Owning
    <2>1. PICK k \in Client : k = client[y]
      BY DEF Inv, Typed
    <2>2. OwnedAt(y, k)
      BY <1>1, <2>1, DispatchersOf DEF Following, Owning
    <2> QED BY <1>2, <2>1, <2>2, DispatchersOf DEF OwnedAt, SameCreates
  <1> QED BY <1>4, <1>5, <1>6, <1>7, <1>8, <1>9

\* A client no longer shows what is taken away from it.
LEMMA DestroyReadOwner ==
  ASSUME Inv, OwnerInv, NEW d \in Dispatcher, HandleDispatcherClientPacket(d),
         NEW c \in Client, NEW e \in Entity, Head(toGate[d]) = DestroyOnClient(c, e),
         OnDestroyEntity(c, e)
  PROVE  OwnerInv'
  <1>1. gate /\ Ended /\ Following
    BY DEF OwnerInv, HandleDispatcherClientPacket
  <1>2. UNCHANGED <<sock, posts, owner, gate, toDisp, toGame, route, noticed, late, client, live,
                    chosen, used, want>>
    BY DEF HandleDispatcherClientPacket, OnDestroyEntity, dispVars, gameVars
  <1>3. /\ view \in [Client -> SUBSET Entity] /\ sock \in [Client -> {"new", "open", "shut"}]
        /\ client \in [Entity -> Client \cup {None}]
    BY DEF Inv, Typed
  <1>4. \A k \in Client :
          view'[k] = IF k = c /\ owner[c] # None THEN view[c] \ {e} ELSE view[k]
    BY <1>3 DEF OnDestroyEntity
  <1>5. Reads(Down, Down', d, DestroyOnClient(c, e))
    BY GateReads
  <1>6. /\ SameNotices(Down, Down') /\ SameFilters(Down, Down') /\ SameCreates(Down, Down')
        /\ TakesDestroy(Down, Down', d, c, e)
    BY <1>5, ReadTakesDestroy
  <1>7. Has(Down[d], DestroyOnClient(c, e))
    BY <1>6 DEF TakesDestroy
  <1>8. ~Waiting(c) /\ (sock[c] = "open" => owner[c] # None)
    <2>1. ~Waiting(c)
      BY <1>1, <1>7 DEF Following, Announcing
    <2> QED BY <1>1, <2>1 DEF Following, Closing, Waiting
  <1>9. Ended' /\ Announcing' /\ Closing' /\ Routed' /\ Creating' /\ Owning'
    <2>1. /\ \A k \in Client : view'[k] \subseteq view[k]
          /\ \A x \in Dispatcher, k \in Client, y \in Entity :
               Has(Down'[x], DestroyOnClient(k, y)) => Has(Down[x], DestroyOnClient(k, y))
          /\ \A x \in Dispatcher, k \in Client, v \in Val :
               Has(Down'[x], SetFilterProp(k, v)) => Has(Down[x], SetFilterProp(k, v))
          /\ \A k \in Client : owner[k] = None => want'[k] = None
      BY <1>1, <1>2, <1>4, <1>6 DEF TakesDestroy, SameFilters, Ended
    <2> QED BY <1>2, <1>6, <2>1, ReadKeeps
  <1>10. Filtering'
    BY <1>1, <1>2, <1>6, FilteringKept DEF Following
  <1>11. \A k \in Client : k # c => (Shown(k))' /\ (Taken(k))' /\ (Leaving(k))'
    <2>1. \A k \in Client : k # c => SameFor(Down, Down', k)
      BY <1>6 DEF SameFor, TakesDestroy, SameCreates
    <2> QED BY <1>1, <1>2, <1>4, <2>1, ShowingKept DEF Following, Showing
  <1>12. (Shown(c))'
    <2> SUFFICES ASSUME owner[c] # None
                 PROVE  /\ \A x \in Dispatcher, o \in Entity : Has(Down'[x], CreateOnClient(c, o)) =>
                             \A z \in view'[c] :
                               z = o \/ Pre(Down'[x], DestroyOnClient(c, z), CreateOnClient(c, o))
                        /\ \A y \in Entity :
                             client[y] = c /\ ~Has(Down'[DispatcherOf[y]], CreateOnClient(c, y)) =>
                               view'[c] \subseteq {y}
      BY <1>2 DEF Shown
    <2>1. \A z \in view'[c] : z \in view[c] /\ z # e /\ z \in Entity
      BY <1>3, <1>4
    <2>2. /\ \A x \in Dispatcher, o \in Entity : Has(Down[x], CreateOnClient(c, o)) =>
               \A z \in view[c] :
                 z = o \/ Pre(Down[x], DestroyOnClient(c, z), CreateOnClient(c, o))
          /\ \A y \in Entity :
               client[y] = c /\ ~Has(Down[DispatcherOf[y]], CreateOnClient(c, y)) =>
                 view[c] \subseteq {y}
      BY <1>1 DEF Following, Showing, Shown
    <2> QED BY <1>6, <2>1, <2>2, DispatchersOf DEF TakesDestroy, SameCreates
  <1>13. (Taken(c))'
    BY <1>1, <1>2, <1>6 DEF Following, Showing, Taken, TakesDestroy, SameCreates
  <1>14. (Leaving(c))'
    <2> SUFFICES ASSUME sock[c] = "open"
                 PROVE  /\ \A y \in Entity : client[y] = c =>
                             y \in view'[c] \/ Has(Down'[DispatcherOf[y]], CreateOnClient(c, y))
                        /\ \A z \in view'[c] : \/ client[z] = c
                                               \/ \E x \in Dispatcher : Has(Down'[x], DestroyOnClient(c, z))
                        /\ \A x \in Dispatcher, o \in Entity : Has(Down'[x], CreateOnClient(c, o)) =>
                             \/ client[o] = c
                             \/ Pre(Down'[x], CreateOnClient(c, o), DestroyOnClient(c, o))
      BY <1>2 DEF Leaving
    <2>1. \A z \in view'[c] : z \in view[c] /\ z # e /\ z \in Entity
      BY <1>3, <1>4, <1>8
    <2>2. /\ \A y \in Entity : client[y] = c =>
               y \in view[c] \/ Has(Down[DispatcherOf[y]], CreateOnClient(c, y))
          /\ \A z \in view[c] : \/ client[z] = c
                                \/ \E x \in Dispatcher : Has(Down[x], DestroyOnClient(c, z))
          /\ \A x \in Dispatcher, o \in Entity : Has(Down[x], CreateOnClient(c, o)) =>
               \/ client[o] = c
               \/ Pre(Down[x], CreateOnClient(c, o), DestroyOnClient(c, o))
      BY <1>1 DEF Following, Showing, Leaving
    <2>3. \A y \in Entity : client[y] = c =>
            y \in view'[c] \/ Has(Down'[DispatcherOf[y]], CreateOnClient(c, y))
      <3> SUFFICES ASSUME NEW y \in Entity, client[y] = c
                   PROVE  y \in view'[c] \/ Has(Down'[DispatcherOf[y]], CreateOnClient(c, y))
        OBVIOUS
      <3>1. CASE y = e
        <4>1. Has(Down[d], CreateOnClient(c, e))
          BY <1>1, <1>7, <3>1 DEF Following, Showing, Taken
        <4>2. d = DispatcherOf[e]
          BY <1>1, <4>1 DEF Following, Creating
        <4> QED BY <1>6, <3>1, <4>1, <4>2 DEF SameCreates
      <3>2. CASE y # e
        BY <1>4, <1>6, <1>8, <2>2, <3>2, DispatchersOf DEF SameCreates
      <3> QED BY <3>1, <3>2
    <2>4. \A z \in view'[c] : \/ client[z] = c
                              \/ \E x \in Dispatcher : Has(Down'[x], DestroyOnClient(c, z))
      BY <1>6, <2>1, <2>2 DEF TakesDestroy
    <2>5. \A x \in Dispatcher, o \in Entity : Has(Down'[x], CreateOnClient(c, o)) =>
            \/ client[o] = c
            \/ Pre(Down'[x], CreateOnClient(c, o), DestroyOnClient(c, o))
      BY <1>6, <2>2 DEF TakesDestroy, SameCreates
    <2> QED BY <2>3, <2>4, <2>5
  <1>15. Showing'
    BY <1>11, <1>12, <1>13, <1>14 DEF Showing
  <1> QED BY <1>9, <1>10, <1>15 DEF OwnerInv, Following

\* The gate does what the last message about a client's filter property says.
LEMMA FilterReadOwner ==
  ASSUME Inv, OwnerInv, NEW d \in Dispatcher, HandleDispatcherClientPacket(d),
         NEW c \in Client, NEW m \in FilterMessages(c), Head(toGate[d]) = m,
         UNCHANGED <<owner, toDisp, view>>,
         \/ \E v \in Val : m = SetFilterProp(c, v) /\ want' = [want EXCEPT ![c] = v] /\ owner[c] # None
         \/ m = ClearFilterProps(c) /\ want' = [want EXCEPT ![c] = None]
         \/ want' = want /\ owner[c] = None
  PROVE  OwnerInv'
  <1>1. gate /\ Ended /\ Following
    BY DEF OwnerInv, HandleDispatcherClientPacket
  <1>2. UNCHANGED <<sock, posts, owner, gate, toDisp, toGame, route, noticed, late, client, live,
                    chosen, used, view>>
    BY DEF HandleDispatcherClientPacket, dispVars, gameVars
  <1>3. want \in [Client -> Val \cup {None}] /\ client \in [Entity -> Client \cup {None}]
    BY DEF Inv, Typed
  <1>4. /\ SameNotices(Down, Down') /\ SameCreates(Down, Down') /\ SameDestroys(Down, Down')
        /\ TakesFilter(Down, Down', d, c, m)
    BY GateReads, ReadTakesFilter
  <1>5. /\ \A k \in Client : k # c => want'[k] = want[k]
        /\ \/ \E v \in Val : m = SetFilterProp(c, v) /\ want'[c] = v /\ owner[c] # None
           \/ want'[c] = None
    <2>1. owner[c] = None => want[c] = None
      BY <1>1 DEF Ended
    <2> QED BY <1>3, <2>1
  <1>6. Ended' /\ Announcing' /\ Closing' /\ Routed' /\ Creating' /\ Owning'
    <2>1. /\ \A k \in Client : view'[k] \subseteq view[k]
          /\ \A x \in Dispatcher, k \in Client, y \in Entity :
               Has(Down'[x], DestroyOnClient(k, y)) => Has(Down[x], DestroyOnClient(k, y))
          /\ \A x \in Dispatcher, k \in Client, v \in Val :
               Has(Down'[x], SetFilterProp(k, v)) => Has(Down[x], SetFilterProp(k, v))
      BY <1>2, <1>4 DEF TakesFilter, SameDestroys
    <2>2. \A k \in Client : owner[k] = None => want'[k] = None
      BY <1>1, <1>5 DEF Ended
    <2> QED BY <1>2, <1>4, <2>1, <2>2, ReadKeeps
  <1>7. Showing'
    <2>1. \A k \in Client : SameFor(Down, Down', k)
      BY <1>4 DEF SameFor, SameCreates, SameDestroys
    <2> QED BY <1>1, <1>2, <2>1, ShowingKept DEF Following, Showing
  <1>8. Filtering'
    <2> SUFFICES ASSUME NEW e \in Entity, client[e] # None
                 PROVE  /\ \A x \in Dispatcher, v \in Val :
                             Final(Down'[x], SetFilterProp(client[e], v), FilterMessages(client[e])) =>
                               x = DispatcherOf[e] /\ v = chosen[e]
                        /\ \/ want'[client[e]] \in {None, chosen[e]}
                           \/ \E x \in Dispatcher : \E n \in FilterMessages(client[e]) : Has(Down'[x], n)
      BY <1>2 DEF Filtering
    <2>1. PICK k \in Client : k = client[e]
      BY <1>3
    <2>2. /\ \A x \in Dispatcher, v \in Val :
               Final(Down[x], SetFilterProp(k, v), FilterMessages(k)) =>
                 x = DispatcherOf[e] /\ v = chosen[e]
          /\ \/ want[k] \in {None, chosen[e]}
             \/ \E x \in Dispatcher : \E n \in FilterMessages(k) : Has(Down[x], n)
      BY <1>1, <2>1, DispatchersOf DEF Following, Filtering
    <2>3. \A x \in Dispatcher, v \in Val :
            Final(Down'[x], SetFilterProp(k, v), FilterMessages(k)) =>
              x = DispatcherOf[e] /\ v = chosen[e]
      BY <1>4, <2>2 DEF TakesFilter
    <2>4. \/ want'[k] \in {None, chosen[e]}
          \/ \E x \in Dispatcher : \E n \in FilterMessages(k) : Has(Down'[x], n)
      <3>1. CASE k # c
        <4>1. \A x \in Dispatcher : \A n \in FilterMessages(k) : Has(Down'[x], n) <=> Has(Down[x], n)
          BY <1>4, <3>1 DEF TakesFilter, FilterMessages
        <4> QED BY <1>5, <2>2, <3>1, <4>1
      <3>2. CASE k = c /\ \E n \in FilterMessages(c) : Has(Down'[d], n)
        BY <3>2
      <3>3. CASE k = c /\ Final(Down[d], m, FilterMessages(c))
        BY <1>5, <2>2, <3>3
      <3> QED BY <1>4, <3>1, <3>2, <3>3 DEF TakesFilter
    <2> QED BY <2>1, <2>3, <2>4
  <1> QED BY <1>6, <1>7, <1>8 DEF OwnerInv, Following

LEMMA HandleDispatcherClientPacketOwner ==
  ASSUME Inv, OwnerInv, NEW d \in Dispatcher, HandleDispatcherClientPacket(d)
  PROVE  OwnerInv'
  <1>1. PICK m \in Messages : m = Head(toGate[d])
    BY GateReads
  <1>2. \/ m.type = "createOnClient" /\ OnCreateEntity(m.client, m.entity)
        \/ m.type = "destroyOnClient" /\ OnDestroyEntity(m.client, m.entity)
        \/ m.type = "setFilterProp" /\ OnSetFilterProp(m.client, m.val)
        \/ m.type = "clearFilterProps" /\ OnClearFilterProps(m.client)
        \/ m.type \in {"setFilterProp", "clearFilterProps"} /\ OnAbsentProxy(m.client)
    BY <1>1 DEF HandleDispatcherClientPacket
  <1>3. CASE m.type = "createOnClient" /\ OnCreateEntity(m.client, m.entity)
    <2>1. PICK c \in Client, e \in Entity : c = m.client /\ e = m.entity
      BY <1>3, MessageFields
    <2>2. Head(toGate[d]) = CreateOnClient(c, e) /\ OnCreateEntity(c, e)
      BY <1>1, <1>3, <2>1, MessageIs
    <2> QED BY <2>2, CreateReadOwner
  <1>4. CASE m.type = "destroyOnClient" /\ OnDestroyEntity(m.client, m.entity)
    <2>1. PICK c \in Client, e \in Entity : c = m.client /\ e = m.entity
      BY <1>4, MessageFields
    <2>2. Head(toGate[d]) = DestroyOnClient(c, e) /\ OnDestroyEntity(c, e)
      BY <1>1, <1>4, <2>1, MessageIs
    <2> QED BY <2>2, DestroyReadOwner
  <1>5. CASE m.type = "setFilterProp"
    <2>1. PICK c \in Client, v \in Val : c = m.client /\ v = m.val
      BY <1>5, MessageFields
    <2>2. m = SetFilterProp(c, v) /\ m \in FilterMessages(c)
      BY <1>5, <2>1, MessageIs DEF FilterMessages
    <2>3. OnSetFilterProp(c, v) \/ OnAbsentProxy(c)
      BY <1>2, <1>5, <2>1
    <2>4. /\ UNCHANGED <<owner, toDisp, view>>
          /\ \/ want' = [want EXCEPT ![c] = v] /\ owner[c] # None
             \/ want' = want /\ owner[c] = None
      BY <2>3 DEF OnSetFilterProp, OnAbsentProxy
    <2> QED BY <1>1, <2>2, <2>4, FilterReadOwner
  <1>6. CASE m.type = "clearFilterProps"
    <2>1. PICK c \in Client : c = m.client
      BY <1>6, MessageFields
    <2>2. m = ClearFilterProps(c) /\ m \in FilterMessages(c)
      BY <1>6, <2>1, MessageIs DEF FilterMessages
    <2>3. OnClearFilterProps(c) \/ OnAbsentProxy(c)
      BY <1>2, <1>6, <2>1
    <2>4. /\ UNCHANGED <<owner, toDisp, view>>
          /\ \/ want' = [want EXCEPT ![c] = None]
             \/ want' = want /\ owner[c] = None
      BY <2>3 DEF OnClearFilterProps, OnAbsentProxy
    <2> QED BY <1>1, <2>2, <2>4, FilterReadOwner
  <1> QED BY <1>2, <1>3, <1>4, <1>5, <1>6

-----------------------------------------------------------------------------
(* The end of the gate, and the dispatchers                                 *)

LEMMA GateDiesOwner ==
  ASSUME Inv, OwnerInv, GateDies
  PROVE  OwnerInv'
  <1>1. gate /\ gate' = FALSE /\ Ended
    BY DEF OwnerInv, GateDies
  <1>2. UNCHANGED <<toGame, route, noticed, late, client, live, chosen, used, view>>
    BY DEF GateDies, dispVars, gameVars
  <1>3. \A c \in Client : sock'[c] # "open" /\ owner'[c] = None /\ want'[c] = None
    BY DEF GateDies
  <1>4. \A d \in Dispatcher : ~Has(toDisp'[d], GateDown)
    <2> SUFFICES ASSUME NEW d \in Dispatcher, Has(toDisp'[d], GateDown)
                 PROVE  FALSE
      OBVIOUS
    <2>1. PICK q \in [Dispatcher -> UNION {Prefixes(toDisp[x]) : x \in Dispatcher}] : toDisp' = q
      BY DEF GateDies
    <2>2. PICK x \in Dispatcher : q[d] \in Prefixes(toDisp[x])
      BY <2>1
    <2>3. PICK s \in Seq(Messages) : s = toDisp[x]
      BY WiresTyped DEF Wire
    <2>4. PICK n \in 0 .. Len(s) : q[d] = SubSeq(s, 1, n)
      BY <2>2, <2>3 DEF Prefixes
    <2>5. Has(SubSeq(s, 1, n), GateDown) => Has(s, GateDown)
      BY <2>4 DEF Has
    <2> QED BY <1>1, <2>1, <2>3, <2>4, <2>5 DEF Ended
  <1>5. Ended'
    <2>1. \A e \in Entity : client[e] # None => \E d \in Dispatcher : d \notin noticed
      BY <1>1, DispatchersOf DEF Ended
    <2>2. \A d \in Dispatcher : d \notin noticed
      BY <1>1 DEF Ended
    <2>3. /\ gate' => noticed' = {}
          /\ ~gate' => \A c \in Client : sock'[c] # "open" /\ owner'[c] = None
          /\ \A c \in Client : owner'[c] = None => want'[c] = None
          /\ \A c \in Client : \A x, y \in view'[c] : x = y
      BY <1>1, <1>2, <1>3 DEF Ended
    <2> QED BY <1>1, <1>2, <1>4, <2>1, <2>2, <2>3 DEF Ended
  <1> QED BY <1>1, <1>5 DEF OwnerInv

\* A dispatcher forwards or drops what the gate says, and marks what comes too late.
LEMMA ServeGateEnded ==
  ASSUME Inv, Ended, NEW d \in Dispatcher, ServeGate(d)
  PROVE  Ended'
  <1>1. /\ toDisp[d] # <<>> /\ toDisp' = [toDisp EXCEPT ![d] = Tail(@)]
        /\ UNCHANGED <<sock, owner, gate, want, noticed, client, view>>
    BY DEF ServeGate, gateVars, gameVars
  <1>2. toDisp \in Wire(Messages) /\ toGame \in Wire(Messages)
    BY WiresTyped
  <1>3. PICK m \in Messages : m = Head(toDisp[d])
    BY <1>1, <1>2, TailTyped
  <1>4. /\ \/ toGame' = [toGame EXCEPT ![d] = Append(@, m)]
           \/ toGame' = toGame
        /\ late' = IF m.type = "connected" /\ d \in noticed THEN late \cup {m.client} ELSE late
    BY <1>3 DEF ServeGate
  <1>5. PICK t \in Seq(Messages) : t = toDisp[d]
    BY <1>2 DEF Wire
  <1>6. t # <<>> /\ \A n : Has(t, n) <=> Has(Tail(t), n) \/ n = m
    BY <1>1, <1>3, <1>5, HoldsHead
  <1>7. \A x \in Dispatcher : \A n : Has(toDisp'[x], n) => Has(toDisp[x], n)
    BY <1>1, <1>2, <1>5, <1>6 DEF Wire
  <1>8. m # GateDown
    BY <1>5, <1>6 DEF Ended
  <1>9. PICK s \in Seq(Messages) : s = toGame[d]
    BY <1>2 DEF Wire
  <1>10. ASSUME NEW n, NEW p
         PROVE  /\ Has(Append(s, m), n) <=> Has(s, n) \/ n = m
                /\ Pre(Append(s, m), n, p) <=> Pre(s, n, p) \/ (Has(s, n) /\ p = m)
    <2>1. Extends(Append(s, m), s, m)
      BY HoldsAppended
    <2> QED BY <2>1 DEF Extends
  <1>11. \A x \in Dispatcher : x # d => toGame'[x] = toGame[x]
    BY <1>2, <1>4 DEF Wire
  <1>12. toGame'[d] = s \/ toGame'[d] = Append(s, m)
    BY <1>2, <1>4, <1>9 DEF Wire
  <1>13. \A x \in Dispatcher : Has(toGame'[x], GateDown) <=> Has(toGame[x], GateDown)
    BY <1>8, <1>9, <1>10, <1>11, <1>12
  <1>14. ASSUME NEW x \in Dispatcher, NEW c \in Client, NEW b \in Entity,
                Has(toGame'[x], Connected(c, b))
         PROVE  \/ c \in late'
                \/ /\ ~Pre(toGame'[x], GateDown, Connected(c, b))
                   /\ x \notin noticed' \/ Has(toGame'[x], GateDown)
    <2>1. CASE toGame'[x] = toGame[x]
      BY <1>1, <1>4, <1>14, <2>1 DEF Ended
    <2>2. CASE x = d /\ toGame'[d] = Append(s, m) /\ Connected(c, b) # m
      <3>1. Has(s, Connected(c, b))
        BY <1>10, <1>14, <2>2
      <3>2. Pre(toGame'[d], GateDown, Connected(c, b)) <=> Pre(s, GateDown, Connected(c, b))
        BY <1>10, <2>2
      <3> QED BY <1>1, <1>4, <1>9, <1>13, <2>2, <3>1, <3>2 DEF Ended
    <2>3. CASE x = d /\ toGame'[d] = Append(s, m) /\ Connected(c, b) = m /\ d \in noticed
      <3>1. m.type = "connected" /\ m.client = c
        BY <2>3 DEF Connected
      <3> QED BY <1>4, <2>3, <3>1
    <2>4. CASE x = d /\ toGame'[d] = Append(s, m) /\ Connected(c, b) = m /\ d \notin noticed
      <3>1. ~Has(s, GateDown)
        BY <1>9, <2>4 DEF Ended
      <3>2. ~Pre(s, GateDown, Connected(c, b))
        BY <3>1 DEF Pre, Has
      <3>3. ~Pre(toGame'[d], GateDown, Connected(c, b))
        BY <1>10, <2>4, <3>1, <3>2
      <3> QED BY <1>1, <2>4, <3>3
    <2> QED BY <1>9, <1>11, <1>12, <2>1, <2>2, <2>3, <2>4
  <1>15. ~gate' => \A e \in Entity : client'[e] # None =>
           \/ client'[e] \in late'
           \/ \E x \in Dispatcher : x \notin noticed' \/ Has(toGame'[x], GateDown)
    BY <1>1, <1>4, <1>13 DEF Ended
  <1>16. \A x \in Dispatcher : /\ ~Has(toDisp'[x], GateDown)
                               /\ x \notin noticed' => ~Has(toGame'[x], GateDown)
    BY <1>1, <1>7, <1>13 DEF Ended
  <1> QED BY <1>1, <1>14, <1>15, <1>16 DEF Ended

\* What the notices of the gate say is the same, but for a disconnect to nobody.
LEMMA UpKept ==
  ASSUME Inv, Following,
         UNCHANGED <<sock, posts, owner, want, route, client, live, chosen, used, view>>,
         Down' = Down, UNCHANGED toGate,
         \A d \in Dispatcher, c \in Client : \A e \in Entity :
           /\ Has(Up'[d], Connected(c, e)) <=> Has(Up[d], Connected(c, e))
           /\ Pre(Up'[d], Connected(c, e), Connected(c, e))
                <=> Pre(Up[d], Connected(c, e), Connected(c, e))
           /\ Has(Up'[d], Disconnected(c, e)) => Has(Up[d], Disconnected(c, e))
           /\ Has(Up[d], Disconnected(c, e)) /\ e \in route => Has(Up'[d], Disconnected(c, e))
  PROVE  Following'
  <1>1. \A k \in Client : ((Announces(k))' <=> Announces(k)) /\ ((Waiting(k))' <=> Waiting(k))
    BY DEF Announces, Waiting
  <1>2. Announcing'
    BY <1>1 DEF Following, Announcing
  <1>3. Closing'
    BY DEF Following, Closing
  <1>4. Routed' /\ Creating' /\ Filtering'
    BY DEF Following, Routed, Creating, Filtering
  <1>5. Owning'
    <2> SUFFICES ASSUME NEW y \in Entity, client[y] # None
                 PROVE  (OwnedAt(y, client[y]))'
      BY DEF Owning
    <2>1. PICK k \in Client : k = client[y]
      BY DEF Inv, Typed
    <2>2. OwnedAt(y, k)
      BY <2>1, DispatchersOf DEF Following, Owning
    <2> QED BY <2>1, <2>2, DispatchersOf DEF OwnedAt
  <1>6. Showing'
    BY DEF Following, Showing, Shown, Taken, Leaving
  <1> QED BY <1>2, <1>3, <1>4, <1>5, <1>6 DEF Following

LEMMA ServeGateOwner ==
  ASSUME Inv, OwnerInv, NEW d \in Dispatcher, ServeGate(d)
  PROVE  OwnerInv'
  <1>1. Ended'
    BY ServeGateEnded DEF OwnerInv
  <1>2. UNCHANGED <<sock, posts, owner, gate, want, route, client, live, chosen, used, view,
                    fromGame, toGate>>
    BY DEF ServeGate, gateVars, gameVars
  <1>3. Down' = Down
    BY <1>2 DEF Down, Joined
  <1>4. PICK a, b \in Wire(Messages) : a = toGame /\ b = toDisp
    BY WiresTyped
  <1>5. b[d] # <<>> /\ toDisp' = [b EXCEPT ![d] = Tail(@)]
    BY <1>4 DEF ServeGate
  <1>6. ASSUME gate PROVE Following'
    <2>1. Following
      BY <1>6 DEF OwnerInv
    <2>2. CASE toGame' = [a EXCEPT ![d] = Append(@, Head(b[d]))]
      <3>1. Up' = Up
        <4>1. PICK a2, b2 : a2 = toGame' /\ b2 = toDisp'
          OBVIOUS
        <4>2. /\ a2[d] = Append(a[d], Head(b[d])) /\ b2[d] = Tail(b[d])
              /\ \A x \in Dispatcher : x # d => a2[x] = a[x] /\ b2[x] = b[x]
          BY <1>5, <2>2, <4>1 DEF Wire
        <4>3. Joined(a2, b2) = Joined(a, b)
          BY <1>5, <4>2, JoinedForward
        <4> QED BY <1>4, <4>1, <4>3 DEF Up
      <3> QED BY <1>2, <1>3, <2>1, <3>1, UpKept
    <2>3. CASE toGame' = a /\ Head(b[d]).type # "connected" /\ Head(b[d]).entity \notin route
      <3>1. PICK m : m = Head(b[d])
        OBVIOUS
      <3>2. Drops(Up, Up', d, m)
        <4>1. PICK b2 : b2 = toDisp'
          OBVIOUS
        <4>2. Drops(Joined(a, b), Joined(a, b2), d, m)
          BY <1>5, <3>1, <4>1, JoinedDrop
        <4> QED BY <1>4, <2>3, <4>1, <4>2 DEF Up
      <3>3. /\ \A c, e : Connected(c, e) # m
            /\ \A c, e : e \in route => Disconnected(c, e) # m
        BY <2>3, <3>1 DEF Connected, Disconnected
      <3>4. \A x \in Dispatcher, c \in Client : \A e \in Entity :
              /\ Has(Up'[x], Connected(c, e)) <=> Has(Up[x], Connected(c, e))
              /\ Pre(Up'[x], Connected(c, e), Connected(c, e))
                   <=> Pre(Up[x], Connected(c, e), Connected(c, e))
              /\ Has(Up[x], Disconnected(c, e)) /\ e \in route => Has(Up'[x], Disconnected(c, e))
        BY <3>2, <3>3 DEF Drops, Besides
      <3>5. \A x \in Dispatcher : \A n : Has(Up'[x], n) => Has(Up[x], n)
        BY <3>2 DEF Drops
      <3> QED BY <1>2, <1>3, <2>1, <3>4, <3>5, UpKept
    <2> QED BY <1>4, <2>2, <2>3 DEF ServeGate
  <1> QED BY <1>1, <1>2, <1>6 DEF OwnerInv

LEMMA GateDisconnectedOwner ==
  ASSUME Inv, OwnerInv, NEW d \in Dispatcher, GateDisconnected(d)
  PROVE  OwnerInv'
  <1>1. ~gate /\ Ended /\ d \notin noticed
    BY DEF OwnerInv, GateDisconnected
  <1>2. /\ UNCHANGED <<sock, owner, gate, want, toDisp, late, client, view>>
        /\ noticed' = noticed \cup {d}
        /\ toGame' = [toGame EXCEPT ![d] = Append(@, GateDown)]
    BY DEF GateDisconnected, gateVars, gameVars
  <1>3. PICK s \in Seq(Messages) : s = toGame[d]
    BY WiresTyped DEF Wire
  <1>4. toGame'[d] = Append(s, GateDown) /\ \A x \in Dispatcher : x # d => toGame'[x] = toGame[x]
    BY <1>2, <1>3, WiresTyped DEF Wire
  <1>5. GateDown \in Messages
    BY DEF Messages
  <1>6. ASSUME NEW n, NEW p
        PROVE  /\ Has(Append(s, GateDown), n) <=> Has(s, n) \/ n = GateDown
               /\ Pre(Append(s, GateDown), n, p) <=> Pre(s, n, p) \/ (Has(s, n) /\ p = GateDown)
    <2>1. Extends(Append(s, GateDown), s, GateDown)
      BY <1>5, HoldsAppended
    <2> QED BY <2>1 DEF Extends
  <1>7. \A c, b : Connected(c, b) # GateDown
    BY MessageTypes
  <1>8. ASSUME NEW x \in Dispatcher, NEW c \in Client, NEW b \in Entity,
               Has(toGame'[x], Connected(c, b))
        PROVE  \/ c \in late
               \/ /\ ~Pre(toGame'[x], GateDown, Connected(c, b))
                  /\ x \notin noticed' \/ Has(toGame'[x], GateDown)
    <2>1. CASE x # d
      BY <1>1, <1>2, <1>4, <1>8, <2>1 DEF Ended
    <2>2. CASE x = d
      <3>1. Has(s, Connected(c, b)) /\ Has(toGame'[d], GateDown)
        BY <1>4, <1>6, <1>7, <1>8, <2>2
      <3>2. Pre(toGame'[d], GateDown, Connected(c, b)) <=> Pre(s, GateDown, Connected(c, b))
        BY <1>4, <1>6, <1>7
      <3> QED BY <1>1, <1>3, <2>2, <3>1, <3>2 DEF Ended
    <2> QED BY <2>1, <2>2
  <1>9. Has(toGame'[d], GateDown)
    BY <1>4, <1>6
  <1>10. \A x \in Dispatcher : x \notin noticed' => ~Has(toGame'[x], GateDown)
    BY <1>1, <1>2, <1>4 DEF Ended
  <1>11. Ended'
    BY <1>1, <1>2, <1>8, <1>9, <1>10 DEF Ended
  <1> QED BY <1>1, <1>2, <1>11 DEF OwnerInv

\* What the dispatcher forwards to the gate.
LEMMA ForwardOwner ==
  ASSUME Inv, Following, NEW d \in Dispatcher, NEW m \in Messages,
         m.type \notin {"created", "destroyed"},
         UNCHANGED <<sock, posts, owner, want, route, client, live, chosen, used, view>>,
         Up' = Up, Down' = Down, toGate' = [toGate EXCEPT ![d] = Append(@, m)]
  PROVE  Following'
  <1>1. \A k \in Client : ((Announces(k))' <=> Announces(k)) /\ ((Waiting(k))' <=> Waiting(k))
    BY DEF Announces, Waiting
  <1>2. Announcing' /\ Closing' /\ Creating' /\ Filtering'
    BY <1>1 DEF Following, Announcing, Closing, Creating, Filtering
  <1>3. Owning' /\ Showing'
    BY DEF Following, Owning, OwnedAt, Showing, Shown, Taken, Leaving
  <1>4. Routed'
    <2>1. \A x \in Dispatcher, y \in Entity : ~Has(toGate'[x], NotifyCreate(y))
      <3> SUFFICES ASSUME NEW x \in Dispatcher, NEW y \in Entity, Has(toGate'[x], NotifyCreate(y))
                   PROVE  FALSE
        OBVIOUS
      <3>1. PICK s \in Seq(Messages) : s = toGate[d]
        BY WiresTyped DEF Wire
      <3>2. Has(Append(s, m), NotifyCreate(y)) <=> Has(s, NotifyCreate(y)) \/ NotifyCreate(y) = m
        <4>1. Extends(Append(s, m), s, m)
          BY HoldsAppended
        <4> QED BY <4>1 DEF Extends
      <3>3. NotifyCreate(y) # m
        BY MessageTypes
      <3>4. toGate'[x] = IF x = d THEN Append(s, m) ELSE toGate[x]
        BY <3>1, WiresTyped DEF Wire
      <3>5. Has(toGate[x], NotifyCreate(y))
        BY <3>1, <3>2, <3>3, <3>4
      <3> QED BY <3>5 DEF Following, Routed
    <2> QED BY <2>1 DEF Following, Routed
  <1> QED BY <1>2, <1>3, <1>4 DEF Following

\* The dispatcher makes or deletes a route, as the game told it.
LEMMA RouteOwner ==
  ASSUME Inv, Following, NEW d \in Dispatcher, NEW e \in Entity, NEW m, Drops(Down, Down', d, m),
         \/ m = NotifyCreate(e) /\ route' = route \cup {e}
         \/ m = NotifyDestroy(e) /\ route' = route \ {e},
         UNCHANGED <<sock, posts, owner, want, client, live, chosen, used, view, toGate>>,
         Up' = Up
  PROVE  Following'
  <1>1. m.type \in {"created", "destroyed"}
    BY MessageTypes
  <1>2. SameDestroys(Down, Down') /\ SameFilters(Down, Down')
    BY <1>1, BesidesKinds DEF Drops
  <1>3. /\ \A k, y : CreateOnClient(k, y) # m
        /\ \A y : y # e => NotifyCreate(y) # m /\ NotifyDestroy(y) # m
    <2>1. \A k, y : CreateOnClient(k, y).type = "createOnClient"
      BY MessageTypes
    <2>2. \A y : y # e => NotifyCreate(y) # m /\ NotifyDestroy(y) # m
      BY DEF NotifyCreate, NotifyDestroy
    <2> QED BY <1>1, <2>1, <2>2
  <1>4. \A x \in Dispatcher, k \in Client, y \in Entity :
          /\ Has(Down'[x], CreateOnClient(k, y)) <=> Has(Down[x], CreateOnClient(k, y))
          /\ Pre(Down'[x], CreateOnClient(k, y), CreateOnClient(k, y))
               <=> Pre(Down[x], CreateOnClient(k, y), CreateOnClient(k, y))
          /\ y # e => (Pre(Down'[x], NotifyCreate(y), CreateOnClient(k, y))
                         <=> Pre(Down[x], NotifyCreate(y), CreateOnClient(k, y)))
          /\ m # NotifyCreate(e) => (Pre(Down'[x], NotifyCreate(y), CreateOnClient(k, y))
                                       <=> Pre(Down[x], NotifyCreate(y), CreateOnClient(k, y)))
    BY <1>3 DEF Drops, Besides
  <1>5. \A x \in Dispatcher : \A n : Has(Down'[x], n) => Has(Down[x], n)
    BY DEF Drops
  <1>6. \A x \in Dispatcher, y \in Entity : y # e =>
          /\ Has(Down'[x], NotifyCreate(y)) <=> Has(Down[x], NotifyCreate(y))
          /\ Has(Down'[x], NotifyDestroy(y)) <=> Has(Down[x], NotifyDestroy(y))
    BY <1>3 DEF Drops, Besides
  <1>7. Has(Down[d], m) /\ e \in used
    <2>1. Has(Down[d], m)
      BY DEF Drops
    <2> QED BY <2>1 DEF Following, Routed
  <1>8. m = NotifyDestroy(e) => e \notin live
    BY <1>7 DEF Following, Routed
  <1>9. \A k \in Client : ((Announces(k))' <=> Announces(k)) /\ ((Waiting(k))' <=> Waiting(k))
    BY DEF Announces, Waiting
  <1>10. Announcing'
    <2>1. \A x \in Dispatcher, c \in Client, b \in Entity : Has(Up[x], Connected(c, b)) =>
            /\ b \notin route'
            /\ \A z \in Dispatcher : ~Has(Down'[z], NotifyCreate(b)) /\ ~Has(Down'[z], NotifyDestroy(b))
      BY <1>5, <1>7 DEF Following, Announcing
    <2>2. \A k \in Client : (Waiting(k))' =>
            /\ view'[k] = {}
            /\ \A y \in Entity : client'[y] # k
            /\ \A x \in Dispatcher :
                 /\ \A y \in Entity : /\ ~Has(Down'[x], CreateOnClient(k, y))
                                      /\ ~Has(Down'[x], DestroyOnClient(k, y))
                 /\ \A v \in Val : ~Has(Down'[x], SetFilterProp(k, v))
      BY <1>5, <1>9 DEF Following, Announcing
    <2> QED BY <1>9, <2>1, <2>2 DEF Following, Announcing
  <1>11. Closing' /\ Filtering'
    BY <1>2, FilteringKept DEF Following, Closing
  <1>12. Routed'
    <2>1. route' \subseteq used'
      BY <1>7 DEF Following, Routed
    <2>2. \A y \in Entity, x \in Dispatcher :
            /\ Has(Down'[x], NotifyCreate(y)) \/ Has(Down'[x], NotifyDestroy(y)) => y \in used'
            /\ y \in live' => ~Has(Down'[x], NotifyDestroy(y))
            /\ ~Has(toGate'[x], NotifyCreate(y))
      BY <1>5 DEF Following, Routed
    <2>3. \A y \in live' : y \in route' \/ Has(Down'[DispatcherOf[y]], NotifyCreate(y))
      <3>1. \A y \in live : y \in Entity /\ DispatcherOf[y] \in Dispatcher
        BY DispatchersOf DEF Inv, Typed
      <3>2. \A y \in live : y # e => y \in route' \/ Has(Down'[DispatcherOf[y]], NotifyCreate(y))
        BY <1>6, <3>1 DEF Following, Routed
      <3>3. e \in live => e \in route'
        BY <1>8
      <3> QED BY <3>2, <3>3
    <2> QED BY <2>1, <2>2, <2>3 DEF Routed
  <1>13. \A y \in Entity : client[y] # None /\ y \in route => y \in route'
    BY <1>8 DEF Following, Creating
  <1>14. Creating'
    <2>1. ASSUME NEW x \in Dispatcher, NEW k \in Client, NEW y \in Entity,
                 Has(Down'[x], CreateOnClient(k, y)), client[y] = k
          PROVE  y \in route' \/ Pre(Down'[x], NotifyCreate(y), CreateOnClient(k, y))
      <3>1. y \in route \/ Pre(Down[x], NotifyCreate(y), CreateOnClient(k, y))
        BY <1>4, <2>1 DEF Following, Creating
      <3>2. k # None
        BY DispatchersOf
      <3>3. NotifyDestroy(e) # NotifyCreate(e)
        BY MessageTypes
      <3>4. CASE m = NotifyCreate(e) /\ y = e
        BY <3>3, <3>4
      <3>5. CASE m # NotifyCreate(e) \/ y # e
        BY <1>4, <1>13, <2>1, <3>1, <3>2, <3>5
      <3> QED BY <3>4, <3>5
    <2> QED BY <1>4, <2>1 DEF Following, Creating
  <1>15. Owning'
    <2> SUFFICES ASSUME NEW y \in Entity, client[y] # None
                 PROVE  (OwnedAt(y, client[y]))'
      BY DEF Owning
    <2>1. PICK k \in Client : k = client[y]
      BY DEF Inv, Typed
    <2>2. OwnedAt(y, k)
      BY <2>1, DispatchersOf DEF Following, Owning
    <2> QED BY <1>4, <1>13, <2>1, <2>2, DispatchersOf DEF OwnedAt
  <1>16. Showing'
    <2>1. \A k \in Client : SameFor(Down, Down', k)
      BY <1>2, <1>4 DEF SameFor, SameDestroys
    <2> QED BY <2>1, ShowingKept DEF Following, Showing
  <1> QED BY <1>10, <1>11, <1>12, <1>14, <1>15, <1>16 DEF Following

LEMMA ServeGameOwner ==
  ASSUME Inv, OwnerInv, NEW d \in Dispatcher, ServeGame(d)
  PROVE  OwnerInv'
  <1>1. UNCHANGED <<sock, posts, owner, gate, want, toDisp, toGame, noticed, late, client, live,
                    chosen, used, view>>
    BY DEF ServeGame, gateVars, gameVars
  <1>2. Ended'
    BY <1>1 DEF OwnerInv, Ended
  <1>3. Up' = Up
    BY <1>1 DEF Up, Joined
  <1>4. PICK a, b \in Wire(Messages) : a = toGate /\ b = fromGame
    BY WiresTyped
  <1>5. b[d] # <<>> /\ fromGame' = [b EXCEPT ![d] = Tail(@)]
    BY <1>4 DEF ServeGame
  <1>6. PICK m \in Messages : m = Head(b[d])
    BY <1>5, TailTyped
  <1>7. ASSUME gate PROVE Following'
    <2>1. Following
      BY <1>7 DEF OwnerInv
    <2>2. CASE m.type \notin {"created", "destroyed"}
      <3>1. toGate' = [a EXCEPT ![d] = Append(@, m)] /\ route' = route
        BY <1>4, <1>6, <1>7, <2>2 DEF ServeGame
      <3>2. PICK a2, b2 : a2 = toGate' /\ b2 = fromGame'
        OBVIOUS
      <3>3. /\ a2[d] = Append(a[d], Head(b[d])) /\ b2[d] = Tail(b[d])
            /\ \A x \in Dispatcher : x # d => a2[x] = a[x] /\ b2[x] = b[x]
        BY <1>5, <1>6, <3>1, <3>2 DEF Wire
      <3>4. Joined(a2, b2) = Joined(a, b)
        BY <1>5, <3>3, JoinedForward
      <3>5. Down' = Down
        BY <1>4, <3>2, <3>4 DEF Down
      <3> QED BY <1>1, <1>3, <1>4, <2>1, <2>2, <3>1, <3>5, ForwardOwner
    <2>3. CASE m.type \in {"created", "destroyed"}
      <3>1. PICK e \in Entity : e = m.entity
        BY <2>3, MessageFields
      <3>2. /\ \/ m = NotifyCreate(e) /\ route' = route \cup {e}
               \/ m = NotifyDestroy(e) /\ route' = route \ {e}
            /\ toGate' = toGate
        <4>1. /\ m.type = "created" => m = NotifyCreate(e)
              /\ m.type = "destroyed" => m = NotifyDestroy(e)
          BY <3>1, MessageIs
        <4>2. /\ m.type = "created" => route' = route \cup {e}
              /\ m.type = "destroyed" => route' = route \ {e}
              /\ toGate' = toGate
          BY <1>4, <1>6, <2>3, <3>1 DEF ServeGame
        <4> QED BY <2>3, <4>1, <4>2
      <3>3. Drops(Down, Down', d, m)
        <4>1. PICK b2 : b2 = fromGame'
          OBVIOUS
        <4>2. Drops(Joined(a, b), Joined(a, b2), d, m)
          BY <1>5, <1>6, <4>1, JoinedDrop
        <4> QED BY <1>4, <3>2, <4>1, <4>2 DEF Down
      <3> QED BY <1>1, <1>3, <2>1, <3>2, <3>3, RouteOwner
    <2> QED BY <2>2, <2>3
  <1> QED BY <1>1, <1>2, <1>7 DEF OwnerInv

-----------------------------------------------------------------------------
(* The game                                                                 *)

\* The game creates an entity without a client.
LEMMA CreateEntityOwner ==
  ASSUME Inv, OwnerInv, NEW e \in Entity, CreateEntity(e)
  PROVE  OwnerInv'
  <1>1. /\ UNCHANGED <<sock, posts, owner, gate, want, toDisp, toGame, toGate, route, noticed, late,
                       client, chosen, view>>
        /\ e \notin used /\ used' = used \cup {e} /\ live' = live \cup {e}
        /\ fromGame' = Via(fromGame, e, NotifyCreate(e))
    BY DEF CreateEntity, gateVars, dispVars
  <1>2. Ended'
    BY <1>1 DEF OwnerInv, Ended
  <1>3. Up' = Up
    BY <1>1 DEF Up, Joined
  <1>4. NotifyCreate(e) \in Messages
    BY DEF NotifyCreate, Messages
  <1>5. PICK q \in Wire(Messages) : q = Down
    BY WiresTyped
  <1>6. PICK r : r = Via(q, e, NotifyCreate(e))
    OBVIOUS
  <1>7. Down' = r
    <2>1. Down' = Joined(toGate, Via(fromGame, e, NotifyCreate(e)))
      BY <1>1 DEF Down, Joined
    <2> QED BY <1>4, <1>5, <1>6, <2>1, WiresTyped, JoinedVia DEF Down
  <1>8. Besides(q, r, NotifyCreate(e))
    BY <1>4, <1>6, ViaBesides
  <1>9. SameDestroys(Down, Down') /\ SameFilters(Down, Down')
    BY <1>5, <1>7, <1>8, BesidesKinds, MessageTypes
  <1>10. ASSUME NEW x \in Dispatcher, NEW m, NEW n
         PROVE  /\ Has(r[x], m)
                     <=> Has(q[x], m) \/ (x = DispatcherOf[e] /\ m = NotifyCreate(e))
                /\ Pre(r[x], m, n) <=> \/ Pre(q[x], m, n)
                                       \/ /\ x = DispatcherOf[e] /\ Has(q[x], m)
                                          /\ n = NotifyCreate(e)
    <2>1. Sends(q, r, e, NotifyCreate(e))
      BY <1>4, <1>6, ViaHolds
    <2> QED BY <2>1 DEF Sends
  <1>11. /\ \A k, y : CreateOnClient(k, y) # NotifyCreate(e)
         /\ \A y : NotifyDestroy(y) # NotifyCreate(e)
         /\ \A y : NotifyCreate(y) = NotifyCreate(e) <=> y = e
    <2>1. \A k, y : CreateOnClient(k, y).type = "createOnClient" /\ NotifyDestroy(y).type = "destroyed"
      BY MessageTypes
    <2>2. NotifyCreate(e).type = "created"
      BY MessageTypes
    <2>3. \A y : NotifyCreate(y) = NotifyCreate(e) <=> y = e
      BY DEF NotifyCreate
    <2> QED BY <2>1, <2>2, <2>3
  <1>12. SameCreates(Down, Down')
    BY <1>5, <1>7, <1>10, <1>11 DEF SameCreates
  <1>13. \A x \in Dispatcher, y \in Entity :
           /\ Has(Down'[x], NotifyCreate(y))
                <=> Has(Down[x], NotifyCreate(y)) \/ (x = DispatcherOf[e] /\ y = e)
           /\ Has(Down'[x], NotifyDestroy(y)) <=> Has(Down[x], NotifyDestroy(y))
    BY <1>5, <1>7, <1>10, <1>11
  <1>14. ASSUME gate PROVE Following'
    <2>1. Following
      BY <1>14 DEF OwnerInv
    <2>2. \A k \in Client : ((Announces(k))' <=> Announces(k)) /\ ((Waiting(k))' <=> Waiting(k))
      BY <1>1, <1>3 DEF Announces, Waiting
    <2>3. Announcing'
      <3>1. \A x \in Dispatcher, c \in Client, b \in Entity : Has(Up[x], Connected(c, b)) =>
              /\ b \in used' /\ b \notin live' /\ b # e
              /\ \A z \in Dispatcher : ~Has(Down'[z], NotifyCreate(b)) /\ ~Has(Down'[z], NotifyDestroy(b))
        BY <1>1, <1>13, <2>1 DEF Following, Announcing
      <3>2. \A k \in Client : (Waiting(k))' =>
              /\ view'[k] = {}
              /\ \A y \in Entity : client'[y] # k
              /\ \A x \in Dispatcher :
                   /\ \A y \in Entity : /\ ~Has(Down'[x], CreateOnClient(k, y))
                                        /\ ~Has(Down'[x], DestroyOnClient(k, y))
                   /\ \A v \in Val : ~Has(Down'[x], SetFilterProp(k, v))
        BY <1>1, <1>9, <1>12, <2>1, <2>2
           DEF Following, Announcing, SameCreates, SameDestroys, SameFilters
      <3> QED BY <1>1, <1>3, <2>1, <2>2, <3>1, <3>2 DEF Following, Announcing
    <2>4. Closing' /\ Filtering'
      BY <1>1, <1>3, <1>9, <2>1, FilteringKept DEF Following, Closing
    <2>5. Routed'
      BY <1>1, <1>13, <2>1, DispatchersOf DEF Following, Routed, Inv, Typed
    <2>6. Creating'
      BY <1>1, <1>12, <2>1 DEF Following, Creating, SameCreates
    <2>7. Owning'
      <3> SUFFICES ASSUME NEW y \in Entity, client[y] # None
                   PROVE  (OwnedAt(y, client[y]))'
        BY <1>1 DEF Owning
      <3>1. PICK k \in Client : k = client[y]
        BY DEF Inv, Typed
      <3>2. OwnedAt(y, k)
        BY <2>1, <3>1, DispatchersOf DEF Following, Owning
      <3> QED BY <1>1, <1>3, <1>12, <3>1, <3>2, DispatchersOf DEF OwnedAt, SameCreates
    <2>8. Showing'
      <3>1. \A k \in Client : SameFor(Down, Down', k)
        BY <1>9, <1>12 DEF SameFor, SameCreates, SameDestroys
      <3> QED BY <1>1, <2>1, <3>1, ShowingKept DEF Following, Showing
    <2> QED BY <2>3, <2>4, <2>5, <2>6, <2>7, <2>8 DEF Following
  <1> QED BY <1>1, <1>2, <1>14 DEF OwnerInv

\* The owner of a client sets its filter property.
LEMMA SetClientFilterPropOwner ==
  ASSUME Inv, OwnerInv, NEW e \in Entity, NEW v \in Val, SetClientFilterProp(e, v)
  PROVE  OwnerInv'
  <1>1. /\ UNCHANGED <<sock, posts, owner, gate, want, toDisp, toGame, toGate, route, noticed, late,
                       client, live, used, view>>
        /\ client[e] # None /\ chosen' = [chosen EXCEPT ![e] = v]
        /\ fromGame' = Via(fromGame, e, SetFilterProp(client[e], v))
    BY DEF SetClientFilterProp, gateVars, dispVars
  <1>2. PICK c \in Client : c = client[e]
    BY <1>1 DEF Inv, Typed
  <1>3. Ended'
    BY <1>1 DEF OwnerInv, Ended
  <1>4. Up' = Up
    BY <1>1 DEF Up, Joined
  <1>5. SetFilterProp(c, v) \in Messages
    BY DEF SetFilterProp, Messages
  <1>6. PICK q \in Wire(Messages) : q = Down
    BY WiresTyped
  <1>7. PICK r : r = Via(q, e, SetFilterProp(c, v))
    OBVIOUS
  <1>8. Down' = r
    <2>1. Down' = Joined(toGate, Via(fromGame, e, SetFilterProp(c, v)))
      BY <1>1, <1>2 DEF Down, Joined
    <2> QED BY <1>5, <1>6, <1>7, <2>1, WiresTyped, JoinedVia DEF Down
  <1>9. /\ AddsSet(Down, Down', c, e, v) /\ SameNotices(Down, Down') /\ SameCreates(Down, Down')
        /\ SameDestroys(Down, Down')
    BY <1>6, <1>7, <1>8, SendSet
  <1>10. chosen'[e] = v /\ \A y \in Entity : y # e => chosen'[y] = chosen[y]
    BY <1>1 DEF Inv, Typed
  <1>11. ASSUME gate PROVE Following'
    <2>1. Following
      BY <1>11 DEF OwnerInv
    <2>2. \A k \in Client : ((Announces(k))' <=> Announces(k)) /\ ((Waiting(k))' <=> Waiting(k))
      BY <1>1, <1>4 DEF Announces, Waiting
    <2>3. Announcing'
      <3>1. ASSUME NEW k \in Client, Waiting(k)
            PROVE  /\ view'[k] = {}
                   /\ \A y \in Entity : client'[y] # k
                   /\ \A x \in Dispatcher :
                        /\ \A y \in Entity : /\ ~Has(Down'[x], CreateOnClient(k, y))
                                             /\ ~Has(Down'[x], DestroyOnClient(k, y))
                        /\ \A w \in Val : ~Has(Down'[x], SetFilterProp(k, w))
        <4>1. /\ view[k] = {}
              /\ \A y \in Entity : client[y] # k
              /\ \A x \in Dispatcher :
                   /\ \A y \in Entity : /\ ~Has(Down[x], CreateOnClient(k, y))
                                        /\ ~Has(Down[x], DestroyOnClient(k, y))
                   /\ \A w \in Val : ~Has(Down[x], SetFilterProp(k, w))
          BY <2>1, <3>1 DEF Following, Announcing
        <4>2. k # c
          BY <1>2, <4>1
        <4> QED BY <1>1, <1>9, <4>1, <4>2 DEF AddsSet, SameCreates, SameDestroys
      <3>2. \A x \in Dispatcher, b \in Entity :
              /\ Has(Down'[x], NotifyCreate(b)) <=> Has(Down[x], NotifyCreate(b))
              /\ Has(Down'[x], NotifyDestroy(b)) <=> Has(Down[x], NotifyDestroy(b))
        BY <1>9 DEF SameNotices
      <3> QED BY <1>1, <1>4, <2>1, <2>2, <3>1, <3>2 DEF Following, Announcing
    <2>4. Closing'
      BY <1>1, <1>4, <2>1 DEF Following, Closing
    <2>5. Routed' /\ Creating'
      <3>1. Routed'
        BY <1>1, <1>9, <2>1, DispatchersOf DEF Following, Routed, SameNotices, Inv, Typed
      <3>2. Creating'
        BY <1>1, <1>9, <2>1 DEF Following, Creating, SameCreates
      <3> QED BY <3>1, <3>2
    <2>6. Owning'
      <3> SUFFICES ASSUME NEW y \in Entity, client[y] # None
                   PROVE  (OwnedAt(y, client[y]))'
        BY <1>1 DEF Owning
      <3>1. PICK k \in Client : k = client[y]
        BY DEF Inv, Typed
      <3>2. OwnedAt(y, k)
        BY <2>1, <3>1, DispatchersOf DEF Following, Owning
      <3> QED BY <1>1, <1>4, <1>9, <3>1, <3>2, DispatchersOf DEF OwnedAt, SameCreates
    <2>7. Showing'
      <3>1. \A k \in Client : SameFor(Down, Down', k)
        BY <1>9 DEF SameFor, SameCreates, SameDestroys
      <3> QED BY <1>1, <2>1, <3>1, ShowingKept DEF Following, Showing
    <2>8. Filtering'
      <3> SUFFICES ASSUME NEW y \in Entity, client[y] # None
                   PROVE  /\ \A x \in Dispatcher, w \in Val :
                               Final(Down'[x], SetFilterProp(client[y], w), FilterMessages(client[y])) =>
                                 x = DispatcherOf[y] /\ w = chosen'[y]
                          /\ \/ want[client[y]] \in {None, chosen'[y]}
                             \/ \E x \in Dispatcher : \E n \in FilterMessages(client[y]) : Has(Down'[x], n)
        BY <1>1 DEF Filtering
      <3>1. PICK k \in Client : k = client[y]
        BY DEF Inv, Typed
      <3>2. /\ \A x \in Dispatcher, w \in Val :
                 Final(Down[x], SetFilterProp(k, w), FilterMessages(k)) =>
                   x = DispatcherOf[y] /\ w = chosen[y]
            /\ \/ want[k] \in {None, chosen[y]}
               \/ \E x \in Dispatcher : \E n \in FilterMessages(k) : Has(Down[x], n)
        BY <2>1, <3>1, DispatchersOf DEF Following, Filtering
      <3>3. CASE k # c
        <4>1. y # e
          BY <1>2, <3>1, <3>3
        <4>2. \A x \in Dispatcher : \A n \in FilterMessages(k) : Has(Down'[x], n) <=> Has(Down[x], n)
          BY <1>9, <3>3 DEF AddsSet, FilterMessages
        <4>3. \A x \in Dispatcher, w \in Val :
                Final(Down'[x], SetFilterProp(k, w), FilterMessages(k))
                  <=> Final(Down[x], SetFilterProp(k, w), FilterMessages(k))
          BY <1>9, <3>3 DEF AddsSet
        <4> QED BY <1>10, <3>1, <3>2, <4>1, <4>2, <4>3
      <3>4. CASE k = c
        <4>1. y = e
          BY <1>1, <1>2, <2>1, <3>1, <3>4 DEF Following, Creating
        <4>2. \A x \in Dispatcher, w \in Val :
                Final(Down'[x], SetFilterProp(k, w), FilterMessages(k))
                  <=> IF x = DispatcherOf[e] THEN w = v
                      ELSE Final(Down[x], SetFilterProp(k, w), FilterMessages(k))
          BY <1>9, <3>4 DEF AddsSet
        <4>3. Has(Down'[DispatcherOf[e]], SetFilterProp(k, v))
          BY <1>9, <3>4, DispatchersOf DEF AddsSet
        <4>4. SetFilterProp(k, v) \in FilterMessages(k)
          BY DEF FilterMessages
        <4>5. \E x \in Dispatcher : \E n \in FilterMessages(k) : Has(Down'[x], n)
          BY <4>3, <4>4, DispatchersOf
        <4> QED BY <1>10, <3>1, <3>2, <4>1, <4>2, <4>5
      <3> QED BY <3>3, <3>4
    <2> QED BY <2>3, <2>4, <2>5, <2>6, <2>7, <2>8 DEF Following
  <1> QED BY <1>1, <1>3, <1>11 DEF OwnerInv

\* What the destruction of e, the entity of c or of nobody, sends.
Ends(q, r, e, c) ==
  /\ SameCreates(q, r)
  /\ \A d \in Dispatcher, y \in Entity :
       /\ Has(r[d], NotifyCreate(y)) <=> Has(q[d], NotifyCreate(y))
       /\ Has(r[d], NotifyDestroy(y))
            <=> Has(q[d], NotifyDestroy(y)) \/ (d = DispatcherOf[e] /\ y = e)
  /\ AddsDestroy(q, r, c, e, e) /\ AddsClear(q, r, c, e)

LEMMA DestroySends ==
  ASSUME Inv, NEW e \in Entity, Destroy(e)
  PROVE  Ends(Down, Down', e, client[e])
  <1>1. /\ fromGame' = Via(Release(fromGame, e, client[e], e), e, NotifyDestroy(e))
        /\ toGate' = toGate
    BY DEF Destroy
  <1>2. PICK c \in Client \cup {None} : c = client[e]
    BY DEF Inv, Typed
  <1>3. PICK a, b \in Wire(Messages) : a = toGate /\ b = fromGame
    BY WiresTyped
  <1>4. PICK m \in Messages : m = NotifyDestroy(e)
    BY DEF NotifyDestroy, Messages
  <1>5. PICK b1 \in Wire(Messages) : b1 = Release(b, e, c, e)
    BY ReleaseTyped
  <1>6. PICK q, p \in Wire(Messages) : q = Joined(a, b) /\ p = Joined(a, b1)
    BY JoinedTyped
  <1>7. PICK r : r = Via(p, e, m)
    OBVIOUS
  <1>8. Down = q /\ Down' = r
    <2>1. Down' = Joined(a, Via(b1, e, m))
      BY <1>1, <1>2, <1>3, <1>4, <1>5 DEF Down, Joined
    <2> QED BY <1>3, <1>6, <1>7, <2>1, JoinedVia DEF Down
  <1>9. SameCreates(q, p) /\ SameNotices(q, p) /\ AddsDestroy(q, p, c, e, e) /\ AddsClear(q, p, c, e)
    <2>1. CASE c = None
      <3>1. p = q
        BY <1>5, <1>6, <2>1 DEF Release
      <3>2. \A k \in Client : k # c
        BY <2>1, NobodyAssumption
      <3> QED BY <3>1, <3>2 DEF SameCreates, SameNotices, AddsDestroy, AddsClear
    <2>2. CASE c \in Client
      <3>1. p = Release(q, e, c, e)
        BY <1>5, <1>6, <2>2, JoinedRelease
      <3> QED BY <2>2, <3>1, ReleaseSends
    <2> QED BY <2>1, <2>2
  <1>10. Besides(p, r, m)
    BY <1>7, ViaBesides
  <1>11. SameCreates(p, r) /\ SameDestroys(p, r) /\ SameFilters(p, r)
    BY <1>4, <1>10, BesidesKinds, MessageTypes
  <1>12. ASSUME NEW d \in Dispatcher, NEW y \in Entity
         PROVE  /\ Has(r[d], NotifyCreate(y)) <=> Has(p[d], NotifyCreate(y))
                /\ Has(r[d], NotifyDestroy(y))
                     <=> Has(p[d], NotifyDestroy(y)) \/ (d = DispatcherOf[e] /\ y = e)
    <2>1. ASSUME NEW n PROVE Has(r[d], n) <=> Has(p[d], n) \/ (d = DispatcherOf[e] /\ n = m)
      <3>1. Sends(p, r, e, m)
        BY <1>7, ViaHolds
      <3> QED BY <3>1 DEF Sends
    <2>2. NotifyCreate(y) # m /\ (NotifyDestroy(y) = m <=> y = e)
      BY <1>4 DEF NotifyCreate, NotifyDestroy
    <2> QED BY <2>1, <2>2
  <1>13. SameCreates(q, r) /\ AddsDestroy(q, r, c, e, e) /\ AddsClear(q, r, c, e)
    <2>1. SameCreates(q, r)
      BY <1>9, <1>11 DEF SameCreates
    <2>2. AddsDestroy(q, r, c, e, e)
      BY <1>9, <1>11 DEF AddsDestroy, SameDestroys
    <2>3. AddsClear(q, r, c, e)
      BY <1>9, <1>11 DEF AddsClear, SameFilters
    <2> QED BY <2>1, <2>2, <2>3
  <1>14. \A d \in Dispatcher, y \in Entity :
           /\ Has(r[d], NotifyCreate(y)) <=> Has(q[d], NotifyCreate(y))
           /\ Has(r[d], NotifyDestroy(y))
                <=> Has(q[d], NotifyDestroy(y)) \/ (d = DispatcherOf[e] /\ y = e)
    BY <1>9, <1>12 DEF SameNotices
  <1> QED BY <1>2, <1>8, <1>13, <1>14 DEF Ends

\* The game destroys an entity.
LEMMA DestroyOwner ==
  ASSUME Inv, OwnerInv, NEW e \in Entity, Destroy(e)
  PROVE  OwnerInv'
  <1>1. /\ UNCHANGED <<sock, posts, owner, gate, want, toDisp, toGame, toGate, route, noticed, late,
                       used, view>>
        /\ e \in live /\ live' = live \ {e}
        /\ client' = [client EXCEPT ![e] = None] /\ chosen' = [chosen EXCEPT ![e] = None]
    BY DEF Destroy, gateVars, dispVars
  <1>2. PICK c \in Client \cup {None} : c = client[e]
    BY DEF Inv, Typed
  <1>3. \A y \in Entity : /\ client'[y] = IF y = e THEN None ELSE client[y]
                          /\ y # e => chosen'[y] = chosen[y]
    BY <1>1 DEF Inv, Typed
  <1>4. Ended'
    BY <1>1, <1>3 DEF OwnerInv, Ended
  <1>5. Up' = Up
    BY <1>1 DEF Up, Joined
  <1>6. Ends(Down, Down', e, c)
    BY <1>2, DestroySends
  <1>7. /\ SameCreates(Down, Down')
        /\ \A x \in Dispatcher, y \in Entity :
             /\ Has(Down'[x], NotifyCreate(y)) <=> Has(Down[x], NotifyCreate(y))
             /\ Has(Down'[x], NotifyDestroy(y))
                  <=> Has(Down[x], NotifyDestroy(y)) \/ (x = DispatcherOf[e] /\ y = e)
        /\ AddsDestroy(Down, Down', c, e, e) /\ AddsClear(Down, Down', c, e)
    BY <1>6 DEF Ends
  <1>8. ASSUME gate PROVE Following'
    <2>1. Following
      BY <1>8 DEF OwnerInv
    <2>2. \A k \in Client : ((Announces(k))' <=> Announces(k)) /\ ((Waiting(k))' <=> Waiting(k))
      BY <1>1, <1>5 DEF Announces, Waiting
    <2>3. \A k \in Client, y \in Entity : client'[y] = k => y # e /\ client[y] = k /\ k # c
      BY <1>2, <1>3, <2>1, DispatchersOf DEF Following, Creating
    <2>4. Announcing'
      <3>1. ASSUME NEW k \in Client, Waiting(k)
            PROVE  /\ view'[k] = {}
                   /\ \A y \in Entity : client'[y] # k
                   /\ \A x \in Dispatcher :
                        /\ \A y \in Entity : /\ ~Has(Down'[x], CreateOnClient(k, y))
                                             /\ ~Has(Down'[x], DestroyOnClient(k, y))
                        /\ \A w \in Val : ~Has(Down'[x], SetFilterProp(k, w))
        <4>1. /\ view[k] = {}
              /\ \A y \in Entity : client[y] # k
              /\ \A x \in Dispatcher :
                   /\ \A y \in Entity : /\ ~Has(Down[x], CreateOnClient(k, y))
                                        /\ ~Has(Down[x], DestroyOnClient(k, y))
                   /\ \A w \in Val : ~Has(Down[x], SetFilterProp(k, w))
          BY <2>1, <3>1 DEF Following, Announcing
        <4>2. k # c
          BY <1>2, <4>1
        <4> QED BY <1>1, <1>7, <2>3, <4>1, <4>2 DEF AddsClear, SameCreates, AddsDestroy
      <3>2. \A x \in Dispatcher, k \in Client, b \in Entity : Has(Up[x], Connected(k, b)) =>
              /\ b \in used' /\ b \notin live' /\ b # e
              /\ \A z \in Dispatcher : ~Has(Down'[z], NotifyCreate(b)) /\ ~Has(Down'[z], NotifyDestroy(b))
        BY <1>1, <1>7, <2>1 DEF Following, Announcing
      <3> QED BY <1>1, <1>5, <2>1, <2>2, <3>1, <3>2 DEF Following, Announcing
    <2>5. Closing'
      BY <1>1, <1>5, <2>1 DEF Following, Closing
    <2>6. Routed'
      BY <1>1, <1>7, <2>1, DispatchersOf DEF Following, Routed, Inv, Typed
    <2>7. Creating'
      <3>1. /\ \A y \in Entity : client'[y] # None => y \in live'
            /\ \A y, f \in Entity : client'[y] = client'[f] /\ client'[y] # None => y = f
        BY <1>1, <1>3, <2>1 DEF Following, Creating
      <3>2. ASSUME NEW d \in Dispatcher, NEW k \in Client, NEW y \in Entity,
                   Has(Down'[d], CreateOnClient(k, y))
            PROVE  /\ d = DispatcherOf[y]
                   /\ ~Pre(Down'[d], CreateOnClient(k, y), CreateOnClient(k, y))
                   /\ \A x \in Dispatcher, f \in Entity : Has(Down'[x], CreateOnClient(k, f)) => f = y
                   /\ \A f \in Entity : client'[f] = k => f = y
                   /\ client'[y] = k => y \in route' \/ Pre(Down'[d], NotifyCreate(y), CreateOnClient(k, y))
        <4>1. Has(Down[d], CreateOnClient(k, y))
          BY <1>7, <3>2 DEF SameCreates
        <4> QED BY <1>1, <1>7, <2>1, <2>3, <4>1 DEF Following, Creating, SameCreates
      <3> QED BY <3>1, <3>2 DEF Creating
    <2>8. Owning'
      <3> SUFFICES ASSUME NEW y \in Entity, client'[y] # None
                   PROVE  (OwnedAt(y, client[y]))'
        BY DEF Owning
      <3>1. PICK k \in Client : k = client[y] /\ k = client'[y]
        BY <1>3 DEF Inv, Typed
      <3>2. OwnedAt(y, k)
        BY <2>1, <3>1, DispatchersOf DEF Following, Owning
      <3> QED BY <1>1, <1>5, <1>7, <3>1, <3>2, DispatchersOf DEF OwnedAt, SameCreates
    <2>9. Showing'
      <3> SUFFICES ASSUME NEW k \in Client PROVE (Shown(k))' /\ (Taken(k))' /\ (Leaving(k))'
        BY DEF Showing
      <3>1. Shown(k) /\ Taken(k) /\ Leaving(k) /\ view[k] \subseteq Entity
        BY <2>1 DEF Following, Showing, Inv, Typed
      <3>2. (Shown(k))'
        BY <1>1, <1>7, <2>3, <3>1, DispatchersOf DEF Shown, AddsDestroy, SameCreates
      <3>3. (Taken(k))'
        BY <1>1, <1>7, <2>3, <3>1 DEF Taken, AddsDestroy, SameCreates
      <3>4. ASSUME sock[k] = "open"
            PROVE  /\ \A y \in Entity : client'[y] = k =>
                        y \in view[k] \/ Has(Down'[DispatcherOf[y]], CreateOnClient(k, y))
                   /\ \A x \in view[k] :
                        client'[x] = k \/ \E d \in Dispatcher : Has(Down'[d], DestroyOnClient(k, x))
                   /\ \A d \in Dispatcher, o \in Entity : Has(Down'[d], CreateOnClient(k, o)) =>
                        client'[o] = k \/ Pre(Down'[d], CreateOnClient(k, o), DestroyOnClient(k, o))
        <4>1. \A y \in Entity : client'[y] = k =>
                y \in view[k] \/ Has(Down'[DispatcherOf[y]], CreateOnClient(k, y))
          BY <1>7, <2>3, <3>1, <3>4, DispatchersOf DEF Leaving, SameCreates
        <4>2. ASSUME NEW x \in view[k]
              PROVE  client'[x] = k \/ \E d \in Dispatcher : Has(Down'[d], DestroyOnClient(k, x))
          <5>1. client[x] = k \/ \E d \in Dispatcher : Has(Down[d], DestroyOnClient(k, x))
            BY <3>1, <3>4 DEF Leaving
          <5>2. CASE \E d \in Dispatcher : Has(Down[d], DestroyOnClient(k, x))
            BY <1>7, <3>1, <5>2 DEF AddsDestroy
          <5>3. CASE client[x] = k /\ x # e
            BY <1>3, <3>1, <5>3
          <5>4. CASE client[x] = k /\ x = e
            BY <1>2, <1>7, <5>4, DispatchersOf DEF AddsDestroy
          <5> QED BY <5>1, <5>2, <5>3, <5>4
        <4>3. ASSUME NEW d \in Dispatcher, NEW o \in Entity, Has(Down'[d], CreateOnClient(k, o))
              PROVE  client'[o] = k \/ Pre(Down'[d], CreateOnClient(k, o), DestroyOnClient(k, o))
          <5>1. Has(Down[d], CreateOnClient(k, o)) /\ d = DispatcherOf[o]
            BY <1>7, <2>1, <4>3 DEF Following, Creating, SameCreates
          <5>2. client[o] = k \/ Pre(Down[d], CreateOnClient(k, o), DestroyOnClient(k, o))
            BY <3>1, <3>4, <5>1 DEF Leaving
          <5>3. CASE Pre(Down[d], CreateOnClient(k, o), DestroyOnClient(k, o))
            BY <1>7, <5>3 DEF AddsDestroy
          <5>4. CASE client[o] = k /\ o # e
            BY <1>3, <5>4
          <5>5. CASE client[o] = k /\ o = e
            BY <1>2, <1>7, <5>1, <5>5 DEF AddsDestroy
          <5> QED BY <5>2, <5>3, <5>4, <5>5
        <4> QED BY <4>1, <4>2, <4>3
      <3> QED BY <1>1, <3>2, <3>3, <3>4 DEF Leaving
    <2>10. Filtering'
      <3> SUFFICES ASSUME NEW y \in Entity, client'[y] # None
                   PROVE  /\ \A x \in Dispatcher, w \in Val :
                               Final(Down'[x], SetFilterProp(client'[y], w), FilterMessages(client'[y])) =>
                                 x = DispatcherOf[y] /\ w = chosen'[y]
                          /\ \/ want[client'[y]] \in {None, chosen'[y]}
                             \/ \E x \in Dispatcher : \E n \in FilterMessages(client'[y]) : Has(Down'[x], n)
        BY <1>1 DEF Filtering
      <3>1. PICK k \in Client : k = client[y] /\ k = client'[y]
        BY <1>3 DEF Inv, Typed
      <3>2. y # e /\ k # c
        BY <2>3, <3>1
      <3>3. /\ \A x \in Dispatcher, w \in Val :
                 Final(Down[x], SetFilterProp(k, w), FilterMessages(k)) =>
                   x = DispatcherOf[y] /\ w = chosen[y]
            /\ \/ want[k] \in {None, chosen[y]}
               \/ \E x \in Dispatcher : \E n \in FilterMessages(k) : Has(Down[x], n)
        BY <2>1, <3>1, DispatchersOf DEF Following, Filtering
      <3>4. ASSUME NEW x \in Dispatcher, NEW n \in FilterMessages(k)
            PROVE  Has(Down'[x], n) <=> Has(Down[x], n)
        <4>1. CASE n = ClearFilterProps(k)
          BY <1>7, <3>2, <4>1 DEF AddsClear
        <4>2. CASE \E w \in Val : n = SetFilterProp(k, w)
          BY <1>7, <4>2 DEF AddsClear
        <4> QED BY <4>1, <4>2 DEF FilterMessages
      <3>5. \A x \in Dispatcher, w \in Val :
              Final(Down'[x], SetFilterProp(k, w), FilterMessages(k))
                <=> Final(Down[x], SetFilterProp(k, w), FilterMessages(k))
        BY <1>7, <3>2 DEF AddsClear
      <3> QED BY <1>3, <3>1, <3>2, <3>3, <3>4, <3>5
    <2> QED BY <2>4, <2>5, <2>6, <2>7, <2>8, <2>9, <2>10 DEF Following
  <1> QED BY <1>1, <1>4, <1>8 DEF OwnerInv

\* A client that knows of its owner has no notice of it on its way.
LEMMA NothingOnItsWay ==
  ASSUME Inv, NEW c \in Client, Settled(c)
  PROVE  \A d \in Dispatcher, x \in Entity : ~Has(Down[d], CreateOnClient(c, x))
  <1> SUFFICES ASSUME NEW d \in Dispatcher, NEW x \in Entity, Has(Down[d], CreateOnClient(c, x))
               PROVE  FALSE
    OBVIOUS
  <1>1. PICK a, b \in Wire(Messages) : a = toGate /\ b = fromGame
    BY WiresTyped
  <1>2. PICK s, t \in Seq(Messages) : s = toGate[d] /\ t = fromGame[d] /\ Down[d] = s \o t
    <2>1. Down = Joined(a, b)
      BY <1>1 DEF Down
    <2>2. /\ a[d] \in Seq(Messages) /\ b[d] \in Seq(Messages)
          /\ Joined(a, b)[d] = a[d] \o b[d]
      BY JoinedTyped
    <2> QED BY <1>1, <2>1, <2>2
  <1>3. PICK m : m = CreateOnClient(c, x)
    OBVIOUS
  <1>4. Has(s, m) \/ Has(t, m)
    <2>1. Has(s \o t, m) <=> Has(s, m) \/ Has(t, m)
      BY HoldsBoth
    <2> QED BY <1>2, <1>3, <2>1
  <1>5. m \in ToSet(s) \cup ToSet(t)
    BY <1>4 DEF Has, ToSet
  <1>6. m.type = "createOnClient" /\ m.client = c
    BY <1>3 DEF CreateOnClient
  <1> QED BY <1>2, <1>5, <1>6 DEF Settled

\* The game gives the client of e to o, not before the client knows of e.
LEMMA GiveClientToOwner ==
  ASSUME Inv, OwnerInv, NEW e \in Entity, NEW o \in Entity, GiveClientTo(e, o), ~Eager
  PROVE  OwnerInv'
  <1>1. /\ UNCHANGED <<sock, posts, owner, gate, want, toDisp, toGame, toGate, route, noticed, late,
                       live, used, view>>
        /\ e \in live /\ o \in live /\ client[e] # None /\ Settled(client[e])
        /\ client' = [client EXCEPT ![e] = None, ![o] = client[e]]
        /\ chosen' = [chosen EXCEPT ![e] = None, ![o] = None]
    BY DEF GiveClientTo, gateVars, dispVars
  <1>2. PICK c \in Client : c = client[e]
    BY <1>1 DEF Inv, Typed
  <1>3. PICK k \in Client \cup {None} : k = IF o = e THEN None ELSE client[o]
    BY DEF Inv, Typed
  <1>4. \A y \in Entity :
          /\ client'[y] = IF y = o THEN c ELSE IF y = e THEN None ELSE client[y]
          /\ y # e /\ y # o => chosen'[y] = chosen[y]
    BY <1>1, <1>2 DEF Inv, Typed
  <1>5. Ended'
    <2>1. ASSUME ~gate, NEW y \in Entity, client'[y] # None
          PROVE  client'[y] \in late \/ \E d \in Dispatcher : d \notin noticed \/ Has(toGame[d], GateDown)
      <3>1. PICK z \in Entity : client'[y] = client[z] /\ client[z] # None
        BY <1>1, <1>2, <1>4, <2>1
      <3> QED BY <2>1, <3>1 DEF OwnerInv, Ended
    <2> QED BY <1>1, <2>1 DEF OwnerInv, Ended
  <1>6. Up' = Up
    BY <1>1 DEF Up, Joined
  <1>7. Gives(Down, Down', e, o, c, k)
    BY <1>2, <1>3, GiveSends
  <1>8. \A x \in Dispatcher, y \in Entity : ~Has(Down[x], CreateOnClient(c, y))
    BY <1>1, <1>2, NothingOnItsWay
  <1>9. \A x \in Dispatcher, y \in Entity : \A m :
          ~Pre(Down[x], CreateOnClient(c, y), m) /\ ~Pre(Down[x], m, CreateOnClient(c, y))
    BY <1>8 DEF Pre, Has
  <1>10. /\ SameNotices(Down, Down')
         /\ \A d \in Dispatcher, l \in Client : \A x, y \in Entity :
              /\ Has(Down'[d], CreateOnClient(l, x))
                   <=> Has(Down[d], CreateOnClient(l, x)) \/ (d = DispatcherOf[o] /\ l = c /\ x = o)
              /\ Has(Down'[d], DestroyOnClient(l, x))
                   <=> \/ Has(Down[d], DestroyOnClient(l, x))
                       \/ d = DispatcherOf[o] /\ ((l = c /\ x = e) \/ (l = k /\ x = o))
    BY <1>7 DEF Gives
  <1>11. UNCHANGED <<sock, posts, owner, route, live, used>>
    BY <1>1
  <1>12. ASSUME gate PROVE Following'
    <2>1. Following
      BY <1>12 DEF OwnerInv
    <2>2. \A l \in Client : ((Announces(l))' <=> Announces(l)) /\ ((Waiting(l))' <=> Waiting(l))
      BY <1>1, <1>6 DEF Announces, Waiting
    <2>3. /\ k # c
          /\ \A l \in Client, y \in Entity : client'[y] = l =>
               \/ y = o /\ l = c
               \/ y # o /\ y # e /\ client[y] = l /\ l # c /\ l # k
          /\ \A l \in Client, y \in Entity : client[y] = l /\ l # c /\ l # k =>
               client'[y] = l
      <3>1. \A y, f \in Entity : client[y] = client[f] /\ client[y] # None => y = f
        BY <2>1 DEF Following, Creating
      <3>2. k # c
        BY <1>2, <1>3, <3>1, DispatchersOf
      <3>3. ASSUME NEW l \in Client, NEW y \in Entity, client'[y] = l
            PROVE  \/ y = o /\ l = c
                   \/ y # o /\ y # e /\ client[y] = l /\ l # c /\ l # k
        <4>1. CASE y = o
          BY <1>4, <3>3, <4>1
        <4>2. CASE y # o
          <5>1. y # e /\ client[y] = l
            BY <1>4, <3>3, <4>2, DispatchersOf
          <5>2. l # c
            BY <1>2, <3>1, <5>1, DispatchersOf
          <5>3. l # k
            BY <1>3, <3>1, <4>2, <5>1, DispatchersOf
          <5> QED BY <4>2, <5>1, <5>2, <5>3
        <4> QED BY <4>1, <4>2
      <3>4. ASSUME NEW l \in Client, NEW y \in Entity, client[y] = l, l # c, l # k
            PROVE  client'[y] = l
        <4>1. y # e
          BY <1>2, <3>4
        <4>2. y # o
          BY <1>3, <3>4, <4>1
        <4> QED BY <1>4, <3>4, <4>1, <4>2
      <3> QED BY <3>2, <3>3, <3>4
    <2>4. Announcing'
      <3>1. ASSUME NEW l \in Client, Waiting(l)
            PROVE  /\ view'[l] = {}
                   /\ \A y \in Entity : client'[y] # l
                   /\ \A x \in Dispatcher :
                        /\ \A y \in Entity : /\ ~Has(Down'[x], CreateOnClient(l, y))
                                             /\ ~Has(Down'[x], DestroyOnClient(l, y))
                        /\ \A w \in Val : ~Has(Down'[x], SetFilterProp(l, w))
        <4>1. /\ view[l] = {}
              /\ \A y \in Entity : client[y] # l
              /\ \A x \in Dispatcher :
                   /\ \A y \in Entity : /\ ~Has(Down[x], CreateOnClient(l, y))
                                        /\ ~Has(Down[x], DestroyOnClient(l, y))
                   /\ \A w \in Val : ~Has(Down[x], SetFilterProp(l, w))
          BY <2>1, <3>1 DEF Following, Announcing
        <4>2. l # c /\ l # k
          BY <1>2, <1>3, <4>1, DispatchersOf
        <4>3. \A x \in Dispatcher : \A w \in Val : ~Has(Down'[x], SetFilterProp(l, w))
          BY <1>7, <4>1 DEF Gives
        <4> QED BY <1>1, <1>10, <2>3, <4>1, <4>2, <4>3
      <3>2. \A x \in Dispatcher, b \in Entity :
              /\ Has(Down'[x], NotifyCreate(b)) <=> Has(Down[x], NotifyCreate(b))
              /\ Has(Down'[x], NotifyDestroy(b)) <=> Has(Down[x], NotifyDestroy(b))
        BY <1>10 DEF SameNotices
      <3> QED BY <1>6, <1>11, <2>1, <2>2, <3>1, <3>2 DEF Following, Announcing
    <2>5. Closing'
      BY <1>1, <1>6, <2>1 DEF Following, Closing
    <2>6. Routed'
      BY <1>1, <1>10, <2>1, DispatchersOf DEF Following, Routed, SameNotices, Inv, Typed
    <2>7. Creating'
      <3>1. \A y \in Entity : client'[y] # None => y \in live
        BY <1>1, <1>4, <2>1 DEF Following, Creating
      <3>2. ASSUME NEW y \in Entity, NEW f \in Entity, client'[y] = client'[f], client'[y] # None
            PROVE  y = f
        <4>1. PICK l \in Client : l = client'[y]
          BY <1>4, <3>2 DEF Inv, Typed
        <4>2. client'[f] = l
          BY <3>2, <4>1
        <4>3. CASE l = c
          BY <2>3, <4>1, <4>2, <4>3
        <4>4. CASE l # c
          <5>1. client[y] = l /\ client[f] = l
            BY <2>3, <4>1, <4>2, <4>4
          <5> QED BY <2>1, <5>1, DispatchersOf DEF Following, Creating
        <4> QED BY <4>3, <4>4
      <3>3. ASSUME NEW d \in Dispatcher, NEW l \in Client, NEW y \in Entity,
                   Has(Down'[d], CreateOnClient(l, y))
            PROVE  /\ d = DispatcherOf[y]
                   /\ ~Pre(Down'[d], CreateOnClient(l, y), CreateOnClient(l, y))
                   /\ \A x \in Dispatcher, f \in Entity : Has(Down'[x], CreateOnClient(l, f)) => f = y
                   /\ \A f \in Entity : client'[f] = l => f = y
                   /\ client'[y] = l => y \in route \/ Pre(Down'[d], NotifyCreate(y), CreateOnClient(l, y))
        <4>1. /\ Pre(Down'[d], CreateOnClient(l, y), CreateOnClient(l, y))
                   <=> \/ Pre(Down[d], CreateOnClient(l, y), CreateOnClient(l, y))
                       \/ d = DispatcherOf[o] /\ l = c /\ y = o /\ Has(Down[d], CreateOnClient(c, o))
              /\ Pre(Down'[d], NotifyCreate(y), CreateOnClient(l, y))
                   <=> \/ Pre(Down[d], NotifyCreate(y), CreateOnClient(l, y))
                       \/ d = DispatcherOf[o] /\ l = c /\ y = o /\ Has(Down[d], NotifyCreate(o))
          BY <1>7 DEF Gives
        <4>2. CASE l = c
          <5>1. d = DispatcherOf[o] /\ y = o
            BY <1>8, <1>10, <3>3, <4>2
          <5>2. ~Pre(Down'[d], CreateOnClient(l, y), CreateOnClient(l, y))
            BY <1>8, <1>9, <4>1, <4>2
          <5>3. \A x \in Dispatcher, f \in Entity : Has(Down'[x], CreateOnClient(l, f)) => f = y
            BY <1>8, <1>10, <4>2, <5>1
          <5>4. \A f \in Entity : client'[f] = l => f = y
            BY <2>3, <4>2, <5>1
          <5>5. o \in route \/ Has(Down[d], NotifyCreate(o))
            BY <1>1, <2>1, <5>1 DEF Following, Routed
          <5> QED BY <4>1, <4>2, <5>1, <5>2, <5>3, <5>4, <5>5
        <4>3. CASE l # c
          <5>1. Has(Down[d], CreateOnClient(l, y))
            BY <1>10, <3>3, <4>3
          <5>2. /\ d = DispatcherOf[y]
                /\ ~Pre(Down[d], CreateOnClient(l, y), CreateOnClient(l, y))
                /\ \A x \in Dispatcher, f \in Entity : Has(Down[x], CreateOnClient(l, f)) => f = y
                /\ \A f \in Entity : client[f] = l => f = y
                /\ client[y] = l => y \in route \/ Pre(Down[d], NotifyCreate(y), CreateOnClient(l, y))
            BY <2>1, <5>1 DEF Following, Creating
          <5>3. \A x \in Dispatcher, f \in Entity : Has(Down'[x], CreateOnClient(l, f)) => f = y
            BY <1>10, <4>3, <5>2
          <5>4. \A f \in Entity : client'[f] = l => client[f] = l
            BY <2>3, <4>3
          <5> QED BY <4>1, <4>3, <5>2, <5>3, <5>4
        <4> QED BY <4>2, <4>3
      <3> QED BY <1>11, <3>1, <3>2, <3>3 DEF Creating
    <2>8. Owning'
      <3> SUFFICES ASSUME NEW y \in Entity, client'[y] # None
                   PROVE  (OwnedAt(y, client[y]))'
        BY DEF Owning
      <3>1. PICK l \in Client : l = client'[y]
        BY <1>4 DEF Inv, Typed
      <3>2. CASE y = o /\ l = c
        BY <1>10, <3>1, <3>2, DispatchersOf DEF OwnedAt
      <3>3. CASE client[y] = l /\ l # c
        <4>1. OwnedAt(y, l)
          BY <2>1, <3>3, DispatchersOf DEF Following, Owning
        <4>2. (OwnedAt(y, l))'
          BY <1>1, <1>6, <1>10, <3>3, <4>1, DispatchersOf DEF OwnedAt
        <4> QED BY <3>1, <4>2
      <3> QED BY <2>3, <3>1, <3>2, <3>3
    <2>9. Showing'
      <3> SUFFICES ASSUME NEW l \in Client PROVE (Shown(l))' /\ (Taken(l))' /\ (Leaving(l))'
        BY DEF Showing
      <3>1. Shown(l) /\ Taken(l) /\ Leaving(l) /\ view[l] \subseteq Entity
        BY <2>1 DEF Following, Showing, Inv, Typed
      <3>2. \A d \in Dispatcher, x \in Entity, y \in Entity :
              /\ Pre(Down'[d], CreateOnClient(l, x), DestroyOnClient(l, y))
                   <=> \/ Pre(Down[d], CreateOnClient(l, x), DestroyOnClient(l, y))
                       \/ /\ d = DispatcherOf[o] /\ Has(Down[d], CreateOnClient(l, x))
                          /\ (l = c /\ y = e) \/ (l = k /\ y = o)
              /\ Pre(Down'[d], DestroyOnClient(l, x), CreateOnClient(l, y))
                   <=> \/ Pre(Down[d], DestroyOnClient(l, x), CreateOnClient(l, y))
                       \/ /\ d = DispatcherOf[o] /\ l = c /\ y = o
                          /\ Has(Down[d], DestroyOnClient(c, x)) \/ x = e \/ (c = k /\ x = o)
        BY <1>7 DEF Gives
      <3>3. CASE l # c /\ l # k
        <4>1. SameFor(Down, Down', l)
          BY <1>10, <3>2, <3>3 DEF SameFor
        <4>2. \A y \in Entity : client'[y] = l <=> client[y] = l
          BY <2>3, <3>3
        <4> QED BY <1>1, <3>1, <4>1, <4>2, ShowingKept
      <3>4. CASE l = c
        <4>1. /\ \A d \in Dispatcher, x \in Entity :
                   Has(Down'[d], CreateOnClient(c, x)) <=> d = DispatcherOf[o] /\ x = o
              /\ \A y \in Entity : client'[y] = c <=> y = o
          BY <1>4, <1>8, <1>10, <2>3
        <4>2. owner[c] # None => view[c] \subseteq {e}
          BY <1>2, <1>8, <3>1, <3>4, DispatchersOf DEF Shown
        <4>3. \A d \in Dispatcher, x \in Entity : ~Has(Down[d], DestroyOnClient(c, x))
          BY <1>2, <1>8, <3>1, <3>4 DEF Taken
        <4>4. Pre(Down'[DispatcherOf[o]], DestroyOnClient(c, e), CreateOnClient(c, o))
          BY <3>2, <3>4, DispatchersOf
        <4>5. (Shown(c))'
          BY <1>1, <4>1, <4>2, <4>4, DispatchersOf DEF Shown
        <4>6. (Taken(c))'
          BY <1>8, <1>9, <1>10, <2>3, <3>2, <3>4, <4>1, <4>3 DEF Taken
        <4>7. (Leaving(c))'
          <5>1. ASSUME sock[c] = "open", NEW x \in view[c]
                PROVE  client'[x] = c \/ \E d \in Dispatcher : Has(Down'[d], DestroyOnClient(c, x))
            <6>1. client[x] = c \/ \E d \in Dispatcher : Has(Down[d], DestroyOnClient(c, x))
              BY <3>1, <3>4, <5>1 DEF Leaving
            <6>2. x = e
              BY <1>2, <2>1, <3>1, <3>4, <4>3, <6>1, DispatchersOf DEF Following, Creating
            <6>3. Has(Down'[DispatcherOf[o]], DestroyOnClient(c, x))
              BY <1>10, <6>2, DispatchersOf
            <6> QED BY <6>3, DispatchersOf
          <5> QED BY <1>1, <4>1, <5>1, DispatchersOf DEF Leaving
        <4> QED BY <3>4, <4>5, <4>6, <4>7
      <3>5. CASE l = k
        <4>1. l # c /\ client[o] = l /\ \A y \in Entity : client'[y] # l
          BY <1>3, <2>3, <3>5, DispatchersOf
        <4>2. \A d \in Dispatcher, x \in Entity :
                Has(Down'[d], CreateOnClient(l, x)) <=> Has(Down[d], CreateOnClient(l, x))
          BY <1>10, <4>1
        <4>3. \A x \in Entity : client[x] = l => x = o
          BY <2>1, <4>1, DispatchersOf DEF Following, Creating
        <4>4. (Shown(l))'
          BY <1>1, <3>1, <3>2, <4>1, <4>2 DEF Shown
        <4>5. (Taken(l))'
          BY <4>1 DEF Taken
        <4>6. ASSUME sock[l] = "open", NEW x \in view[l]
              PROVE  client'[x] = l \/ \E d \in Dispatcher : Has(Down'[d], DestroyOnClient(l, x))
          <5>1. client[x] = l \/ \E d \in Dispatcher : Has(Down[d], DestroyOnClient(l, x))
            BY <3>1, <4>6 DEF Leaving
          <5>2. CASE client[x] = l
            BY <1>10, <3>5, <4>3, <5>2, <3>1, DispatchersOf
          <5>3. CASE \E d \in Dispatcher : Has(Down[d], DestroyOnClient(l, x))
            BY <1>10, <3>1, <5>3
          <5> QED BY <5>1, <5>2, <5>3
        <4>7. ASSUME sock[l] = "open", NEW d \in Dispatcher, NEW x \in Entity,
                     Has(Down'[d], CreateOnClient(l, x))
              PROVE  Pre(Down'[d], CreateOnClient(l, x), DestroyOnClient(l, x))
          <5>1. Has(Down[d], CreateOnClient(l, x)) /\ d = DispatcherOf[x]
            BY <2>1, <4>2, <4>7 DEF Following, Creating
          <5>2. client[x] = l \/ Pre(Down[d], CreateOnClient(l, x), DestroyOnClient(l, x))
            BY <3>1, <4>7, <5>1 DEF Leaving
          <5>3. client[x] = l => x = o
            BY <4>3
          <5> QED BY <3>2, <3>5, <5>1, <5>2, <5>3
        <4>8. (Leaving(l))'
          BY <1>1, <4>1, <4>6, <4>7 DEF Leaving
        <4> QED BY <4>4, <4>5, <4>8
      <3> QED BY <3>3, <3>4, <3>5
    <2>10. Filtering'
      <3> SUFFICES ASSUME NEW y \in Entity, client'[y] # None
                   PROVE  /\ \A x \in Dispatcher, w \in Val :
                               Final(Down'[x], SetFilterProp(client'[y], w), FilterMessages(client'[y])) =>
                                 x = DispatcherOf[y] /\ w = chosen'[y]
                          /\ \/ want[client'[y]] \in {None, chosen'[y]}
                             \/ \E x \in Dispatcher : \E n \in FilterMessages(client'[y]) : Has(Down'[x], n)
        BY <1>1 DEF Filtering
      <3>1. PICK l \in Client : l = client'[y]
        BY <1>4 DEF Inv, Typed
      <3>2. \A x \in Dispatcher :
              /\ Has(Down'[x], ClearFilterProps(l))
                   <=> \/ Has(Down[x], ClearFilterProps(l))
                       \/ x = DispatcherOf[e] /\ l = c
                       \/ x = DispatcherOf[o] /\ (l = c \/ l = k)
              /\ \A w \in Val :
                   /\ Has(Down'[x], SetFilterProp(l, w)) <=> Has(Down[x], SetFilterProp(l, w))
                   /\ Final(Down'[x], SetFilterProp(l, w), FilterMessages(l))
                        <=> /\ Final(Down[x], SetFilterProp(l, w), FilterMessages(l))
                            /\ ~(x = DispatcherOf[e] /\ l = c)
                            /\ ~(x = DispatcherOf[o] /\ (l = c \/ l = k))
        BY <1>7 DEF Gives
      <3>3. CASE y = o /\ l = c
        <4>1. \A x \in Dispatcher, w \in Val :
                Final(Down[x], SetFilterProp(c, w), FilterMessages(c)) => x = DispatcherOf[e]
          BY <1>1, <1>2, <2>1 DEF Following, Filtering
        <4>2. \A x \in Dispatcher, w \in Val : ~Final(Down'[x], SetFilterProp(l, w), FilterMessages(l))
          BY <3>2, <3>3, <4>1
        <4>3. Has(Down'[DispatcherOf[o]], ClearFilterProps(l)) /\ ClearFilterProps(l) \in FilterMessages(l)
          BY <3>2, <3>3, DispatchersOf DEF FilterMessages
        <4>4. \E x \in Dispatcher : \E n \in FilterMessages(l) : Has(Down'[x], n)
          BY <4>3, DispatchersOf
        <4> QED BY <3>1, <4>2, <4>4
      <3>4. CASE y # o /\ y # e /\ client[y] = l /\ l # c /\ l # k
        <4>1. /\ \A x \in Dispatcher, w \in Val :
                   Final(Down[x], SetFilterProp(l, w), FilterMessages(l)) =>
                     x = DispatcherOf[y] /\ w = chosen[y]
              /\ \/ want[l] \in {None, chosen[y]}
                 \/ \E x \in Dispatcher : \E n \in FilterMessages(l) : Has(Down[x], n)
          BY <2>1, <3>4, DispatchersOf DEF Following, Filtering
        <4>2. \A x \in Dispatcher : \A n \in FilterMessages(l) : Has(Down'[x], n) <=> Has(Down[x], n)
          BY <3>2, <3>4 DEF FilterMessages
        <4> QED BY <1>4, <3>1, <3>2, <3>4, <4>1, <4>2
      <3> QED BY <2>3, <3>1, <3>3, <3>4
    <2> QED BY <2>4, <2>5, <2>6, <2>7, <2>8, <2>9, <2>10 DEF Following
  <1> QED BY <1>1, <1>5, <1>12 DEF OwnerInv

\* The game reads what a dispatcher sent, and what the gate did before.
LEMMA TailReads ==
  ASSUME NEW a \in Wire(Messages), NEW d \in Dispatcher, a[d] # <<>>,
         NEW r, r = [a EXCEPT ![d] = Tail(@)]
  PROVE  Reads(a, r, d, Head(a[d]))
  <1>1. PICK s \in Seq(Messages) : s = a[d]
    BY DEF Wire
  <1>2. s # <<>> /\ r[d] = Tail(s) /\ \A x \in Dispatcher : x # d => r[x] = a[x]
    BY <1>1 DEF Wire
  <1>3. ASSUME NEW m PROVE Has(s, m) <=> Has(Tail(s), m) \/ m = Head(s)
    BY <1>2, HoldsHead
  <1>4. ASSUME NEW m, NEW n
        PROVE  Pre(s, m, n) <=> Pre(Tail(s), m, n) \/ (m = Head(s) /\ Has(Tail(s), n))
    BY <1>2, HoldsHead
  <1>5. ASSUME NEW m, NEW S
        PROVE  Final(s, m, S) <=> \/ Final(Tail(s), m, S)
                                  \/ m = Head(s) /\ \A x \in S : ~Has(Tail(s), x)
    BY <1>2, HoldsHead
  <1>6. Besides(a, r, Head(s))
    <2> SUFFICES ASSUME NEW x \in Dispatcher, NEW m, NEW n, NEW S
                 PROVE  /\ m # Head(s) => (Has(r[x], m) <=> Has(a[x], m))
                        /\ m # Head(s) /\ n # Head(s) => (Pre(r[x], m, n) <=> Pre(a[x], m, n))
                        /\ m # Head(s) /\ Head(s) \notin S => (Final(r[x], m, S) <=> Final(a[x], m, S))
      BY DEF Besides
    <2>1. CASE x # d
      BY <1>2, <2>1
    <2>2. CASE x = d
      BY <1>1, <1>2, <1>3, <1>4, <1>5, <2>2
    <2> QED BY <2>1, <2>2
  <1> QED BY <1>1, <1>2, <1>3, <1>4, <1>5, <1>6 DEF Reads

LEMMA GameReads ==
  ASSUME Inv, NEW d \in Dispatcher, HandlePacket(d)
  PROVE  /\ Head(toGame[d]) \in Messages /\ Reads(Up, Up', d, Head(toGame[d]))
         /\ Reads(toGame, toGame', d, Head(toGame[d]))
  <1>1. PICK a, b \in Wire(Messages) : a = toGame /\ b = toDisp
    BY WiresTyped
  <1>2. PICK r : r = Joined([a EXCEPT ![d] = Tail(@)], b)
    OBVIOUS
  <1>3. /\ Up' = r /\ Up = Joined(a, b) /\ a[d] # <<>>
        /\ toGame' = [a EXCEPT ![d] = Tail(@)]
    BY <1>1, <1>2 DEF HandlePacket, Up
  <1>4. Head(a[d]) \in Messages
    BY <1>3, TailTyped
  <1>5. Reads(Joined(a, b), r, d, Head(a[d]))
    BY <1>2, <1>3, JoinedRead
  <1>6. PICK w : w = [a EXCEPT ![d] = Tail(@)]
    OBVIOUS
  <1>7. Reads(a, w, d, Head(a[d]))
    BY <1>3, <1>6, TailReads
  <1> QED BY <1>1, <1>3, <1>4, <1>5, <1>6, <1>7

\* What the game may do with the packets that concern clients.
LEMMA PacketKeeps ==
  ASSUME NEW d \in Dispatcher, HandlePacket(d)
  PROVE  UNCHANGED <<sock, posts, owner, gate, want, toDisp, toGate, route, noticed, late, used, view>>
  BY DEF HandlePacket, gateVars, dispVars

\* The game hears from a dispatcher that the gate is gone: it is.
LEMMA GateDownOwner ==
  ASSUME Inv, OwnerInv, NEW d \in Dispatcher, HandlePacket(d), Head(toGame[d]) = GateDown,
         HandleNotifyGateDisconnected
  PROVE  OwnerInv'
  <1>1. Ended
    BY DEF OwnerInv
  <1>2. UNCHANGED <<sock, posts, owner, gate, want, toDisp, route, noticed, late, used, view>>
    BY PacketKeeps
  <1>3. \A y \in Entity : client'[y] = None
    BY DEF HandleNotifyGateDisconnected
  <1>4. Reads(toGame, toGame', d, GateDown)
    BY GameReads
  <1>5. /\ \A x \in Dispatcher : x # d => toGame'[x] = toGame[x]
        /\ \A x \in Dispatcher : \A n : Has(toGame'[x], n) => Has(toGame[x], n)
        /\ \A n : Has(toGame'[d], n) => Pre(toGame[d], GateDown, n)
        /\ Has(toGame[d], GateDown)
    BY <1>4 DEF Reads
  <1>6. ~gate
    <2>1. d \notin noticed => ~Has(toGame[d], GateDown)
      BY <1>1 DEF Ended
    <2>2. gate => noticed = {}
      BY <1>1 DEF Ended
    <2> QED BY <1>5, <2>1, <2>2
  <1>7. ASSUME NEW x \in Dispatcher, NEW c \in Client, NEW b \in Entity,
               Has(toGame'[x], Connected(c, b))
        PROVE  \/ c \in late
               \/ /\ ~Pre(toGame'[x], GateDown, Connected(c, b))
                  /\ x \notin noticed \/ Has(toGame'[x], GateDown)
    <2>1. \/ c \in late
          \/ /\ ~Pre(toGame[x], GateDown, Connected(c, b))
             /\ x \notin noticed \/ Has(toGame[x], GateDown)
      BY <1>1, <1>5, <1>7 DEF Ended
    <2>2. CASE x = d
      BY <1>5, <1>7, <2>1, <2>2
    <2>3. CASE x # d
      BY <1>5, <2>1, <2>3
    <2> QED BY <2>2, <2>3
  <1>8. Ended'
    BY <1>1, <1>2, <1>3, <1>5, <1>7 DEF Ended
  <1> QED BY <1>2, <1>6, <1>8 DEF OwnerInv

\* The game hears of the end of a client, which is its owner's or was.
LEMMA ClientGoneReadOwner ==
  ASSUME Inv, OwnerInv, NEW d \in Dispatcher, HandlePacket(d),
         NEW c \in Client, NEW e \in Entity \cup {None}, Head(toGame[d]) = Disconnected(c, e),
         HandleNotifyClientDisconnected(c, e)
  PROVE  OwnerInv'
  <1>1. Ended
    BY DEF OwnerInv
  <1>2. UNCHANGED <<sock, posts, owner, gate, want, toDisp, toGate, route, noticed, late, used, view>>
    BY PacketKeeps
  <1>3. /\ UNCHANGED <<live, fromGame>>
        /\ client' = [client EXCEPT ![e] = IF e \in live /\ @ = c THEN None ELSE @]
        /\ chosen' = [chosen EXCEPT ![e] = IF client'[e] = None THEN None ELSE @]
    BY DEF HandleNotifyClientDisconnected
  <1>4. Down' = Down
    BY <1>2, <1>3 DEF Down, Joined
  <1>5. \A y \in Entity :
          /\ client'[y] = IF y = e /\ e \in live /\ client[y] = c THEN None ELSE client[y]
          /\ client'[y] # None => chosen'[y] = chosen[y]
    BY <1>3 DEF Inv, Typed
  <1>6. Reads(toGame, toGame', d, Disconnected(c, e)) /\ Reads(Up, Up', d, Disconnected(c, e))
    BY GameReads
  <1>7. \A k \in Client, b \in Entity :
          /\ Connected(k, b) # Disconnected(c, e)
          /\ Disconnected(k, b) = Disconnected(c, e) <=> k = c /\ b = e
    BY MessagesDiffer
  <1>8. GateDown # Disconnected(c, e)
    BY MessageTypes
  <1>9. /\ \A x \in Dispatcher : Has(toGame'[x], GateDown) <=> Has(toGame[x], GateDown)
        /\ \A x \in Dispatcher, k \in Client, b \in Entity :
             /\ Has(toGame'[x], Connected(k, b)) <=> Has(toGame[x], Connected(k, b))
             /\ Pre(toGame'[x], GateDown, Connected(k, b)) <=> Pre(toGame[x], GateDown, Connected(k, b))
    BY <1>6, <1>7, <1>8 DEF Reads, Besides
  <1>10. \A x \in Dispatcher, k \in Client, b \in Entity :
           /\ Has(Up'[x], Connected(k, b)) <=> Has(Up[x], Connected(k, b))
           /\ Pre(Up'[x], Connected(k, b), Connected(k, b))
                <=> Pre(Up[x], Connected(k, b), Connected(k, b))
           /\ Has(Up[x], Disconnected(k, b))
                <=> Has(Up'[x], Disconnected(k, b)) \/ (x = d /\ k = c /\ b = e)
    <2>1. ASSUME NEW x \in Dispatcher, NEW n
          PROVE  Has(Up[x], n) <=> Has(Up'[x], n) \/ (x = d /\ n = Disconnected(c, e))
      <3>1. CASE x = d
        BY <1>6, <3>1 DEF Reads
      <3>2. CASE x # d
        BY <1>6, <3>2 DEF Reads
      <3> QED BY <3>1, <3>2
    <2>2. \A x \in Dispatcher : \A n : n # Disconnected(c, e) => (Pre(Up'[x], n, n) <=> Pre(Up[x], n, n))
      BY <1>6 DEF Reads, Besides
    <2> QED BY <1>7, <2>1, <2>2
  <1>11. Ended'
    <2>1. \A y \in Entity : client'[y] # None => client'[y] = client[y]
      BY <1>5
    <2> QED BY <1>1, <1>2, <1>9, <2>1 DEF Ended
  <1>12. ASSUME gate PROVE Following'
    <2>1. Following
      BY <1>12 DEF OwnerInv
    <2>2. \A k \in Client : ((Announces(k))' <=> Announces(k)) /\ ((Waiting(k))' <=> Waiting(k))
      BY <1>2, <1>10 DEF Announces, Waiting
    <2>3. \A y \in Entity : client'[y] = IF y = e /\ client[y] = c THEN None ELSE client[y]
      BY <1>5, <2>1, DispatchersOf DEF Following, Creating
    <2>4. e \in Entity => sock[c] = "shut"
      <3>1. e \in Entity => Has(Up[d], Disconnected(c, e))
        BY <1>10
      <3> QED BY <2>1, <3>1 DEF Following, Closing
    <2>5. Announcing'
      <3>1. \A k \in Client, y \in Entity : client[y] # k => client'[y] # k
        BY <2>3, DispatchersOf
      <3> QED BY <1>2, <1>3, <1>4, <1>10, <2>1, <2>2, <3>1 DEF Following, Announcing
    <2>6. Closing'
      BY <1>2, <1>10, <2>1 DEF Following, Closing
    <2>7. Routed'
      BY <1>2, <1>3, <1>4, <2>1 DEF Following, Routed
    <2>8. Creating'
      <3>1. \A y \in Entity : client'[y] = client[y] \/ client'[y] = None
        BY <2>3
      <3>2. \A k \in Client, y \in Entity : client'[y] = k => client[y] = k
        BY <3>1, DispatchersOf
      <3>3. \A y \in Entity : client'[y] # None => client[y] = client'[y]
        BY <3>1
      <3> QED BY <1>2, <1>3, <1>4, <2>1, <3>2, <3>3 DEF Following, Creating
    <2>9. Owning'
      <3> SUFFICES ASSUME NEW y \in Entity, client'[y] # None
                   PROVE  (OwnedAt(y, client[y]))'
        BY DEF Owning
      <3>1. PICK k \in Client : k = client[y] /\ k = client'[y] /\ ~(y = e /\ k = c)
        BY <2>3 DEF Inv, Typed
      <3>2. OwnedAt(y, k)
        BY <2>1, <3>1, DispatchersOf DEF Following, Owning
      <3> QED BY <1>2, <1>4, <1>10, <3>1, <3>2, DispatchersOf DEF OwnedAt
    <2>10. Showing'
      <3> SUFFICES ASSUME NEW k \in Client PROVE (Shown(k))' /\ (Taken(k))' /\ (Leaving(k))'
        BY DEF Showing
      <3>1. Shown(k) /\ Taken(k) /\ Leaving(k) /\ view[k] \subseteq Entity
        BY <2>1 DEF Following, Showing, Inv, Typed
      <3>2. \A y \in Entity : client'[y] = k => client[y] = k
        BY <2>3, DispatchersOf
      <3>3. (Shown(k))' /\ (Taken(k))'
        BY <1>2, <1>4, <3>1, <3>2 DEF Shown, Taken
      <3>4. sock[k] = "open" => \A y \in Entity : client'[y] = client[y] \/ client[y] # k
        BY <2>3, <2>4
      <3>5. (Leaving(k))'
        BY <1>2, <1>4, <3>1, <3>2, <3>4 DEF Leaving
      <3> QED BY <3>3, <3>5
    <2>11. Filtering'
      <3> SUFFICES ASSUME NEW y \in Entity, client'[y] # None
                   PROVE  /\ \A x \in Dispatcher, w \in Val :
                               Final(Down[x], SetFilterProp(client'[y], w), FilterMessages(client'[y])) =>
                                 x = DispatcherOf[y] /\ w = chosen'[y]
                          /\ \/ want[client'[y]] \in {None, chosen'[y]}
                             \/ \E x \in Dispatcher : \E n \in FilterMessages(client'[y]) : Has(Down[x], n)
        BY <1>2, <1>4 DEF Filtering
      <3>1. client'[y] = client[y] /\ chosen'[y] = chosen[y]
        BY <1>5
      <3> QED BY <2>1, <3>1 DEF Following, Filtering
    <2> QED BY <2>5, <2>6, <2>7, <2>8, <2>9, <2>10, <2>11 DEF Following
  <1> QED BY <1>2, <1>11, <1>12 DEF OwnerInv

\* What the birth of b, the entity of the new client c, sends.
Begins(q, r, b, c) ==
  /\ \A d \in Dispatcher, y \in Entity :
       /\ Has(r[d], NotifyCreate(y))
            <=> Has(q[d], NotifyCreate(y)) \/ (d = DispatcherOf[b] /\ y = b)
       /\ Has(r[d], NotifyDestroy(y)) <=> Has(q[d], NotifyDestroy(y))
  /\ \A d \in Dispatcher, k \in Client : \A x, y \in Entity :
       /\ Has(r[d], CreateOnClient(k, x))
            <=> Has(q[d], CreateOnClient(k, x)) \/ (d = DispatcherOf[b] /\ k = c /\ x = b)
       /\ Pre(r[d], CreateOnClient(k, x), CreateOnClient(k, x))
            <=> \/ Pre(q[d], CreateOnClient(k, x), CreateOnClient(k, x))
                \/ d = DispatcherOf[b] /\ k = c /\ x = b /\ Has(q[d], CreateOnClient(c, b))
       /\ Pre(r[d], NotifyCreate(x), CreateOnClient(k, x))
            <=> \/ Pre(q[d], NotifyCreate(x), CreateOnClient(k, x))
                \/ d = DispatcherOf[b] /\ k = c /\ x = b
       /\ Has(r[d], DestroyOnClient(k, x)) <=> Has(q[d], DestroyOnClient(k, x))
       /\ Pre(r[d], CreateOnClient(k, x), DestroyOnClient(k, y))
            <=> Pre(q[d], CreateOnClient(k, x), DestroyOnClient(k, y))
       /\ Pre(r[d], DestroyOnClient(k, x), CreateOnClient(k, y))
            <=> \/ Pre(q[d], DestroyOnClient(k, x), CreateOnClient(k, y))
                \/ d = DispatcherOf[b] /\ k = c /\ y = b /\ Has(q[d], DestroyOnClient(c, x))
  /\ AddsClear(q, r, c, b)

LEMMA BirthSends ==
  ASSUME Inv, NEW b \in Entity, NEW c \in Client, UNCHANGED toGate,
         fromGame' = Adopt(Via(fromGame, b, NotifyCreate(b)), b, c)
  PROVE  Begins(Down, Down', b, c)
  <1>1. PICK a, f \in Wire(Messages) : a = toGate /\ f = fromGame
    BY WiresTyped
  <1>2. PICK m \in Messages : m = NotifyCreate(b)
    BY DEF NotifyCreate, Messages
  <1>3. PICK f1 \in Wire(Messages) : f1 = Via(f, b, m)
    BY ViaTyped
  <1>4. PICK q, p \in Wire(Messages) : q = Joined(a, f) /\ p = Joined(a, f1)
    BY JoinedTyped
  <1>5. PICK r : r = Adopt(p, b, c)
    OBVIOUS
  <1>6. Down = q /\ Down' = r
    <2>1. Down' = Joined(a, Adopt(f1, b, c))
      BY <1>1, <1>2, <1>3 DEF Down, Joined
    <2> QED BY <1>1, <1>4, <1>5, <2>1, JoinedAdopt DEF Down
  <1>7. p = Via(q, b, m)
    BY <1>3, <1>4, JoinedVia
  <1>8. SameDestroys(q, p) /\ SameFilters(q, p)
    <2>1. Besides(q, p, m)
      BY <1>7, ViaBesides
    <2> QED BY <1>2, <2>1, BesidesKinds, MessageTypes
  <1>9. AddsCreate(p, r, c, b) /\ AddsClear(p, r, c, b) /\ SameNotices(p, r)
    BY <1>5, AdoptSends
  <1>10. ASSUME NEW d \in Dispatcher, NEW n, NEW o
         PROVE  /\ Has(p[d], n) <=> Has(q[d], n) \/ (d = DispatcherOf[b] /\ n = m)
                /\ Pre(p[d], n, o) <=> \/ Pre(q[d], n, o)
                                       \/ d = DispatcherOf[b] /\ Has(q[d], n) /\ o = m
    <2>1. Sends(q, p, b, m)
      BY <1>7, ViaHolds
    <2> QED BY <2>1 DEF Sends
  <1>11. /\ \A k, y : CreateOnClient(k, y) # m
         /\ \A y : NotifyDestroy(y) # m
         /\ \A y : NotifyCreate(y) = m <=> y = b
    <2>1. \A k, y : CreateOnClient(k, y).type = "createOnClient" /\ NotifyDestroy(y).type = "destroyed"
      BY MessageTypes
    <2>2. NotifyCreate(b).type = "created"
      BY MessageTypes
    <2>3. \A y : NotifyCreate(y) = NotifyCreate(b) <=> y = b
      BY DEF NotifyCreate
    <2> QED BY <1>2, <2>1, <2>2, <2>3
  <1>12. SameCreates(q, p)
    BY <1>10, <1>11 DEF SameCreates
  <1>13. \A d \in Dispatcher, y \in Entity :
           /\ Has(p[d], NotifyCreate(y))
                <=> Has(q[d], NotifyCreate(y)) \/ (d = DispatcherOf[b] /\ y = b)
           /\ Has(p[d], NotifyDestroy(y)) <=> Has(q[d], NotifyDestroy(y))
    BY <1>10, <1>11
  <1>14. AddsClear(q, r, c, b)
    BY <1>8, <1>9 DEF AddsClear, SameFilters
  <1>15. \A d \in Dispatcher, y \in Entity :
           /\ Has(r[d], NotifyCreate(y))
                <=> Has(q[d], NotifyCreate(y)) \/ (d = DispatcherOf[b] /\ y = b)
           /\ Has(r[d], NotifyDestroy(y)) <=> Has(q[d], NotifyDestroy(y))
    BY <1>9, <1>13 DEF SameNotices
  <1>16. \A d \in Dispatcher, k \in Client : \A x, y \in Entity :
           /\ Has(r[d], CreateOnClient(k, x))
                <=> Has(q[d], CreateOnClient(k, x)) \/ (d = DispatcherOf[b] /\ k = c /\ x = b)
           /\ Pre(r[d], CreateOnClient(k, x), CreateOnClient(k, x))
                <=> \/ Pre(q[d], CreateOnClient(k, x), CreateOnClient(k, x))
                    \/ d = DispatcherOf[b] /\ k = c /\ x = b /\ Has(q[d], CreateOnClient(c, b))
           /\ Pre(r[d], NotifyCreate(x), CreateOnClient(k, x))
                <=> \/ Pre(q[d], NotifyCreate(x), CreateOnClient(k, x))
                    \/ d = DispatcherOf[b] /\ k = c /\ x = b
    BY <1>9, <1>12, <1>13 DEF AddsCreate, SameCreates
  <1>17. \A d \in Dispatcher, k \in Client : \A x, y \in Entity :
           /\ Has(r[d], DestroyOnClient(k, x)) <=> Has(q[d], DestroyOnClient(k, x))
           /\ Pre(r[d], CreateOnClient(k, x), DestroyOnClient(k, y))
                <=> Pre(q[d], CreateOnClient(k, x), DestroyOnClient(k, y))
           /\ Pre(r[d], DestroyOnClient(k, x), CreateOnClient(k, y))
                <=> \/ Pre(q[d], DestroyOnClient(k, x), CreateOnClient(k, y))
                    \/ d = DispatcherOf[b] /\ k = c /\ y = b /\ Has(q[d], DestroyOnClient(c, x))
    BY <1>8, <1>9 DEF AddsCreate, SameDestroys
  <1> QED BY <1>6, <1>14, <1>15, <1>16, <1>17 DEF Begins

\* The game hears of a new client and creates the entity the gate chose for it.
LEMMA NewClientReadOwner ==
  ASSUME Inv, OwnerInv, NEW d \in Dispatcher, HandlePacket(d),
         NEW c \in Client, NEW b \in Entity, Head(toGame[d]) = Connected(c, b),
         HandleNotifyClientConnected(c, b)
  PROVE  OwnerInv'
  <1>1. Ended
    BY DEF OwnerInv
  <1>2. UNCHANGED <<sock, posts, owner, gate, want, toDisp, toGate, route, noticed, late, used, view>>
    BY PacketKeeps
  <1>3. /\ live' = live \cup {b} /\ client' = [client EXCEPT ![b] = c]
        /\ fromGame' = Adopt(Via(fromGame, b, NotifyCreate(b)), b, c)
        /\ UNCHANGED chosen
    BY DEF HandleNotifyClientConnected
  <1>4. \A y \in Entity : client'[y] = IF y = b THEN c ELSE client[y]
    BY <1>3 DEF Inv, Typed
  <1>5. Reads(toGame, toGame', d, Connected(c, b)) /\ Reads(Up, Up', d, Connected(c, b))
    BY GameReads
  <1>6. \A k \in Client, y \in Entity :
          /\ Disconnected(k, y) # Connected(c, b)
          /\ Connected(k, y) = Connected(c, b) <=> k = c /\ y = b
    BY MessagesDiffer
  <1>7. GateDown # Connected(c, b)
    BY MessageTypes
  <1>8. /\ \A x \in Dispatcher : Has(toGame'[x], GateDown) <=> Has(toGame[x], GateDown)
        /\ Has(toGame[d], Connected(c, b))
        /\ \A x \in Dispatcher : \A n : Has(toGame'[x], n) => Has(toGame[x], n)
        /\ \A x \in Dispatcher : \A n, p : Pre(toGame'[x], n, p) => Pre(toGame[x], n, p)
    <2>1. \A x \in Dispatcher : Has(toGame'[x], GateDown) <=> Has(toGame[x], GateDown)
      BY <1>5, <1>7 DEF Reads, Besides
    <2>2. ASSUME NEW x \in Dispatcher, NEW n, NEW p
          PROVE  /\ Has(toGame'[x], n) => Has(toGame[x], n)
                 /\ Pre(toGame'[x], n, p) => Pre(toGame[x], n, p)
      <3>1. CASE x = d
        BY <1>5, <3>1 DEF Reads
      <3>2. CASE x # d
        BY <1>5, <3>2 DEF Reads
      <3> QED BY <3>1, <3>2
    <2> QED BY <1>5, <2>1, <2>2 DEF Reads
  <1>9. Ended'
    <2>1. ASSUME NEW x \in Dispatcher, NEW k \in Client, NEW y \in Entity,
                 Has(toGame'[x], Connected(k, y))
          PROVE  \/ k \in late
                 \/ /\ ~Pre(toGame'[x], GateDown, Connected(k, y))
                    /\ x \notin noticed \/ Has(toGame'[x], GateDown)
      BY <1>1, <1>8, <2>1 DEF Ended
    <2>2. ASSUME ~gate, NEW y \in Entity, client'[y] # None
          PROVE  client'[y] \in late \/ \E x \in Dispatcher : x \notin noticed \/ Has(toGame'[x], GateDown)
      <3>1. CASE y = b
        <4>1. c \in late \/ d \notin noticed \/ Has(toGame[d], GateDown)
          BY <1>1, <1>8 DEF Ended
        <4> QED BY <1>4, <1>8, <3>1, <4>1
      <3>2. CASE y # b
        BY <1>1, <1>4, <1>8, <2>2, <3>2 DEF Ended
      <3> QED BY <3>1, <3>2
    <2>3. \A x \in Dispatcher : x \notin noticed => ~Has(toGame'[x], GateDown)
      BY <1>1, <1>8 DEF Ended
    <2> QED BY <1>1, <1>2, <2>1, <2>2, <2>3 DEF Ended
  <1>10. Begins(Down, Down', b, c)
    BY <1>2, <1>3, BirthSends
  <1>11. \A x \in Dispatcher, y \in Entity :
           /\ Has(Down'[x], NotifyCreate(y))
                <=> Has(Down[x], NotifyCreate(y)) \/ (x = DispatcherOf[b] /\ y = b)
           /\ Has(Down'[x], NotifyDestroy(y)) <=> Has(Down[x], NotifyDestroy(y))
    BY <1>10 DEF Begins
  <1>12. /\ \A x \in Dispatcher, k \in Client, y \in Entity :
              /\ Has(Down'[x], CreateOnClient(k, y))
                   <=> Has(Down[x], CreateOnClient(k, y)) \/ (x = DispatcherOf[b] /\ k = c /\ y = b)
              /\ Has(Down'[x], DestroyOnClient(k, y)) <=> Has(Down[x], DestroyOnClient(k, y))
         /\ AddsClear(Down, Down', c, b)
    BY <1>10 DEF Begins
  <1>13. ASSUME gate PROVE Following'
    <2>1. Following
      BY <1>13 DEF OwnerInv
    <2>2. Has(Up[d], Connected(c, b)) /\ Announces(c) /\ Waiting(c)
      BY <1>5 DEF Reads, Announces, Waiting
    <2>3. /\ view[c] = {}
          /\ \A y \in Entity : client[y] # c
          /\ \A x \in Dispatcher : /\ \A y \in Entity : /\ ~Has(Down[x], CreateOnClient(c, y))
                                                        /\ ~Has(Down[x], DestroyOnClient(c, y))
                                   /\ \A v \in Val : ~Has(Down[x], SetFilterProp(c, v))
      BY <2>1, <2>2 DEF Following, Announcing
    <2>4. /\ d = DispatcherOf[b] /\ b \in used /\ b \notin live
          /\ \A x \in Dispatcher : ~Has(Down[x], NotifyDestroy(b))
          /\ ~Pre(Up[d], Connected(c, b), Connected(c, b))
          /\ \A x \in Dispatcher, k \in Client, y \in Entity :
               Has(Up[x], Connected(k, y)) => (k = c <=> y = b)
      BY <2>1, <2>2 DEF Following, Announcing
    <2>5. client[b] = None
      BY <2>1, <2>4 DEF Following, Creating
    <2>6. /\ \A x \in Dispatcher, k \in Client, y \in Entity :
               /\ Has(Up'[x], Connected(k, y)) => Has(Up[x], Connected(k, y)) /\ k # c /\ y # b
               /\ Pre(Up'[x], Connected(k, y), Connected(k, y)) =>
                    Pre(Up[x], Connected(k, y), Connected(k, y))
               /\ Has(Up'[x], Disconnected(k, y)) <=> Has(Up[x], Disconnected(k, y))
      <3>1. ASSUME NEW x \in Dispatcher, NEW n, NEW p
            PROVE  /\ Has(Up'[x], n) => Has(Up[x], n)
                   /\ Pre(Up'[x], n, p) => Pre(Up[x], n, p)
        <4>1. CASE x = d
          BY <1>5, <4>1 DEF Reads
        <4>2. CASE x # d
          BY <1>5, <4>2 DEF Reads
        <4> QED BY <4>1, <4>2
      <3>2. \A x \in Dispatcher, k \in Client, y \in Entity :
              Has(Up'[x], Disconnected(k, y)) <=> Has(Up[x], Disconnected(k, y))
        BY <1>5, <1>6 DEF Reads, Besides
      <3>3. ~Has(Up'[d], Connected(c, b))
        BY <1>5, <2>4 DEF Reads
      <3>4. \A x \in Dispatcher : x # d => ~Has(Up[x], Connected(c, b))
        BY <2>1, <2>4 DEF Following, Announcing
      <3>5. ASSUME NEW x \in Dispatcher, NEW k \in Client, NEW y \in Entity,
                   Has(Up'[x], Connected(k, y))
            PROVE  k # c /\ y # b
        <4>1. Has(Up[x], Connected(k, y))
          BY <3>1, <3>5
        <4>2. k = c <=> y = b
          BY <2>4, <4>1
        <4>3. ~(k = c /\ y = b)
          BY <3>3, <3>4, <3>5, <4>1
        <4> QED BY <4>2, <4>3
      <3> QED BY <3>1, <3>2, <3>5
    <2>7. \A k \in Client : /\ (Announces(k))' => Announces(k) /\ k # c
                            /\ (Waiting(k))' => Waiting(k) /\ k # c
      <3>1. \A k \in Client : (Announces(k))' => Announces(k) /\ k # c
        BY <2>6 DEF Announces
      <3>2. sock[c] # "new" /\ ~Has(posts, NewPost(c))
        BY <2>1, <2>2 DEF Following, Announcing
      <3> QED BY <1>2, <3>1, <3>2 DEF Waiting
    <2>8. \A k \in Client : k # c => \A y \in Entity : client'[y] = k <=> client[y] = k
      BY <1>4, <2>5, DispatchersOf
    <2>9. \A y \in Entity : client'[y] = c <=> y = b
      BY <1>4, <2>3
    <2>10. Announcing'
      <3>1. /\ \A k \in Client : sock'[k] = "new" =>
                 ~Has(posts', NewPost(k)) /\ owner'[k] = None /\ ~(Announces(k))'
            /\ \A k \in Client : Has(posts', NewPost(k)) => owner'[k] = None /\ ~(Announces(k))'
            /\ \A k \in Client : ~Pre(posts', NewPost(k), NewPost(k)) /\ ~Pre(posts', ClosePost(k), NewPost(k))
        BY <1>2, <2>1, <2>7 DEF Following, Announcing
      <3>2. ASSUME NEW x \in Dispatcher, NEW k \in Client, NEW y \in Entity,
                   Has(Up'[x], Connected(k, y))
            PROVE  /\ x = DispatcherOf[y] /\ y \in used' /\ y \notin live' /\ y \notin route'
                   /\ \A z \in Dispatcher : ~Has(Down'[z], NotifyCreate(y)) /\ ~Has(Down'[z], NotifyDestroy(y))
                   /\ ~Pre(Up'[x], Connected(k, y), Connected(k, y))
                   /\ \A z \in Dispatcher, l \in Client, e \in Entity :
                        Has(Up'[z], Connected(l, e)) => (l = k <=> e = y)
        <4>1. Has(Up[x], Connected(k, y)) /\ k # c /\ y # b
          BY <2>6, <3>2
        <4> QED BY <1>2, <1>3, <1>11, <2>1, <2>6, <4>1 DEF Following, Announcing
      <3>3. ASSUME NEW k \in Client, (Waiting(k))'
            PROVE  /\ view'[k] = {}
                   /\ \A y \in Entity : client'[y] # k
                   /\ \A x \in Dispatcher :
                        /\ \A y \in Entity : /\ ~Has(Down'[x], CreateOnClient(k, y))
                                             /\ ~Has(Down'[x], DestroyOnClient(k, y))
                        /\ \A w \in Val : ~Has(Down'[x], SetFilterProp(k, w))
        <4>1. Waiting(k) /\ k # c
          BY <2>7, <3>3
        <4>2. /\ view[k] = {}
              /\ \A y \in Entity : client[y] # k
              /\ \A x \in Dispatcher :
                   /\ \A y \in Entity : /\ ~Has(Down[x], CreateOnClient(k, y))
                                        /\ ~Has(Down[x], DestroyOnClient(k, y))
                   /\ \A w \in Val : ~Has(Down[x], SetFilterProp(k, w))
          BY <2>1, <4>1 DEF Following, Announcing
        <4> QED BY <1>2, <1>12, <2>8, <4>1, <4>2 DEF AddsClear
      <3> QED BY <3>1, <3>2, <3>3 DEF Announcing
    <2>11. Closing'
      BY <1>2, <2>1, <2>6 DEF Following, Closing
    <2>12. Routed'
      <3>1. \A y \in live' : y \in live \/ y = b
        BY <1>3
      <3> QED BY <1>2, <1>11, <2>1, <2>4, <3>1, DispatchersOf DEF Following, Routed, Inv, Typed
    <2>13. Creating'
      <3>1. \A y \in Entity : client'[y] # None => y \in live'
        BY <1>3, <1>4, <2>1 DEF Following, Creating
      <3>2. \A y, f \in Entity : client'[y] = client'[f] /\ client'[y] # None => y = f
        BY <1>4, <2>1, <2>3 DEF Following, Creating
      <3>3. ASSUME NEW x \in Dispatcher, NEW k \in Client, NEW y \in Entity,
                   Has(Down'[x], CreateOnClient(k, y))
            PROVE  /\ x = DispatcherOf[y]
                   /\ ~Pre(Down'[x], CreateOnClient(k, y), CreateOnClient(k, y))
                   /\ \A z \in Dispatcher, f \in Entity : Has(Down'[z], CreateOnClient(k, f)) => f = y
                   /\ \A f \in Entity : client'[f] = k => f = y
                   /\ client'[y] = k => y \in route \/ Pre(Down'[x], NotifyCreate(y), CreateOnClient(k, y))
        <4>1. /\ Pre(Down'[x], CreateOnClient(k, y), CreateOnClient(k, y))
                   <=> \/ Pre(Down[x], CreateOnClient(k, y), CreateOnClient(k, y))
                       \/ x = DispatcherOf[b] /\ k = c /\ y = b /\ Has(Down[x], CreateOnClient(c, b))
              /\ Pre(Down'[x], NotifyCreate(y), CreateOnClient(k, y))
                   <=> \/ Pre(Down[x], NotifyCreate(y), CreateOnClient(k, y))
                       \/ x = DispatcherOf[b] /\ k = c /\ y = b
          BY <1>10 DEF Begins
        <4>2. CASE k = c
          <5>1. x = DispatcherOf[b] /\ y = b
            BY <1>12, <2>3, <3>3, <4>2
          <5>2. ~Pre(Down[x], CreateOnClient(k, y), CreateOnClient(k, y))
            BY <2>3, <4>2 DEF Pre, Has
          <5>3. \A z \in Dispatcher, f \in Entity : Has(Down'[z], CreateOnClient(k, f)) => f = y
            BY <1>12, <2>3, <4>2, <5>1
          <5> QED BY <2>3, <2>9, <4>1, <4>2, <5>1, <5>2, <5>3
        <4>3. CASE k # c
          <5>1. Has(Down[x], CreateOnClient(k, y))
            BY <1>12, <3>3, <4>3
          <5>2. /\ x = DispatcherOf[y]
                /\ ~Pre(Down[x], CreateOnClient(k, y), CreateOnClient(k, y))
                /\ \A z \in Dispatcher, f \in Entity : Has(Down[z], CreateOnClient(k, f)) => f = y
                /\ \A f \in Entity : client[f] = k => f = y
                /\ client[y] = k => y \in route \/ Pre(Down[x], NotifyCreate(y), CreateOnClient(k, y))
            BY <2>1, <5>1 DEF Following, Creating
          <5>3. \A z \in Dispatcher, f \in Entity : Has(Down'[z], CreateOnClient(k, f)) => f = y
            BY <1>12, <4>3, <5>2
          <5> QED BY <2>8, <4>1, <4>3, <5>2, <5>3
        <4> QED BY <4>2, <4>3
      <3> QED BY <1>2, <3>1, <3>2, <3>3 DEF Creating
    <2>14. Owning'
      <3> SUFFICES ASSUME NEW y \in Entity, client'[y] # None
                   PROVE  (OwnedAt(y, client[y]))'
        BY DEF Owning
      <3>1. CASE y = b
        BY <1>4, <1>12, <3>1, DispatchersOf DEF OwnedAt
      <3>2. CASE y # b
        <4>1. PICK k \in Client : k = client[y] /\ k = client'[y]
          BY <1>4, <3>2 DEF Inv, Typed
        <4>2. OwnedAt(y, k)
          BY <2>1, <4>1, DispatchersOf DEF Following, Owning
        <4> QED BY <1>2, <1>12, <2>6, <4>1, <4>2, DispatchersOf DEF OwnedAt
      <3> QED BY <3>1, <3>2
    <2>15. Showing'
      <3> SUFFICES ASSUME NEW k \in Client PROVE (Shown(k))' /\ (Taken(k))' /\ (Leaving(k))'
        BY DEF Showing
      <3>1. Shown(k) /\ Taken(k) /\ Leaving(k)
        BY <2>1 DEF Following, Showing
      <3>2. CASE k # c
        <4>1. SameFor(Down, Down', k)
          BY <1>10, <3>2 DEF Begins, SameFor
        <4> QED BY <1>2, <2>8, <3>1, <3>2, <4>1, ShowingKept
      <3>3. CASE k = c
        <4>1. \A x \in Dispatcher, y \in Entity :
                /\ Has(Down'[x], CreateOnClient(c, y)) <=> x = DispatcherOf[b] /\ y = b
                /\ ~Has(Down'[x], DestroyOnClient(c, y))
          BY <1>12, <2>3
        <4>2. view'[c] = {}
          BY <1>2, <2>3
        <4>3. \A x \in Dispatcher, y \in Entity, z \in Entity :
                ~Pre(Down'[x], CreateOnClient(c, y), DestroyOnClient(c, z))
          BY <4>1 DEF Pre, Has
        <4>4. (Shown(c))'
          BY <4>2 DEF Shown
        <4>5. (Taken(c))'
          BY <4>1, <4>3 DEF Taken
        <4>6. (Leaving(c))'
          BY <2>9, <4>1, <4>2, DispatchersOf DEF Leaving
        <4> QED BY <3>3, <4>4, <4>5, <4>6
      <3> QED BY <3>2, <3>3
    <2>16. Filtering'
      <3> SUFFICES ASSUME NEW y \in Entity, client'[y] # None
                   PROVE  /\ \A x \in Dispatcher, w \in Val :
                               Final(Down'[x], SetFilterProp(client'[y], w), FilterMessages(client'[y])) =>
                                 x = DispatcherOf[y] /\ w = chosen[y]
                          /\ \/ want[client'[y]] \in {None, chosen[y]}
                             \/ \E x \in Dispatcher : \E n \in FilterMessages(client'[y]) : Has(Down'[x], n)
        BY <1>2, <1>3 DEF Filtering
      <3>1. CASE y = b
        <4>1. client'[y] = c
          BY <1>4, <3>1
        <4>2. \A x \in Dispatcher, w \in Val : ~Final(Down'[x], SetFilterProp(c, w), FilterMessages(c))
          <5>1. \A x \in Dispatcher, w \in Val : ~Final(Down[x], SetFilterProp(c, w), FilterMessages(c))
            BY <2>3 DEF Final, Has
          <5> QED BY <1>12, <5>1 DEF AddsClear
        <4>3. Has(Down'[DispatcherOf[b]], ClearFilterProps(c)) /\ ClearFilterProps(c) \in FilterMessages(c)
          BY <1>12, DispatchersOf DEF AddsClear, FilterMessages
        <4>4. \E x \in Dispatcher : \E n \in FilterMessages(c) : Has(Down'[x], n)
          BY <4>3, DispatchersOf
        <4> QED BY <4>1, <4>2, <4>4
      <3>2. CASE y # b
        <4>1. PICK k \in Client : k = client[y] /\ k = client'[y]
          BY <1>4, <3>2 DEF Inv, Typed
        <4>2. k # c
          BY <2>3, <4>1
        <4>3. /\ \A x \in Dispatcher, w \in Val :
                   Final(Down[x], SetFilterProp(k, w), FilterMessages(k)) =>
                     x = DispatcherOf[y] /\ w = chosen[y]
              /\ \/ want[k] \in {None, chosen[y]}
                 \/ \E x \in Dispatcher : \E n \in FilterMessages(k) : Has(Down[x], n)
          BY <2>1, <4>1, DispatchersOf DEF Following, Filtering
        <4>4. \A x \in Dispatcher : \A n \in FilterMessages(k) : Has(Down'[x], n) <=> Has(Down[x], n)
          <5>1. \A x \in Dispatcher :
                  /\ Has(Down'[x], ClearFilterProps(k)) <=> Has(Down[x], ClearFilterProps(k))
                  /\ \A v \in Val : Has(Down'[x], SetFilterProp(k, v)) <=> Has(Down[x], SetFilterProp(k, v))
            BY <1>12, <4>2 DEF AddsClear
          <5> QED BY <5>1 DEF FilterMessages
        <4>5. \A x \in Dispatcher, w \in Val :
                Final(Down'[x], SetFilterProp(k, w), FilterMessages(k))
                  <=> Final(Down[x], SetFilterProp(k, w), FilterMessages(k))
          BY <1>12, <4>2 DEF AddsClear
        <4> QED BY <4>1, <4>3, <4>4, <4>5
      <3> QED BY <3>1, <3>2
    <2> QED BY <2>10, <2>11, <2>12, <2>13, <2>14, <2>15, <2>16 DEF Following
  <1> QED BY <1>2, <1>9, <1>13 DEF OwnerInv

LEMMA HandlePacketOwner ==
  ASSUME Inv, OwnerInv, NEW d \in Dispatcher, HandlePacket(d)
  PROVE  OwnerInv'
  <1>1. PICK m \in Messages : m = Head(toGame[d])
    <2>1. Head(toGame[d]) \in Messages
      BY GameReads
    <2> QED BY <2>1
  <1>2. \/ m.type = "connected" /\ HandleNotifyClientConnected(m.client, m.entity)
        \/ m.type = "disconnected" /\ HandleNotifyClientDisconnected(m.client, m.entity)
        \/ m.type = "gateDown" /\ HandleNotifyGateDisconnected
    BY <1>1 DEF HandlePacket
  <1>3. CASE m.type = "connected" /\ HandleNotifyClientConnected(m.client, m.entity)
    <2>1. PICK c \in Client, b \in Entity : c = m.client /\ b = m.entity
      BY <1>3, MessageFields
    <2>2. Head(toGame[d]) = Connected(c, b) /\ HandleNotifyClientConnected(c, b)
      BY <1>1, <1>3, <2>1, MessageIs
    <2> QED BY <2>2, NewClientReadOwner
  <1>4. CASE m.type = "disconnected" /\ HandleNotifyClientDisconnected(m.client, m.entity)
    <2>1. PICK c \in Client, e \in Entity \cup {None} : c = m.client /\ e = m.entity
      BY <1>4, MessageFields
    <2>2. Head(toGame[d]) = Disconnected(c, e) /\ HandleNotifyClientDisconnected(c, e)
      BY <1>1, <1>4, <2>1, MessageIs
    <2> QED BY <2>2, ClientGoneReadOwner
  <1>5. CASE m.type = "gateDown" /\ HandleNotifyGateDisconnected
    <2>1. Head(toGame[d]) = GateDown
      BY <1>1, <1>5, MessageIs
    <2> QED BY <1>5, <2>1, GateDownOwner
  <1> QED BY <1>2, <1>3, <1>4, <1>5

-----------------------------------------------------------------------------
(* Owners: the theorems                                                     *)

LEMMA InitOwner ==
  ASSUME Init
  PROVE  OwnerInv
  <1>1. Up = [d \in Dispatcher |-> <<>>] /\ Down = [d \in Dispatcher |-> <<>>]
    BY DEF Init, Up, Down, Joined
  <1>2. \A d \in Dispatcher : \A m, n, S :
          /\ ~Has(Up[d], m) /\ ~Pre(Up[d], m, n)
          /\ ~Has(Down[d], m) /\ ~Pre(Down[d], m, n) /\ ~Final(Down[d], m, S)
          /\ ~Has(toDisp[d], m) /\ ~Has(toGame[d], m) /\ ~Has(toGate[d], m)
    BY <1>1, HoldsNothing DEF Init
  <1>3. \A m, n : ~Has(posts, m) /\ ~Pre(posts, m, n)
    BY HoldsNothing DEF Init
  <1>4. /\ \A c \in Client : /\ sock[c] = "new" /\ owner[c] = None /\ want[c] = None
                             /\ view[c] = {}
        /\ \A e \in Entity : client[e] = None
        /\ gate /\ noticed = {} /\ live = {} /\ route = {} /\ used = {}
    BY DEF Init
  <1>5. \A c \in Client : ~Announces(c)
    BY <1>2 DEF Announces
  <1>6. Ended
    BY <1>2, <1>4 DEF Ended
  <1>7. Announcing
    BY <1>2, <1>3, <1>4, <1>5, DispatchersOf DEF Announcing
  <1>8. Closing
    BY <1>2, <1>3, <1>4 DEF Closing
  <1>9. Routed /\ Creating /\ Owning /\ Filtering
    BY <1>2, <1>4, DispatchersOf DEF Routed, Creating, Owning, Filtering
  <1>10. Showing
    BY <1>2, <1>4, DispatchersOf DEF Showing, Shown, Taken, Leaving
  <1> QED BY <1>6, <1>7, <1>8, <1>9, <1>10 DEF OwnerInv, Following

\* Nothing happens.
LEMMA StutterOwner ==
  ASSUME OwnerInv, UNCHANGED vars
  PROVE  OwnerInv'
  <1>1. UNCHANGED <<sock, posts, owner, gate, want, toDisp, toGame, fromGame, toGate, route, noticed,
                    late, client, live, chosen, used, view>>
    BY DEF vars, gateVars, wires, dispVars, gameVars
  <1>2. Up' = Up /\ Down' = Down
    BY <1>1 DEF Up, Down, Joined
  <1>3. Ended'
    BY <1>1 DEF OwnerInv, Ended
  <1>4. ASSUME gate PROVE Following'
    <2>1. Following
      BY <1>4 DEF OwnerInv
    <2>2. \A c \in Client : ((Announces(c))' <=> Announces(c)) /\ ((Waiting(c))' <=> Waiting(c))
      BY <1>1, <1>2 DEF Announces, Waiting
    <2>3. Announcing' /\ Closing'
      BY <1>1, <1>2, <2>1, <2>2 DEF Following, Announcing, Closing
    <2>4. Routed' /\ Creating' /\ Filtering'
      BY <1>1, <1>2, <2>1 DEF Following, Routed, Creating, Filtering
    <2>5. Owning'
      BY <1>1, <1>2, <2>1 DEF Following, Owning, OwnedAt
    <2>6. Showing'
      BY <1>1, <1>2, <2>1 DEF Following, Showing, Shown, Taken, Leaving
    <2> QED BY <2>3, <2>4, <2>5, <2>6 DEF Following
  <1> QED BY <1>1, <1>3, <1>4 DEF OwnerInv

\* What is said of owners is inductive, if a game gives no client away before the
\* client knows of its owner (GiveClientTo).
THEOREM OwnershipInductive ==
  ~Eager => (Inv /\ OwnerInv /\ [Next]_vars => OwnerInv')
  <1> SUFFICES ASSUME ~Eager, Inv, OwnerInv, [Next]_vars
               PROVE  OwnerInv'
    OBVIOUS
  <1>1. ASSUME NEW c \in Client, Connect(c) \/ Disconnect(c) PROVE OwnerInv'
    BY <1>1, ConnectOwner, DisconnectOwner
  <1>2. CASE PostTick
    BY <1>2, PostTickOwner
  <1>3. CASE GateDies
    BY <1>3, GateDiesOwner
  <1>4. ASSUME NEW d \in Dispatcher, HandleDispatcherClientPacket(d) PROVE OwnerInv'
    BY <1>4, HandleDispatcherClientPacketOwner
  <1>5. ASSUME NEW d \in Dispatcher, HandlePacket(d) PROVE OwnerInv'
    BY <1>5, HandlePacketOwner
  <1>6. ASSUME NEW d \in Dispatcher, ServeGate(d) PROVE OwnerInv'
    BY <1>6, ServeGateOwner
  <1>7. ASSUME NEW d \in Dispatcher, ServeGame(d) PROVE OwnerInv'
    BY <1>7, ServeGameOwner
  <1>8. ASSUME NEW d \in Dispatcher, GateDisconnected(d) PROVE OwnerInv'
    BY <1>8, GateDisconnectedOwner
  <1>9. ASSUME NEW e \in Entity, CreateEntity(e) PROVE OwnerInv'
    BY <1>9, CreateEntityOwner
  <1>10. ASSUME NEW e \in Entity, Destroy(e) PROVE OwnerInv'
    BY <1>10, DestroyOwner
  <1>11. ASSUME NEW e \in Entity, NEW o \in Entity, GiveClientTo(e, o) PROVE OwnerInv'
    BY <1>11, GiveClientToOwner
  <1>12. ASSUME NEW e \in Entity, NEW v \in Val, SetClientFilterProp(e, v) PROVE OwnerInv'
    BY <1>12, SetClientFilterPropOwner
  <1>13. CASE UNCHANGED vars
    BY <1>13, StutterOwner
  <1> QED BY <1>1, <1>2, <1>3, <1>4, <1>5, <1>6, <1>7, <1>8, <1>9, <1>10, <1>11,
             <1>12, <1>13 DEF Next

LEMMA SpecOwner ==
  ~Eager => (Spec => [](Inv /\ OwnerInv))
  <1> SUFFICES ASSUME ~Eager PROVE Spec => [](Inv /\ OwnerInv)
    OBVIOUS
  <1>1. Init => Inv /\ OwnerInv
    BY InitInv, InitOwner
  <1>2. (Inv /\ OwnerInv) /\ [Next]_vars => (Inv /\ OwnerInv)'
    BY Inductive, OwnershipInductive
  <1> QED BY <1>1, <1>2, PTL DEF Spec

\* When everything is handled nothing is on its way.
LEMMA NothingLeft ==
  ASSUME Inv, Quiet
  PROVE  /\ \A d \in Dispatcher : \A m, n, S :
              /\ ~Has(Up[d], m) /\ ~Has(Down[d], m) /\ ~Has(toGame[d], m)
              /\ ~Pre(Down[d], m, n) /\ ~Final(Down[d], m, S)
         /\ \A m : ~Has(posts, m)
         /\ gate \/ noticed = Dispatcher
  <1>1. ASSUME NEW d \in Dispatcher
        PROVE  Up[d] = <<>> /\ Down[d] = <<>> /\ toGame[d] = <<>>
    <2>1. PICK s, t, u, v \in Seq(Messages) :
            s = toDisp[d] /\ t = toGame[d] /\ u = fromGame[d] /\ v = toGate[d]
      BY WiresTyped DEF Wire
    <2>2. s \o t \o u \o v = <<>>
      BY <2>1 DEF Quiet
    <2>3. s = <<>> /\ t = <<>> /\ u = <<>> /\ v = <<>>
      <3>1. Len(s \o t \o u \o v) = Len(s) + Len(t) + Len(u) + Len(v)
        OBVIOUS
      <3>2. Len(s) = 0 /\ Len(t) = 0 /\ Len(u) = 0 /\ Len(v) = 0
        BY <2>2, <3>1
      <3> QED BY <3>2
    <2>4. Up[d] = t \o s /\ Down[d] = v \o u
      BY <2>1 DEF Up, Down, Joined
    <2> QED BY <2>1, <2>3, <2>4
  <1> QED BY <1>1, HoldsNothing DEF Quiet

\* Once everything is handled, no entity keeps a client that is gone, unless the
\* client was announced to the game after the end of its gate
\* (handleDispatcherClientPacket, onClientProxyClose).
THEOREM GoneClientsLeft ==
  ~Eager => (Spec => []NoGhosts)
  <1>1. Inv /\ OwnerInv => NoGhosts
    <2> SUFFICES ASSUME Inv, OwnerInv, Quiet, NEW e \in Entity, client[e] # None
                 PROVE  sock[client[e]] = "open" \/ client[e] \in late
      BY DEF NoGhosts
    <2>1. PICK c \in Client : c = client[e]
      BY DEF Inv, Typed
    <2>2. CASE gate
      <3>1. Following
        BY <2>2 DEF OwnerInv
      <3>2. owner[c] = e
        BY <2>1, <3>1, NothingLeft, DispatchersOf DEF Following, Owning, OwnedAt
      <3>3. sock[c] # "shut"
        BY <3>1, <3>2, NothingLeft, DispatchersOf DEF Following, Closing
      <3>4. sock[c] # "new"
        BY <3>1, <3>2, DispatchersOf DEF Following, Announcing
      <3> QED BY <2>1, <3>3, <3>4 DEF Inv, Typed
    <2>3. CASE ~gate
      BY <2>3, NothingLeft DEF OwnerInv, Ended
    <2> QED BY <2>2, <2>3
  <1> QED BY <1>1, SpecOwner, PTL

\* Once everything is handled, the gate knows the owner of each client
\* (handleCreateEntityOnClient, GiveClientTo).
THEOREM OwnersKnown ==
  ~Eager => (Spec => []OwnerKnown)
  <1>1. Inv /\ OwnerInv => OwnerKnown
    <2> SUFFICES ASSUME Inv, OwnerInv, Quiet, gate, NEW e \in Entity, client[e] # None
                 PROVE  owner[client[e]] = e
      BY DEF OwnerKnown
    <2>1. PICK c \in Client : c = client[e]
      BY DEF Inv, Typed
    <2>2. OwnedAt(e, c)
      BY <2>1, DispatchersOf DEF OwnerInv, Following, Owning
    <2> QED BY <2>1, <2>2, NothingLeft, DispatchersOf DEF OwnedAt
  <1> QED BY <1>1, SpecOwner, PTL

\* A client never has two entities of its own: the old one is taken away before the
\* new one is shown, whichever dispatchers the two belong to (SetClient, GiveClientTo).
THEOREM OneEntityShown ==
  ~Eager => (Spec => []OneOwnEntity)
  <1>1. OwnerInv => OneOwnEntity
    <2> SUFFICES ASSUME OwnerInv, NEW c \in Client PROVE Cardinality(view[c]) <= 1
      BY DEF OneOwnEntity
    <2>1. \A x, y \in view[c] : x = y
      BY DEF OwnerInv, Ended
    <2>2. CASE view[c] = {}
      BY <2>2, FS_EmptySet
    <2>3. CASE view[c] # {}
      <3>1. PICK x : view[c] = {x}
        BY <2>1, <2>3
      <3>2. Cardinality({x}) = 1
        BY FS_Singleton, Zenon
      <3> QED BY <3>1, <3>2
    <2> QED BY <2>2, <2>3
  <1> QED BY <1>1, SpecOwner, PTL

\* Once everything is handled, a client shows exactly the entity that owns it
\* (SetClient, Destroy, GiveClientTo).
THEOREM ViewsAgree ==
  ~Eager => (Spec => []ViewAgrees)
  <1>1. Inv /\ OwnerInv => ViewAgrees
    <2> SUFFICES ASSUME Inv, OwnerInv, Quiet, NEW c \in Client, sock[c] = "open"
                 PROVE  view[c] = {e \in Entity : client[e] = c}
      BY DEF ViewAgrees
    <2>1. Following
      BY DEF OwnerInv, Ended
    <2>2. Leaving(c) /\ view[c] \subseteq Entity
      BY <2>1 DEF Following, Showing, Inv, Typed
    <2>3. \A e \in Entity : client[e] = c => e \in view[c]
      BY <2>2, NothingLeft, DispatchersOf DEF Leaving
    <2>4. \A x \in view[c] : client[x] = c
      BY <2>2, NothingLeft DEF Leaving
    <2> QED BY <2>2, <2>3, <2>4
  <1> QED BY <1>1, SpecOwner, PTL

\* Once everything is handled, no client is filtered by what an earlier owner set
\* (SendClearClientFilterProp).
THEOREM FiltersFollow ==
  ~Eager => (Spec => []NoStaleFilter)
  <1>1. Inv /\ OwnerInv => NoStaleFilter
    <2> SUFFICES ASSUME Inv, OwnerInv, Quiet, NEW e \in Entity, client[e] # None
                 PROVE  want[client[e]] \in {None, chosen[e]}
      BY DEF NoStaleFilter
    <2>1. PICK c \in Client : c = client[e]
      BY DEF Inv, Typed
    <2>2. CASE gate
      <3>1. \/ want[c] \in {None, chosen[e]}
            \/ \E d \in Dispatcher : \E m \in FilterMessages(c) : Has(Down[d], m)
        BY <2>1, <2>2, DispatchersOf DEF OwnerInv, Following, Filtering
      <3> QED BY <2>1, <3>1, NothingLeft
    <2>3. CASE ~gate
      BY <2>1, <2>3 DEF OwnerInv, Ended
    <2> QED BY <2>2, <2>3
  <1> QED BY <1>1, SpecOwner, PTL
=============================================================================
