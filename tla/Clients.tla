------------------------------- MODULE Clients -------------------------------
(***************************************************************************)
(* Who owns a client: the gate's client proxies and filter trees, the      *)
(* entities a game gives a client to, and what the client itself sees.     *)
(* components/gate, and the client operations of engine/entity.            *)
(*                                                                         *)
(* Gate and game talk through every dispatcher: a message about an entity  *)
(* takes the dispatcher of that entity, or the one of the client's owner,  *)
(* so two messages about one client may take different ways. There is one  *)
(* gate and one game; a route is all that is left of a dispatcher.         *)
(***************************************************************************)
EXTENDS Naturals, FiniteSets, SequencesExt

CONSTANTS
  Client, Entity, Dispatcher, None,
  DispatcherOf,   \* EntityIDToDispatcherID
  Val,            \* the values of the one filter property
  Eager,          \* may a game give a client away before the client knows of its owner?
  MaxOps, MaxGateDeaths   \* bounds on what the game does on its own, and on crashes

ASSUME DispatcherAssumption == DispatcherOf \in [Entity -> Dispatcher]
ASSUME ValAssumption == Val \subseteq Nat /\ Eager \in BOOLEAN
ASSUME NobodyAssumption == None \notin Client \cup Entity \cup Val
ASSUME LimitAssumption == MaxOps \in Nat /\ MaxGateDeaths \in Nat

VARIABLES
  sock,       \* the connection between a client and the gate
  posts,      \* functions posted to the gate's main routine
  owner,      \* ownerEntityID of the proxies in clientProxies, None if not there
  prop,       \* filterProps of a proxy
  tree,       \* filterTrees: the items of the property's tree
  gate,       \* does the gate process run?
  toDisp,     \* sent by the gate to a dispatcher, not handled there yet
  toGame,     \* sent by a dispatcher to the game, not handled there yet
  fromGame,   \* sent by the game to a dispatcher, not handled there yet
  toGate,     \* sent by a dispatcher to the gate, not handled there yet
  route,      \* entities that have an entityDispatchInfo
  noticed,    \* dispatchers that handled the gate's disconnect
  client,     \* the client of each entity of the game
  live,       \* entities in the game's entityManager
  used,       \* entity ids given out
  view,       \* entities the client was told to create as its own
  want,       \* history: the property the gate was last told to set, unless cleared
  chosen,     \* history: the property the client's owner last set
  late,       \* history: clients announced to the game after their gate's end
  budget      \* what remains of each bound

gateVars == <<sock, posts, owner, prop, tree, gate, want>>
wires == <<toDisp, toGame, fromGame, toGate>>
dispVars == <<route, noticed, late>>
gameVars == <<client, live, chosen>>
vars == <<gateVars, wires, dispVars, gameVars, used, view, budget>>

Limits == [op |-> MaxOps, death |-> MaxGateDeaths]

Spend(k) == /\ budget[k] > 0
            /\ budget' = [budget EXCEPT ![k] = @ - 1]

-----------------------------------------------------------------------------
(* Messages *)

Connected(c, e) == [type |-> "connected", client |-> c, entity |-> e]
Disconnected(c, e) == [type |-> "disconnected", client |-> c, entity |-> e]
GateDown == [type |-> "gateDown"]
NotifyCreate(e) == [type |-> "created", entity |-> e]
NotifyDestroy(e) == [type |-> "destroyed", entity |-> e]
CreateOnClient(c, e) == [type |-> "createOnClient", client |-> c, entity |-> e]
DestroyOnClient(c, e) == [type |-> "destroyOnClient", client |-> c, entity |-> e]
SetFilterProp(c, v) == [type |-> "setFilterProp", client |-> c, val |-> v]
ClearFilterProps(c) == [type |-> "clearFilterProps", client |-> c]

Messages ==
  {GateDown}
    \cup [type : {"connected", "createOnClient", "destroyOnClient"},
          client : Client, entity : Entity]
    \cup [type : {"disconnected"}, client : Client, entity : Entity \cup {None}]
    \cup [type : {"created", "destroyed"}, entity : Entity]
    \cup [type : {"setFilterProp"}, client : Client, val : Val]
    \cup [type : {"clearFilterProps"}, client : Client]

\* The queues q after m was written to the dispatcher of e.
Via(q, e, m) == [q EXCEPT ![DispatcherOf[e]] = Append(@, m)]

-----------------------------------------------------------------------------
(* Filter trees. An item is <<val, client>>; NextLarger is the key right    *)
(* above val and below every larger one, so keys are doubled.               *)

Key(v) == 2 * v
NextLargerKey(v) == 2 * v + 1
Below(k) == {it \in tree : Key(it[1]) < k}       \* AscendLessThan
AtLeast(k) == {it \in tree : Key(it[1]) >= k}    \* AscendGreaterOrEqual

Ops == {"=", "!=", ">", "<", ">=", "<="}

Visit(op, v) ==
  LET items ==
        CASE op = "="  -> {it \in AtLeast(Key(v)) : ~ it[1] > v}
          [] op = "!=" -> Below(Key(v)) \cup AtLeast(NextLargerKey(v))
          [] op = ">"  -> AtLeast(NextLargerKey(v))
          [] op = ">=" -> AtLeast(Key(v))
          [] op = "<"  -> Below(Key(v))
          [] op = "<=" -> Below(NextLargerKey(v))
  IN {it[2] : it \in items}

\* What CallFilteredClients promises of the operators.
Holds(x, op, v) ==
  \/ op = "="  /\ x = v
  \/ op = "!=" /\ x # v
  \/ op = ">"  /\ x > v
  \/ op = "<"  /\ x < v
  \/ op = ">=" /\ x >= v
  \/ op = "<=" /\ x <= v

\* An item is found by the value its proxy remembers: removing another one
\* leaves it in the tree.
Without(t, c, v) == t \ {<<v, c>>}

-----------------------------------------------------------------------------
(* The gate *)

\* handleClientConnection, serve: the connection's goroutine. The main routine
\* learns of the start and of the end of a connection by posted functions.
Connect(c) ==
  /\ gate /\ sock[c] = "new"
  /\ sock' = [sock EXCEPT ![c] = "open"]
  /\ posts' = Append(posts, [kind |-> "new", client |-> c])
  /\ UNCHANGED <<owner, prop, tree, gate, want, wires, dispVars, gameVars,
                 used, view, budget>>

Disconnect(c) ==
  /\ gate /\ sock[c] = "open"
  /\ sock' = [sock EXCEPT ![c] = "shut"]
  /\ posts' = Append(posts, [kind |-> "close", client |-> c])
  /\ UNCHANGED <<owner, prop, tree, gate, want, wires, dispVars, gameVars,
                 used, view, budget>>

OnNewClientProxy(c) ==
  \E boot \in Entity \ used :
    /\ owner' = [owner EXCEPT ![c] = boot]
    /\ used' = used \cup {boot}
    /\ toDisp' = Via(toDisp, boot, Connected(c, boot))
    /\ UNCHANGED <<prop, tree, want>>

OnClientProxyClose(c) ==
  /\ owner' = [owner EXCEPT ![c] = None]
  /\ tree' = Without(tree, c, prop[c])
  /\ prop' = [prop EXCEPT ![c] = None]
  /\ want' = [want EXCEPT ![c] = None]
  /\ toDisp' = Via(toDisp, owner[c], Disconnected(c, owner[c]))
  /\ UNCHANGED used

PostTick ==
  /\ gate /\ posts # <<>>
  /\ posts' = Tail(posts)
  /\ LET f == Head(posts)
     IN \/ f.kind = "new" /\ OnNewClientProxy(f.client)
        \/ f.kind = "close" /\ OnClientProxyClose(f.client)
  /\ UNCHANGED <<sock, gate, toGame, fromGame, toGate, dispVars, gameVars, view, budget>>

\* Two mutants: no reply for an absent client; the gate keeps the first owner.
OnCreateEntitySilent(c, e) ==
  /\ owner' = IF owner[c] # None THEN [owner EXCEPT ![c] = e] ELSE owner
  /\ view' = IF owner[c] # None THEN [view EXCEPT ![c] = @ \cup {e}] ELSE view
  /\ UNCHANGED <<prop, tree, want, toDisp>>
OnCreateEntityFirst(c, e) ==
  /\ view' = IF owner[c] # None THEN [view EXCEPT ![c] = @ \cup {e}] ELSE view
  /\ toDisp' = IF owner[c] # None THEN toDisp
               ELSE Via(toDisp, e, Disconnected(c, e))
  /\ UNCHANGED <<owner, prop, tree, want>>

OnCreateEntity(c, e) ==
  \/ /\ owner[c] # None
     /\ owner' = [owner EXCEPT ![c] = e]
     /\ view' = [view EXCEPT ![c] = @ \cup {e}]
     /\ UNCHANGED <<prop, tree, want, toDisp>>
  \/ /\ owner[c] = None
     /\ toDisp' = Via(toDisp, e, Disconnected(c, e))
     /\ UNCHANGED <<owner, prop, tree, want, view>>

OnDestroyEntity(c, e) ==
  /\ view' = IF owner[c] # None THEN [view EXCEPT ![c] = @ \ {e}] ELSE view
  /\ UNCHANGED <<owner, prop, tree, want, toDisp>>

\* A mutant: the old value's item stays in the tree.
OnSetFilterPropTwice(c, v) ==
  /\ owner[c] # None
  /\ tree' = tree \cup {<<v, c>>}
  /\ prop' = [prop EXCEPT ![c] = v]
  /\ want' = [want EXCEPT ![c] = v]
  /\ UNCHANGED <<owner, toDisp, view>>

OnSetFilterProp(c, v) ==
  /\ owner[c] # None
  /\ tree' = Without(tree, c, prop[c]) \cup {<<v, c>>}
  /\ prop' = [prop EXCEPT ![c] = v]
  /\ want' = [want EXCEPT ![c] = v]
  /\ UNCHANGED <<owner, toDisp, view>>

\* The tree forgets the client, its filterProps stays.
OnClearFilterProps(c) ==
  /\ owner[c] # None
  /\ tree' = Without(tree, c, prop[c])
  /\ want' = [want EXCEPT ![c] = None]
  /\ UNCHANGED <<owner, prop, toDisp, view>>

OnAbsentProxy(c) ==
  /\ owner[c] = None
  /\ UNCHANGED <<owner, prop, tree, want, toDisp, view>>

HandleDispatcherClientPacket(d) ==
  /\ gate /\ toGate[d] # <<>>
  /\ toGate' = [toGate EXCEPT ![d] = Tail(@)]
  /\ LET m == Head(toGate[d])
     IN \/ m.type = "createOnClient" /\ OnCreateEntity(m.client, m.entity)
        \/ m.type = "destroyOnClient" /\ OnDestroyEntity(m.client, m.entity)
        \/ m.type = "setFilterProp" /\ OnSetFilterProp(m.client, m.val)
        \/ m.type = "clearFilterProps" /\ OnClearFilterProps(m.client)
        \/ m.type \in {"setFilterProp", "clearFilterProps"} /\ OnAbsentProxy(m.client)
  /\ UNCHANGED <<sock, posts, gate, toGame, fromGame, dispVars, gameVars, used, budget>>

\* The gate process ends: it quits when it loses a dispatcher, or dies. What it
\* had written may be lost from some point on.
GateDies ==
  /\ gate /\ Spend("death")
  /\ gate' = FALSE
  /\ sock' = [c \in Client |-> IF sock[c] = "open" THEN "shut" ELSE sock[c]]
  /\ posts' = <<>> /\ tree' = {}
  /\ owner' = [c \in Client |-> None]
  /\ prop' = [c \in Client |-> None]
  /\ want' = [c \in Client |-> None]
  /\ \E q \in [Dispatcher -> UNION {Prefixes(toDisp[d]) : d \in Dispatcher}] :
       /\ \A d \in Dispatcher : IsPrefix(q[d], toDisp[d])
       /\ toDisp' = q
  /\ toGate' = [d \in Dispatcher |-> <<>>]
  /\ UNCHANGED <<toGame, fromGame, dispVars, gameVars, used, view>>

-----------------------------------------------------------------------------
(* The dispatchers *)

\* handleNotifyClientConnected sends to a boot game, which need not know the
\* entity; handleNotifyClientDisconnected follows the entity's route.
ServeGate(d) ==
  /\ toDisp[d] # <<>>
  /\ toDisp' = [toDisp EXCEPT ![d] = Tail(@)]
  /\ LET m == Head(toDisp[d])
     IN /\ toGame' = IF m.type = "connected" \/ m.entity \in route
                     THEN [toGame EXCEPT ![d] = Append(@, m)]
                     ELSE toGame
        /\ late' = IF m.type = "connected" /\ d \in noticed
                   THEN late \cup {m.client} ELSE late
  /\ UNCHANGED <<gateVars, fromGame, toGate, route, noticed, gameVars, used, view, budget>>

\* handleNotifyCreateEntity, handleNotifyDestroyEntity, and
\* handleDoSomethingOnSpecifiedClient, which finds no gate if it is gone.
ServeGame(d) ==
  /\ fromGame[d] # <<>>
  /\ fromGame' = [fromGame EXCEPT ![d] = Tail(@)]
  /\ LET m == Head(fromGame[d])
     IN /\ route' = CASE m.type = "created" -> route \cup {m.entity}
                      [] m.type = "destroyed" -> route \ {m.entity}
                      [] OTHER -> route
        /\ toGate' = IF gate /\ m.type \notin {"created", "destroyed"}
                     THEN [toGate EXCEPT ![d] = Append(@, m)]
                     ELSE toGate
  /\ UNCHANGED <<gateVars, toDisp, toGame, noticed, late, gameVars, used, view, budget>>

\* handleGateDisconnected runs as a posted function: messages of the gate that
\* the dispatcher has received may still wait in its queue.
GateDisconnected(d) ==
  /\ ~ gate /\ d \notin noticed
  /\ noticed' = noticed \cup {d}
  /\ toGame' = [toGame EXCEPT ![d] = Append(@, GateDown)]
  /\ UNCHANGED <<gateVars, toDisp, fromGame, toGate, route, late, gameVars, used, view, budget>>

-----------------------------------------------------------------------------
(* The game *)

\* Three mutants of Release: the destroy goes the way of the old owner; the client
\* is told nothing; its filter property is kept.
ReleaseOwnWay(q, e, c, o) ==
  IF c = None THEN q
  ELSE Via(Via(q, e, ClearFilterProps(c)), e, DestroyOnClient(c, e))
ReleaseSilent(q, e, c, o) ==
  IF c = None THEN q ELSE Via(q, e, ClearFilterProps(c))
ReleaseFiltered(q, e, c, o) ==
  IF c = None THEN q ELSE Via(q, o, DestroyOnClient(c, e))

\* The two halves of SetClient: what the old client of e is told, on the way of
\* the owner o it has by then, and what the new one is told.
Release(q, e, c, o) ==
  IF c = None THEN q
  ELSE Via(Via(q, e, ClearFilterProps(c)), o, DestroyOnClient(c, e))
Adopt(q, e, c) == Via(Via(q, e, ClearFilterProps(c)), e, CreateOnClient(c, e))

\* createEntity
CreateEntity(e) ==
  /\ e \notin used /\ Spend("op")
  /\ used' = used \cup {e}
  /\ live' = live \cup {e}
  /\ fromGame' = Via(fromGame, e, NotifyCreate(e))
  /\ UNCHANGED <<gateVars, toDisp, toGame, toGate, dispVars, client, chosen, view>>

\* No notice of c's owner is on its way to the gate.
Settled(c) ==
  \A d \in Dispatcher : \A m \in ToSet(fromGame[d]) \cup ToSet(toGate[d]) :
    ~ (m.type = "createOnClient" /\ m.client = c)

\* e.GiveClientTo(o). The client's owner is set to o before e lets it go.
GiveClientTo(e, o) ==
  /\ {e, o} \subseteq live /\ client[e] # None
  /\ Eager \/ Settled(client[e])
  /\ Spend("op")
  /\ LET c == client[e]
         kept == IF o = e THEN None ELSE client[o]
     IN fromGame' = Adopt(Release(Release(fromGame, e, c, o), o, kept, o), o, c)
  /\ client' = [client EXCEPT ![e] = None, ![o] = client[e]]
  /\ chosen' = [chosen EXCEPT ![e] = None, ![o] = None]
  /\ UNCHANGED <<gateVars, toDisp, toGame, toGate, dispVars, live, used, view>>

SetClientFilterProp(e, v) ==
  /\ e \in live /\ client[e] # None /\ Spend("op")
  /\ fromGame' = Via(fromGame, e, SetFilterProp(client[e], v))
  /\ chosen' = [chosen EXCEPT ![e] = v]
  /\ UNCHANGED <<gateVars, toDisp, toGame, toGate, dispVars, client, live, used, view>>

\* Entity.Destroy
Destroy(e) ==
  /\ e \in live /\ Spend("op")
  /\ live' = live \ {e}
  /\ fromGame' = Via(Release(fromGame, e, client[e], e), e, NotifyDestroy(e))
  /\ client' = [client EXCEPT ![e] = None]
  /\ chosen' = [chosen EXCEPT ![e] = None]
  /\ UNCHANGED <<gateVars, toDisp, toGame, toGate, dispVars, used, view>>

HandleNotifyClientConnected(c, e) ==
  /\ live' = live \cup {e}
  /\ client' = [client EXCEPT ![e] = c]
  /\ fromGame' = Adopt(Via(fromGame, e, NotifyCreate(e)), e, c)
  /\ UNCHANGED chosen

\* Only the owner loses the client, and only if it has this one.
HandleNotifyClientDisconnected(c, e) ==
  /\ client' = [client EXCEPT ![e] = IF e \in live /\ @ = c THEN None ELSE @]
  /\ chosen' = [chosen EXCEPT ![e] = IF client'[e] = None THEN None ELSE @]
  /\ UNCHANGED <<live, fromGame>>

\* onGateDisconnected; every client is the one gate's.
HandleNotifyGateDisconnected ==
  /\ client' = [e \in Entity |-> None]
  /\ chosen' = [e \in Entity |-> None]
  /\ UNCHANGED <<live, fromGame>>

HandlePacket(d) ==
  /\ toGame[d] # <<>>
  /\ toGame' = [toGame EXCEPT ![d] = Tail(@)]
  /\ LET m == Head(toGame[d])
     IN \/ m.type = "connected" /\ HandleNotifyClientConnected(m.client, m.entity)
        \/ m.type = "disconnected" /\ HandleNotifyClientDisconnected(m.client, m.entity)
        \/ m.type = "gateDown" /\ HandleNotifyGateDisconnected
  /\ UNCHANGED <<gateVars, toDisp, toGate, dispVars, used, view, budget>>

-----------------------------------------------------------------------------
Init ==
  /\ sock = [c \in Client |-> "new"]
  /\ posts = <<>>
  /\ owner = [c \in Client |-> None]
  /\ prop = [c \in Client |-> None]
  /\ tree = {}
  /\ gate = TRUE
  /\ toDisp = [d \in Dispatcher |-> <<>>]
  /\ toGame = [d \in Dispatcher |-> <<>>]
  /\ fromGame = [d \in Dispatcher |-> <<>>]
  /\ toGate = [d \in Dispatcher |-> <<>>]
  /\ route = {} /\ noticed = {} /\ late = {}
  /\ client = [e \in Entity |-> None]
  /\ live = {} /\ used = {}
  /\ view = [c \in Client |-> {}]
  /\ want = [c \in Client |-> None]
  /\ chosen = [e \in Entity |-> None]
  /\ budget = Limits

Next ==
  \/ \E c \in Client : Connect(c) \/ Disconnect(c)
  \/ PostTick \/ GateDies
  \/ \E d \in Dispatcher : \/ HandleDispatcherClientPacket(d) \/ HandlePacket(d)
                           \/ ServeGate(d) \/ ServeGame(d) \/ GateDisconnected(d)
  \/ \E e \in Entity : \/ CreateEntity(e) \/ Destroy(e)
                       \/ \E o \in Entity : GiveClientTo(e, o)
                       \/ \E v \in Val : SetClientFilterProp(e, v)

Spec == Init /\ [][Next]_vars

-----------------------------------------------------------------------------
TypeOK ==
  /\ sock \in [Client -> {"new", "open", "shut"}]
  /\ posts \in Seq([kind : {"new", "close"}, client : Client])
  /\ owner \in [Client -> Entity \cup {None}]
  /\ prop \in [Client -> Val \cup {None}]
  /\ tree \subseteq Val \X Client
  /\ gate \in BOOLEAN
  /\ \A q \in {toDisp, toGame, fromGame, toGate} : q \in [Dispatcher -> Seq(Messages)]
  /\ route \subseteq Entity /\ noticed \subseteq Dispatcher /\ late \subseteq Client
  /\ client \in [Entity -> Client \cup {None}]
  /\ live \subseteq used /\ used \subseteq Entity
  /\ view \in [Client -> SUBSET Entity]
  /\ want \in [Client -> Val \cup {None}]
  /\ chosen \in [Entity -> Val \cup {None}]
  /\ budget \in [DOMAIN Limits -> Nat]

\* A filtered call reaches exactly the clients whose property compares as asked:
\* those the gate was told of last, for every operator and value; no proxy that
\* was closed, cleared or given another value is left in the tree
\* (FilterTree.Visit, handleSetClientFilterProp, onClientProxyClose).
VisitExact ==
  \A op \in Ops, v \in Val :
    Visit(op, v) = {c \in Client : want[c] # None /\ Holds(want[c], op, v)}

\* Everything sent or posted has been handled.
Quiet ==
  /\ posts = <<>>
  /\ \A d \in Dispatcher : toDisp[d] \o toGame[d] \o fromGame[d] \o toGate[d] = <<>>
  /\ gate \/ noticed = Dispatcher

\* Once everything is handled, no entity keeps a client that is gone: a lost
\* notice (the owner was not yet routed, or is another by now) is made good when
\* the gate is told of the owner. Not so for a client announced to the game after
\* its gate's end (handleDispatcherClientPacket, onClientProxyClose).
NoGhosts ==
  Quiet => \A e \in Entity :
             client[e] # None => sock[client[e]] = "open" \/ client[e] \in late

\* Once everything is handled, the gate knows the owner of each client, so the
\* notice of its end will reach the entity that has it.
OwnerKnown ==
  Quiet /\ gate => \A e \in Entity : client[e] # None => owner[client[e]] = e

\* A client never has two entities of its own: "destroy entity messages will be
\* synced with create entity messages" (Entity.go:763), for which GiveClientTo
\* sends the old entity's destroy the way of the new owner.
OneOwnEntity == \A c \in Client : Cardinality(view[c]) <= 1

\* Once everything is handled, a client has been told to create exactly the
\* entity that owns it (SetClient, Destroy, GiveClientTo).
ViewAgrees ==
  Quiet => \A c \in Client :
             sock[c] = "open" => view[c] = {e \in Entity : client[e] = c}

\* Once everything is handled, the gate filters a client by the value its owner
\* set or not at all, never by what an earlier owner set
\* (SetClient's SendClearClientFilterProp).
NoStaleFilter ==
  Quiet => \A e \in Entity :
             client[e] # None => want[client[e]] \in {None, chosen[e]}
=============================================================================
