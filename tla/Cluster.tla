------------------------------- MODULE Cluster -------------------------------
(***************************************************************************)
(* The dispatcher with the game processes that use it: connecting and      *)
(* reconnecting, announcing entities, loading and creating them, crashing, *)
(* and the freeze/restore of a game (reload).                              *)
(* components/game, engine/dispatchercluster/dispatcherclient and the      *)
(* entity manager's create/load/destroy.                                   *)
(*                                                                         *)
(* A game has two goroutines that matter here: the one that receives from  *)
(* the dispatcher and reconnects (Connect, TakeSnapshot, Register), and    *)
(* the main loop (the other actions of a running game).                    *)
(***************************************************************************)
EXTENDS Dispatcher

CONSTANTS
  MaxFailures,                      \* bound on crashes and lost connections
  MaxFreezes, MaxFailedFreezes,     \* bounds on reloads, and on those that fail
  MaxLoads, MaxFailedLoads,         \* bounds on what games do
  MaxCreates, MaxDestroys, MaxCalls,
  Stored            \* entities that exist only in the storage at first

ASSUME ClusterBoundAssumption ==
  /\ {MaxFailures, MaxFreezes, MaxFailedFreezes} \subseteq Nat
  /\ {MaxLoads, MaxFailedLoads, MaxCreates, MaxDestroys, MaxCalls} \subseteq Nat
  /\ Stored \subseteq Entity

VARIABLES
  proc,      \* what runs as game g: see ProcState
  live,      \* entities in the game's entityManager
  loading,   \* storage loads in flight, per entity
  dump,      \* the freeze file of the game
  cur,       \* the connection DispatcherConnMgr sends on
  reg,       \* progress of assureConnected on that connection
  snap,      \* the entity list SET_GAME_ID will carry
  inbox,     \* messages sent on a connection, not yet handled by the dispatcher
  online,    \* onlineGames
  deployed,  \* isDeploymentReady of the game
  used,      \* entity ids that were ever given out
  accepted,  \* history: numbers of the calls the dispatcher had a route for
  executed,  \* history: numbers of the calls executed by a live entity
  misled,    \* history: the dispatcher may be wrong about where entities live
  budget     \* what remains of each bound

gameVars == <<proc, live, loading, dump, cur, reg, snap, online, deployed>>
history == <<accepted, executed, misled>>
cvars == <<vars, gameVars, inbox, used, history, budget>>

\* "down": no process; "starting": before the main loop runs; "freezing": every
\* dispatcher acknowledged; "frozen": entities dumped to file, process gone.
ProcState == {"down", "starting", "running", "freezing", "frozen"}
RegState == {"off", "connected", "listed", "registered"}

Limits == [failure |-> MaxFailures, freeze |-> MaxFreezes,
           failedFreeze |-> MaxFailedFreezes, load |-> MaxLoads,
           failedLoad |-> MaxFailedLoads, create |-> MaxCreates,
           destroy |-> MaxDestroys, call |-> MaxCalls]

Spend(k) == /\ budget[k] > 0
            /\ budget' = [budget EXCEPT ![k] = @ - 1]

\* The main loop of g runs.
Running(g) == proc[g] \in {"running", "freezing"}

\* SendXxx on the current dispatcher client: lost if its connection is closed.
Told(g, ms) == IF cur[g] # None /\ link[cur[g]] = "open"
               THEN [inbox EXCEPT ![cur[g]] = @ \o ms] ELSE inbox
Tell(g, ms) == inbox' = Told(g, ms)

DestroyNotices(S) ==
  LET q == SetToSeq(S) IN [i \in DOMAIN q |-> [type |-> "destroy", entity |-> q[i]]]

-----------------------------------------------------------------------------
(* The dispatcher handles the oldest message of a connection               *)

\* What misleads the dispatcher, besides a running game that loses its connection
\* and a freeze that outlasts its block: a game is heard of after the disconnect
\* of the process that sent it was handled, or after the game was started again.
Late(c) == /\ Head(inbox[c]).type \in {"setGameID", "notify", "destroy"}
           /\ link[c] = "gone" \/ \A g \in Game : cur[g] # c

\* A load overtakes the message that the entity is, or is to be, created.
Early(c) == LET m == Head(inbox[c])
            IN /\ m.type = "load" /\ Unrouted(m.entity)
               /\ \E d \in Conn : \E n \in ToSet(inbox[d]) :
                    n.type \in {"notify", "create"} /\ n.entity = m.entity

\* The game a load or creation is for turns out to be down: it is cleaned up, the
\* new route with it, and the packet is held for it all the same.
Lost(c) == /\ Head(inbox[c]).type \in {"load", "create"}
           /\ \E g \in Game : LapsedDead(gdi[g]) /\ ~gdi'[g].isBlocked

Serve(c) ==
  /\ inbox[c] # <<>>
  /\ inbox' = [inbox EXCEPT ![c] = Tail(@)]
  /\ LET m == Head(inbox[c])
     IN CASE m.type = "setGameID" -> HandleSetGameID(c, m.game, m.entities)
          [] m.type = "notify"    -> HandleNotifyCreateEntity(c, m.entity)
          [] m.type = "destroy"   -> HandleNotifyDestroyEntity(c, m.entity)
          [] m.type = "load"      -> HandleLoadEntitySomewhere(c, m.entity, None)
          [] m.type = "create"    -> HandleCreateEntitySomewhere(c, m.entity, None)
          [] m.type = "call"      -> HandleCallEntityMethod(c, m.entity)
          [] m.type = "freeze"    -> HandleStartFreezeGame(c)
          [] m.type = "query"     -> HandleQuerySpaceGameIDForMigrate(c, m.entity, m.space)
          [] m.type = "migrate"   -> HandleMigrateRequest(c, m.entity, m.space, m.game)
          [] m.type = "cancel"    -> HandleCancelMigrate(c, m.entity)
          [] m.type = "real"      -> HandleRealMigrate(c, m.entity, m.game)
  /\ accepted' = IF Head(inbox[c]).type = "call" /\ edi[Head(inbox[c]).entity].known
                 THEN accepted \cup {msgs'} ELSE accepted
  /\ misled' = (misled \/ Late(c) \/ Early(c) \/ Lost(c))
  /\ UNCHANGED <<gameVars, used, executed, budget>>

Disconnected(c) ==
  /\ HandleDispatcherClientDisconnect(c)
  /\ UNCHANGED <<gameVars, inbox, used, history, budget>>

EntityTimeout(e) ==
  /\ EntityBlockTimesOut(e)
  /\ UNCHANGED <<gameVars, inbox, used, history, budget>>

GameTimeout(g) ==
  /\ GameBlockTimesOut(g)
  /\ misled' = TRUE
  /\ UNCHANGED <<gameVars, inbox, used, accepted, executed, budget>>

-----------------------------------------------------------------------------
(* Connecting: DispatcherConnMgr.assureConnected                           *)

\* A lower conn is used first, to keep one name per connection.
NextConn == {c \in Conn : link[c] = "unused"}

\* No connection yet, or a lost one.  The reconnect waits a second, in which the
\* main loop drains what it received.
Unconnected(g) ==
  /\ proc[g] \in {"starting", "running", "freezing"}
  /\ cur[g] # None => link[cur[g]] # "open" /\ wire[cur[g]] = <<>>

\* The new client becomes the current one, and the main loop may send on it,
\* before the game has announced itself.
Connect(g) ==
  /\ Unconnected(g)
  /\ reg[g] \in {"off", "registered"}
  /\ NextConn # {}
  /\ LET c == CHOOSE d \in NextConn : TRUE
     IN Accept(c) /\ cur' = [cur EXCEPT ![g] = c]
  /\ reg' = [reg EXCEPT ![g] = "connected"]
  /\ UNCHANGED <<proc, live, loading, dump, snap, online, deployed, inbox, used, history, budget>>

\* GetEntityIDsForDispatcher walks the entities from the receive goroutine.
TakeSnapshot(g) ==
  /\ reg[g] = "connected"
  /\ reg' = [reg EXCEPT ![g] = "listed"]
  /\ snap' = [snap EXCEPT ![g] = live[g]]
  /\ UNCHANGED <<vars, proc, live, loading, dump, cur, online, deployed, inbox, used, history, budget>>

Register(g) ==
  /\ reg[g] = "listed"
  /\ reg' = [reg EXCEPT ![g] = "registered"]
  /\ snap' = [snap EXCEPT ![g] = {}]
  /\ proc' = [proc EXCEPT ![g] = IF @ = "starting" THEN "running" ELSE @]
  /\ Tell(g, <<[type |-> "setGameID", game |-> g, entities |-> SetToSeq(snap[g])]>>)
  /\ UNCHANGED <<vars, live, loading, dump, cur, online, deployed, used, history, budget>>

-----------------------------------------------------------------------------
(* Processes and connections come and go                                   *)

\* game.Run: with -restore from the freeze file, else empty.
Start(g) ==
  /\ proc[g] \in {"down", "frozen"}
  /\ proc' = [proc EXCEPT ![g] = "starting"]
  /\ live' = [live EXCEPT ![g] = dump[g]]
  /\ dump' = [dump EXCEPT ![g] = {}]
  /\ cur' = [cur EXCEPT ![g] = None]
  /\ online' = [online EXCEPT ![g] = {}]
  /\ deployed' = [deployed EXCEPT ![g] = FALSE]
  /\ UNCHANGED <<vars, loading, reg, snap, inbox, used, history, budget>>

\* The process of g ends, with it its connection: the dispatcher gets what was
\* flushed before, nothing more is read.
Exit(g, state, file) ==
  /\ proc' = [proc EXCEPT ![g] = state]
  /\ live' = [live EXCEPT ![g] = {}]
  /\ loading' = [loading EXCEPT ![g] = [e \in Entity |-> 0]]
  /\ dump' = [dump EXCEPT ![g] = file]
  /\ reg' = [reg EXCEPT ![g] = "off"]
  /\ snap' = [snap EXCEPT ![g] = {}]
  /\ UNCHANGED <<cur, online, deployed>>
  /\ IF cur[g] # None /\ link[cur[g]] = "open"
     THEN /\ link' = Closed(cur[g])
          /\ wire' = [wire EXCEPT ![cur[g]] = <<>>]
     ELSE UNCHANGED <<link, wire>>
  /\ UNCHANGED <<edi, gdi, gates, id, ready, syncs, msgs, used, history>>

Crash(g) ==
  /\ proc[g] \in {"starting", "running", "freezing"}
  /\ Spend("failure")
  /\ Exit(g, "down", {})
  /\ IF cur[g] # None /\ link[cur[g]] = "open"
     THEN \E n \in 0..Len(inbox[cur[g]]) :
            inbox' = [inbox EXCEPT ![cur[g]] = SubSeq(@, 1, n)]
     ELSE UNCHANGED inbox

\* doFreeze on a tick, then os.Exit: all that was sent is flushed by then.
DoFreeze(g) ==
  /\ proc[g] = "freezing"
  /\ Exit(g, "frozen", live[g])
  /\ UNCHANGED <<inbox, budget>>

\* doFreeze when the entities cannot be dumped or the file not written: the
\* game runs on, and the dispatcher is not told.
FreezeFails(g) ==
  /\ proc[g] = "freezing"
  /\ Spend("failedFreeze")
  /\ proc' = [proc EXCEPT ![g] = "running"]
  /\ UNCHANGED <<vars, live, loading, dump, cur, reg, snap, online, deployed>>
  /\ UNCHANGED <<inbox, used, history>>

\* The connection of a running game is lost, in both directions.
BreakConn(g) ==
  /\ Spend("failure")
  /\ Running(g) /\ cur[g] # None
  /\ Break(cur[g])
  /\ \E n \in 0..Len(inbox[cur[g]]) :
       inbox' = [inbox EXCEPT ![cur[g]] = SubSeq(@, 1, n)]
  /\ misled' = TRUE
  /\ UNCHANGED <<gameVars, used, accepted, executed>>

-----------------------------------------------------------------------------
(* What the main loop of a game does on its own                            *)

\* createEntity with a fresh id, on this game.
CreateEntity(g, e) ==
  /\ Running(g) /\ e \notin used /\ Spend("create")
  /\ used' = used \cup {e}
  /\ live' = [live EXCEPT ![g] = @ \cup {e}]
  /\ Tell(g, <<[type |-> "notify", entity |-> e]>>)
  /\ UNCHANGED <<vars, proc, loading, dump, cur, reg, snap, online, deployed, history>>

DestroyEntity(g, e) ==
  /\ Running(g) /\ e \in live[g] /\ Spend("destroy")
  /\ live' = [live EXCEPT ![g] = @ \ {e}]
  /\ Tell(g, <<[type |-> "destroy", entity |-> e]>>)
  /\ UNCHANGED <<vars, proc, loading, dump, cur, reg, snap, online, deployed, used, history>>

\* Messages sent on request of the game's code or of a signal, while the
\* connection is up.
Ask(g, kind, m) ==
  /\ Running(g) /\ Spend(kind)
  /\ cur[g] # None /\ link[cur[g]] = "open"
  /\ Tell(g, <<m>>)
  /\ UNCHANGED <<vars, gameVars, history>>

CreateEntitySomewhere(g, e) ==
  /\ e \notin used /\ used' = used \cup {e}
  /\ Ask(g, "create", [type |-> "create", entity |-> e])

LoadEntityAnywhere(g, e) ==
  /\ e \in used /\ UNCHANGED used
  /\ Ask(g, "load", [type |-> "load", entity |-> e])
Call(g, e) ==
  /\ e \in used \ live[g] /\ UNCHANGED used
  /\ Ask(g, "call", [type |-> "call", entity |-> e])
StartFreeze(g) ==
  /\ proc[g] = "running" /\ UNCHANGED used
  /\ Ask(g, "freeze", [type |-> "freeze"])

DueMutant(g, e) == Running(g)
Due(g, e) == Running(g) /\ loading[g][e] > 0

\* The callback of storage.Load, in the main loop.  An entity that is already
\* there makes it panic.
Loaded(g, e) ==
  /\ Due(g, e)
  /\ loading' = [loading EXCEPT ![g][e] = @ - 1]
  /\ IF e \in live[g]
     THEN UNCHANGED <<live, inbox>>
     ELSE /\ live' = [live EXCEPT ![g] = @ \cup {e}]
          /\ Tell(g, <<[type |-> "notify", entity |-> e]>>)
  /\ UNCHANGED <<vars, proc, dump, cur, reg, snap, online, deployed, used, history, budget>>

LoadFailed(g, e) ==
  /\ Due(g, e) /\ Spend("failedLoad")
  /\ loading' = [loading EXCEPT ![g][e] = @ - 1]
  /\ Tell(g, <<[type |-> "destroy", entity |-> e]>>)
  /\ UNCHANGED <<vars, proc, live, dump, cur, reg, snap, online, deployed, used, history>>

-----------------------------------------------------------------------------
(* The main loop of a game handles the oldest packet it received           *)

Learned(g, p) == deployed[g] \/ p.ready

OnSetGameIDAck(g, p) ==
  /\ online' = [online EXCEPT ![g] = p.online]
  /\ live' = [live EXCEPT ![g] = @ \ p.reject]
  /\ Tell(g, DestroyNotices(live[g] \cap p.reject))
  /\ deployed' = [deployed EXCEPT ![g] = Learned(g, p)]
  /\ UNCHANGED <<proc, loading, history>>

OnNotifyDeploymentReady(g) ==
  /\ deployed' = [deployed EXCEPT ![g] = TRUE]
  /\ UNCHANGED <<proc, live, loading, online, inbox, history>>

OnCreateEntitySomewhere(g, e) ==
  /\ live' = [live EXCEPT ![g] = @ \cup {e}]
  /\ Tell(g, <<[type |-> "notify", entity |-> e]>>)
  /\ UNCHANGED <<proc, loading, online, deployed, history>>

OnLoadEntitySomewhere(g, e) ==
  /\ loading' = [loading EXCEPT ![g][e] = @ + 1]
  /\ UNCHANGED <<proc, live, online, deployed, inbox, history>>

OnCall(g, p) ==
  /\ executed' = IF p.entity \in live[g] THEN executed \cup {p.no} ELSE executed
  /\ UNCHANGED <<proc, live, loading, online, deployed, inbox, accepted, misled>>

OnGameConnected(g, h) ==
  /\ online' = [online EXCEPT ![g] = @ \cup {h}]
  /\ UNCHANGED <<proc, live, loading, deployed, inbox, history>>

OnGameDisconnectedMutant(g, hs) ==
  /\ online' = [online EXCEPT ![g] = @ \cup hs]
  /\ UNCHANGED <<proc, live, loading, deployed, inbox, history>>

OnGameDisconnected(g, hs) ==
  /\ online' = [online EXCEPT ![g] = @ \ hs]
  /\ UNCHANGED <<proc, live, loading, deployed, inbox, history>>

\* With one dispatcher its ack is all acks.
OnStartFreezeGameAck(g) ==
  /\ proc' = [proc EXCEPT ![g] = "freezing"]
  /\ UNCHANGED <<live, loading, online, deployed, inbox, history>>

Handle(g, p) ==
  \/ p.type = "setGameIDAck" /\ OnSetGameIDAck(g, p)
  \/ p.type = "ready"        /\ OnNotifyDeploymentReady(g)
  \/ p.type = "create"       /\ OnCreateEntitySomewhere(g, p.entity)
  \/ p.type = "load"         /\ OnLoadEntitySomewhere(g, p.entity)
  \/ p.type = "call"         /\ OnCall(g, p)
  \/ p.type = "gameUp"       /\ OnGameConnected(g, p.game)
  \/ p.type = "gameDown"     /\ OnGameDisconnected(g, p.games)
  \/ p.type = "freezeAck"    /\ OnStartFreezeGameAck(g)

HandlePacket(g) ==
  /\ Running(g) /\ cur[g] # None
  /\ Read(cur[g])
  /\ Handle(g, Head(wire[cur[g]]))
  /\ UNCHANGED <<dump, cur, reg, snap, used, budget>>

-----------------------------------------------------------------------------
CInit ==
  /\ Init
  /\ proc = [g \in Game |-> "down"]
  /\ live = [g \in Game |-> {}]
  /\ loading = [g \in Game |-> [e \in Entity |-> 0]]
  /\ dump = [g \in Game |-> {}]
  /\ cur = [g \in Game |-> None]
  /\ reg = [g \in Game |-> "off"]
  /\ snap = [g \in Game |-> {}]
  /\ inbox = [c \in Conn |-> <<>>]
  /\ online = [g \in Game |-> {}]
  /\ deployed = [g \in Game |-> FALSE]
  /\ used = Stored
  /\ accepted = {}
  /\ executed = {}
  /\ misled = FALSE
  /\ budget = Limits

CNext ==
  \/ \E c \in Conn : Serve(c) \/ Disconnected(c)
  \/ \E g \in Game :
       \/ Connect(g) \/ TakeSnapshot(g) \/ Register(g)
       \/ Start(g) \/ Crash(g) \/ StartFreeze(g) \/ DoFreeze(g)
       \/ FreezeFails(g) \/ BreakConn(g) \/ GameTimeout(g) \/ HandlePacket(g)
       \/ \E e \in Entity :
            \/ CreateEntity(g, e) \/ CreateEntitySomewhere(g, e) \/ DestroyEntity(g, e)
            \/ LoadEntityAnywhere(g, e) \/ Loaded(g, e) \/ LoadFailed(g, e)
            \/ Call(g, e)
  \/ \E e \in Entity : EntityTimeout(e)

CSpec == CInit /\ [][CNext]_cvars

\* What Serve, Disconnected, Connect, ... do to one queue, connection or process;
\* no other step does the same.
Served(c) == /\ inbox[c] # <<>> /\ inbox' = [inbox EXCEPT ![c] = Tail(@)]
             /\ UNCHANGED budget
Noticed(c) == link[c] = "closed" /\ link' = [link EXCEPT ![c] = "gone"]
Handled(g) == /\ Running(g) /\ cur[g] # None /\ wire[cur[g]] # <<>>
              /\ wire' = [wire EXCEPT ![cur[g]] = Tail(@)] /\ UNCHANGED budget
Joined(g, from, to) == reg[g] \in from /\ reg' = [reg EXCEPT ![g] = to]
Moved(g, from, to) == proc[g] = from /\ proc' = [proc EXCEPT ![g] = to]

Expired(g) == /\ gdi[g].blockUntil = "future" /\ gdi[g].clientProxy # None
              /\ "connected" \in FreezeTimeout
              /\ gdi' = [gdi EXCEPT ![g].blockUntil = "past"]

\* The loops of the processes run on, a client reconnects for ever, the reload
\* command starts again the game it stopped, and time passes.
CFairness ==
  /\ \A c \in Conn : WF_inbox(Served(c)) /\ WF_link(Noticed(c))
  /\ \A g \in Game :
       /\ WF_reg(Unconnected(g) /\ Joined(g, {"off", "registered"}, "connected"))
       /\ WF_reg(Joined(g, {"connected"}, "listed"))
       /\ WF_reg(Joined(g, {"listed"}, "registered"))
       /\ WF_wire(Handled(g))
       /\ WF_proc(Moved(g, "freezing", "frozen")) /\ WF_proc(Moved(g, "frozen", "starting"))
       /\ WF_gdi(Expired(g))

CLiveSpec == CSpec /\ CFairness

-----------------------------------------------------------------------------
(* Properties                                                               *)

\* The dispatcher promises its protocol to whatever peers there are; with these
\* game processes for peers, the cluster implements it (DispatcherService).
DispatcherSpec == Spec

CTypeOK ==
  /\ TypeOK
  /\ proc \in [Game -> ProcState] /\ reg \in [Game -> RegState]
  /\ live \in [Game -> SUBSET Entity] /\ dump \in [Game -> SUBSET Entity]
  /\ snap \in [Game -> SUBSET Entity]
  /\ loading \in [Game -> [Entity -> Nat]]
  /\ cur \in [Game -> Conn \cup {None}]
  /\ online \in [Game -> SUBSET Game] /\ deployed \in [Game -> BOOLEAN]
  /\ used \subseteq Entity /\ accepted \subseteq Nat /\ executed \subseteq accepted
  /\ misled \in BOOLEAN
  /\ \A k \in DOMAIN budget : budget[k] \in 0..Limits[k]

\* Nothing is in flight between the dispatcher and g, and g is connected.
UpToDate(g) ==
  /\ Running(g) /\ cur[g] # None /\ gdi[g].clientProxy = cur[g]
  /\ link[cur[g]] = "open" /\ wire[cur[g]] = <<>> /\ gdi[g].pending = <<>>

\* A game that has read all it was sent knows exactly the games that are
\* connected; a game that is being reloaded may be in the set or not.
OnlineView ==
  \A g \in Game : UpToDate(g) =>
    /\ {h \in Game : gdi[h].clientProxy # None} \subseteq online[g]
    /\ online[g] \subseteq {h \in Game : gdi[h].clientProxy # None \/ gdi[h].isBlocked}

\* Once the deployment is ready, no game that has read all it was sent misses
\* it, whether it connected before or after, or was frozen meanwhile.
ReadyView == \A g \in Game : UpToDate(g) /\ ready => deployed[g]

\* What games know of the cluster, in the acks and notices of the dispatcher
\* (handleSetGameIDAck), is right whatever their order.
ClusterView == OnlineView /\ ReadyView

\* An entity lives in at most one game, whatever is created, loaded, destroyed,
\* frozen and restored, whichever game crashes and whatever is lost with it or
\* read late, as long as nothing has misled the dispatcher.
SingleCopy ==
  ~misled =>
    \A g, h \in Game : g # h => live[g] \cap (live[h] \cup dump[h]) = {}

\* Every message and packet has been handled and every game serves again.
Quiet == /\ \A c \in Conn : inbox[c] = <<>> /\ link[c] # "closed"
         /\ \A g \in Game : UpToDate(g) /\ proc[g] = "running"
         /\ \A e \in Entity : edi[e].pending = <<>>

\* A reload loses no call: what the dispatcher accepted for an entity is
\* executed by it, before the freeze or after the restore.
ReloadLosesNoCall == Quiet => executed = accepted

\* Calls are executed in the order the dispatcher accepted them, those held
\* during a reload included.
ExecutedInOrder ==
  [][\A n \in executed' \ executed, m \in executed : m < n]_cvars

\* Every call accepted is executed in the end: none stays in a queue for ever.
AllCallsExecuted == []<>(executed = accepted)

\* LoadEntityAnywhere has no effect on an entity that exists on some game.
LoadHasNoEffectIfExists ==
  [][\A g \in Game, e \in Entity :
       loading'[g][e] = loading[g][e] - 1 /\ e \in live'[g] \ live[g]
       => \A h \in Game : e \notin live[h]]_cvars
=============================================================================
