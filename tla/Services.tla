------------------------------ MODULE Services ------------------------------
(***************************************************************************)
(* Service entities: each service is to have one entity on some game, and  *)
(* every game is to know it. engine/service, engine/srvdis, and the        *)
(* dispatchers' srvdisRegisterMap.                                         *)
(*                                                                         *)
(* A service has two entries in the registry, "name" (which game hosts it) *)
(* and "eid" (its entity), which may be kept by different dispatchers.     *)
(* Services do not interact, so there is one; its entity is not persistent.*)
(***************************************************************************)
EXTENDS Naturals, FiniteSets, SequencesExt

CONSTANTS
  Game, Dispatcher, None,
  DispatcherOfKey,   \* SrvIDToDispatcherID
  MaxIds, MaxQueue, MaxAnswers, MaxCrashes,   \* bounds
  Restarts           \* are crashed games started again?

Key == {"name", "eid"}
Id == 1 .. MaxIds
Info == Game \cup Id

ASSUME KeyAssumption == DispatcherOfKey \in [Key -> Dispatcher]
ASSUME InfoAssumption == None \notin Game \cup Nat
ASSUME LimitAssumption ==
  /\ {MaxIds, MaxQueue, MaxAnswers, MaxCrashes} \subseteq Nat
  /\ Restarts \in BOOLEAN

VARIABLES
  registry,    \* srvdisRegisterMap: the entries of all dispatchers
  known,       \* games a dispatcher broadcasts to
  up,          \* does the game process run?
  linked,      \* dispatchers the game is connected to
  ready,       \* IsDeploymentReady of the game
  srvmap,      \* srvdis.srvmap of the game
  serviceMap,  \* service.serviceMap of the game
  ents,        \* service entities on the game
  delayed,     \* is a random-delay timer pending that will register the name?
  toDisp,      \* sent by a game to a dispatcher, not handled yet
  toGame,      \* sent by a dispatcher to a game, not handled yet
  nextId,      \* entity ids given out
  lost,        \* history: a dispatcher has crashed
  budget       \* crashes that may still happen

gameVars == <<up, linked, ready, srvmap, serviceMap, ents, delayed>>
vars == <<registry, known, gameVars, toDisp, toGame, nextId, lost, budget>>

\* The games read before a dispatcher has too much for one of them.
AnswerRoom(d) == \A g \in Game : Len(toGame[g][d]) < MaxAnswers

NoInfo == [k \in Key |-> None]
SetGameID == [type |-> "setGameID"]
Stale == [type |-> "stale"]   \* a SET_GAME_ID of a process that is gone
Register(k, info, force) == [type |-> "register", key |-> k, info |-> info, force |-> force]
Watch(k, info) == [type |-> "watch", key |-> k, info |-> info]
Ack(map) == [type |-> "ack", map |-> map]

Messages ==
  {SetGameID, Stale} \cup {Register(k, i, f) : k \in Key, i \in Info, f \in BOOLEAN}
    \cup {Watch(k, i) : k \in Key, i \in Info}
    \cup {Ack(m) : m \in [Key -> Info \cup {None}]}

\* g writes a message to the dispatcher of key k; it is lost if not connected.
Tell(q, g, k, m) ==
  IF DispatcherOfKey[k] \in linked[g]
  THEN [q EXCEPT ![g][DispatcherOfKey[k]] = Append(@, m)] ELSE q
Registers(q) == SelectSeq(q, LAMBDA m : m.type = "register")
Room(g, k) == Len(Registers(toDisp[g][DispatcherOfKey[k]])) < MaxQueue

-----------------------------------------------------------------------------
(* Connections *)

\* assureConnected: SET_GAME_ID is the first message of a connection.
Connect(g, d) ==
  /\ up[g] /\ d \notin linked[g]
  /\ linked' = [linked EXCEPT ![g] = @ \cup {d}]
  /\ toDisp' = [toDisp EXCEPT ![g][d] = Append(@, SetGameID)]
  /\ UNCHANGED <<registry, known, up, ready, srvmap, serviceMap, ents, delayed,
                 toGame, nextId, lost, budget>>

\* What was on its way is lost from some point on.
Cut(q, r, S) ==
  \A g \in Game, d \in Dispatcher :
    IF <<g, d>> \in S THEN IsPrefix(r[g][d], q[g][d]) ELSE r[g][d] = q[g][d]
Cuts(q) == [Game -> [Dispatcher -> UNION {Prefixes(q[g][d]) : g \in Game, d \in Dispatcher}]]

\* A SET_GAME_ID still on its way will be answered on a closed connection.
Outdated(q) == [i \in DOMAIN q |-> IF q[i] = SetGameID THEN Stale ELSE q[i]]

GameCrash(g) ==
  /\ up[g] /\ budget > 0
  /\ budget' = budget - 1
  /\ up' = [up EXCEPT ![g] = FALSE]
  /\ linked' = [linked EXCEPT ![g] = {}]
  /\ ready' = [ready EXCEPT ![g] = FALSE]
  /\ srvmap' = [srvmap EXCEPT ![g] = NoInfo]
  /\ serviceMap' = [serviceMap EXCEPT ![g] = None]
  /\ ents' = [ents EXCEPT ![g] = {}]
  /\ delayed' = [delayed EXCEPT ![g] = FALSE]
  /\ known' = [d \in Dispatcher |-> known[d] \ {g}]
  /\ \E r \in Cuts(toDisp) :
       /\ Cut(toDisp, r, {g} \X Dispatcher)
       /\ toDisp' = [r EXCEPT ![g] = [d \in Dispatcher |-> Outdated(r[g][d])]]
  /\ toGame' = [toGame EXCEPT ![g] = [d \in Dispatcher |-> <<>>]]
  /\ UNCHANGED <<registry, nextId, lost>>

GameRestart(g) ==
  /\ Restarts /\ ~ up[g]
  /\ up' = [up EXCEPT ![g] = TRUE]
  /\ UNCHANGED <<registry, known, linked, ready, srvmap, serviceMap, ents, delayed,
                 toDisp, toGame, nextId, lost, budget>>

\* A dispatcher dies and is started again: nothing of its registry is persistent.
\* What it had sent may still arrive.
DispatcherCrash(d) ==
  /\ budget > 0
  /\ budget' = budget - 1
  /\ registry' = [k \in Key |-> IF DispatcherOfKey[k] = d THEN None ELSE registry[k]]
  /\ known' = [known EXCEPT ![d] = {}]
  /\ linked' = [g \in Game |-> linked[g] \ {d}]
  /\ toDisp' = [g \in Game |-> [toDisp[g] EXCEPT ![d] = <<>>]]
  /\ \E r \in Cuts(toGame) : Cut(toGame, r, Game \X {d}) /\ toGame' = r
  /\ lost' = TRUE
  /\ UNCHANGED <<up, ready, srvmap, serviceMap, ents, delayed, nextId>>

-----------------------------------------------------------------------------
(* The dispatcher *)

\* handleSetGameID: the answer carries the registry of this dispatcher.
HandleSetGameID(g, d) ==
  /\ known' = [known EXCEPT ![d] = @ \cup {g}]
  /\ toGame' = [toGame EXCEPT ![g][d] =
                  Append(@, Ack([k \in Key |-> IF DispatcherOfKey[k] = d
                                                THEN registry[k] ELSE None]))]
  /\ UNCHANGED registry

\* A mutant: the last registration wins.
AcceptedAlways(m) == TRUE
Accepted(m) == m.force \/ registry[m.key] = None

HandleSrvdisRegister(d, m) ==
  /\ registry' = IF Accepted(m) THEN [registry EXCEPT ![m.key] = m.info] ELSE registry
  /\ toGame' = IF Accepted(m)
               THEN [h \in Game |-> IF h \in known[d] /\ d \in linked[h]
                                    THEN [toGame[h] EXCEPT ![d] = Append(@, Watch(m.key, m.info))]
                                    ELSE toGame[h]]
               ELSE toGame
  /\ UNCHANGED known

Serve(g, d) ==
  /\ toDisp[g][d] # <<>> /\ AnswerRoom(d)
  /\ toDisp' = [toDisp EXCEPT ![g][d] = Tail(@)]
  /\ LET m == Head(toDisp[g][d])
     IN \/ m.type = "setGameID" /\ HandleSetGameID(g, d)
        \/ m.type = "stale" /\ UNCHANGED <<registry, known, toGame>>
        \/ m.type = "register" /\ HandleSrvdisRegister(d, m)
  /\ UNCHANGED <<gameVars, nextId, lost, budget>>

-----------------------------------------------------------------------------
(* The game *)

\* A mutant: what the dispatcher has forgotten stays.
OnSetGameIDAckKeep(g, d, m) ==
  [srvmap EXCEPT ![g] = [k \in Key |-> IF m.map[k] # None THEN m.map[k] ELSE @[k]]]
\* ClearByDispatcher, then WatchSrvdisRegister for each entry of the answer.
OnSetGameIDAck(g, d, m) ==
  [srvmap EXCEPT ![g] = [k \in Key |-> IF DispatcherOfKey[k] = d THEN m.map[k] ELSE @[k]]]

HandlePacket(g, d) ==
  /\ up[g] /\ toGame[g][d] # <<>>
  /\ toGame' = [toGame EXCEPT ![g][d] = Tail(@)]
  /\ LET m == Head(toGame[g][d])
     IN \/ /\ m.type = "ack"
           /\ srvmap' = OnSetGameIDAck(g, d, m)
           /\ ready' = [ready EXCEPT ![g] = TRUE]
        \/ /\ m.type = "watch"
           /\ srvmap' = [srvmap EXCEPT ![g][m.key] = m.info]
           /\ UNCHANGED ready
  /\ UNCHANGED <<registry, known, up, linked, serviceMap, ents, delayed, toDisp,
                 nextId, lost, budget>>

\* What checkServices concludes from srvmap.
Found(g) == srvmap[g]["name"] # None /\ srvmap[g]["eid"] # None
Needed(g) == srvmap[g]["name"] = g

\* Not needed here: destroy what there is. Needed: create a missing entity and
\* register it, register one the registry does not know, drop any other.
KeepLocal(g) ==
  /\ ~ Needed(g)
  /\ ents' = [ents EXCEPT ![g] = {}]
  /\ UNCHANGED <<toDisp, nextId>>

CreateServiceEntity(g) ==
  /\ Needed(g) /\ ents[g] = {} /\ nextId < MaxIds /\ Room(g, "eid")
  /\ nextId' = nextId + 1
  /\ ents' = [ents EXCEPT ![g] = {nextId + 1}]
  /\ toDisp' = Tell(toDisp, g, "eid", Register("eid", nextId + 1, TRUE))

\* A mutant: an entity the registry has lost is not reported again.
ReportServiceEntityNever(g) ==
  Needed(g) /\ Cardinality(ents[g]) = 1 /\ UNCHANGED <<ents, toDisp, nextId>>
ReportServiceEntity(g) ==
  /\ Needed(g) /\ Cardinality(ents[g]) = 1 /\ Room(g, "eid")
  /\ \E x \in ents[g] :
       toDisp' = IF x # srvmap[g]["eid"]
                 THEN Tell(toDisp, g, "eid", Register("eid", x, TRUE)) ELSE toDisp
  /\ UNCHANGED <<ents, nextId>>

DropOtherEntities(g) ==
  /\ Needed(g) /\ Cardinality(ents[g]) > 1
  /\ ents' = [ents EXCEPT ![g] = @ \cap {srvmap[g]["eid"]}]
  /\ UNCHANGED <<toDisp, nextId>>

\* checkServices runs every minute, and soon after srvmap has changed. A service
\* nobody hosts is to be registered after a random delay, shorter than the time
\* from one check to the next: one pending timer stands for any number.
CheckServices(g) ==
  /\ up[g] /\ ready[g]
  /\ serviceMap' = [serviceMap EXCEPT ![g] = IF Found(g) THEN srvmap[g]["eid"] ELSE None]
  /\ \/ KeepLocal(g) \/ CreateServiceEntity(g)
     \/ ReportServiceEntity(g) \/ DropOtherEntities(g)
  /\ delayed' = [delayed EXCEPT ![g] =
                   @ \/ srvmap[g]["name"] = None]
  /\ UNCHANGED <<registry, known, up, linked, ready, srvmap, toGame, lost, budget>>

\* The callback of the random delay.
RegisterName(g) ==
  /\ up[g] /\ delayed[g] /\ Room(g, "name")
  /\ delayed' = [delayed EXCEPT ![g] = FALSE]
  /\ toDisp' = Tell(toDisp, g, "name", Register("name", g, FALSE))
  /\ UNCHANGED <<registry, known, up, linked, ready, srvmap, serviceMap, ents,
                 toGame, nextId, lost, budget>>

-----------------------------------------------------------------------------
Init ==
  /\ registry = NoInfo
  /\ known = [d \in Dispatcher |-> {}]
  /\ up = [g \in Game |-> TRUE]
  /\ linked = [g \in Game |-> {}]
  /\ ready = [g \in Game |-> FALSE]
  /\ srvmap = [g \in Game |-> NoInfo]
  /\ serviceMap = [g \in Game |-> None]
  /\ ents = [g \in Game |-> {}]
  /\ delayed = [g \in Game |-> FALSE]
  /\ toDisp = [g \in Game |-> [d \in Dispatcher |-> <<>>]]
  /\ toGame = [g \in Game |-> [d \in Dispatcher |-> <<>>]]
  /\ nextId = 0
  /\ lost = FALSE
  /\ budget = MaxCrashes

Next ==
  \/ \E g \in Game : \/ GameCrash(g) \/ GameRestart(g) \/ CheckServices(g) \/ RegisterName(g)
                     \/ \E d \in Dispatcher : Connect(g, d) \/ Serve(g, d) \/ HandlePacket(g, d)
  \/ \E d \in Dispatcher : DispatcherCrash(d)

Fairness ==
  \A g \in Game :
    /\ WF_up(GameRestart(g)) /\ WF_vars(CheckServices(g)) /\ WF_delayed(RegisterName(g))
    /\ \A d \in Dispatcher :
         WF_linked(Connect(g, d)) /\ WF_toDisp(Serve(g, d)) /\ WF_toGame(HandlePacket(g, d))

Spec == Init /\ [][Next]_vars
LiveSpec == Spec /\ Fairness

-----------------------------------------------------------------------------
TypeOK ==
  /\ registry \in [Key -> Info \cup {None}]
  /\ known \in [Dispatcher -> SUBSET Game]
  /\ up \in [Game -> BOOLEAN] /\ ready \in [Game -> BOOLEAN]
  /\ linked \in [Game -> SUBSET Dispatcher]
  /\ srvmap \in [Game -> [Key -> Info \cup {None}]]
  /\ serviceMap \in [Game -> Id \cup {None}]
  /\ ents \in [Game -> SUBSET (1 .. nextId)]
  /\ delayed \in [Game -> BOOLEAN]
  /\ toDisp \in [Game -> [Dispatcher -> Seq(Messages)]]
  /\ toGame \in [Game -> [Dispatcher -> Seq(Messages)]]
  /\ nextId \in 0 .. MaxIds /\ budget \in 0 .. MaxCrashes /\ lost \in BOOLEAN

\* While no dispatcher crashed, the service never has two entities, whatever games
\* register, crash and come back (handleSrvdisRegister, checkServices).
OneInstance ==
  ~ lost => \A g, h \in Game : ents[g] # {} /\ ents[h] # {} => g = h

\* A game that is connected and has read everything knows the registry as it is,
\* also after a dispatcher lost it (HandleSrvdisRegister, ClearByDispatcher).
RegistryView ==
  \A g \in Game, k \in Key :
    LET d == DispatcherOfKey[k]
    IN g \in known[d] /\ d \in linked[g] /\ toGame[g][d] = <<>> => srvmap[g][k] = registry[k]

\* The service exists, once, and every running game can call it.
Settled ==
  \E g \in Game, x \in Id :
    /\ up[g] /\ registry["name"] = g /\ registry["eid"] = x /\ ents[g] = {x}
    /\ \A h \in Game \ {g} : ents[h] = {}
    /\ \A h \in Game : up[h] => serviceMap[h] = x

\* Whatever crashes, in the end the service exists, once, and every game calls that
\* entity (checkServices, on every game, racing with the others).
Converges == <>[]Settled
=============================================================================
