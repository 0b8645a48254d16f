------------------------------ MODULE Dispatcher ------------------------------
(***************************************************************************)
(* One dispatcher process (components/dispatcher/DispatcherService.go): it *)
(* routes packets to the game an entity lives on, holds packets back while *)
(* the entity loads or migrates and while a game freezes, and tells games  *)
(* who is connected.                                                       *)
(*                                                                         *)
(* The module is open: any connected peer may send any message of the      *)
(* protocol at any time.  Cluster and Migration close it with the game     *)
(* processes that send those messages, and refine Spec.                    *)
(*                                                                         *)
(* Time is abstracted to what the code compares: a blockUntilTime is       *)
(* "zero" (time.Time{}), "future" (now is before it) or "past".            *)
(***************************************************************************)
EXTENDS Naturals, Sequences, FiniteSets, SequencesExt

CONSTANTS
  Game, Gate,       \* ids of the game and gate processes
  Entity,           \* entity ids (spaces are entities)
  Conn,             \* connections ever accepted, one per (re)connect
  None,             \* gameid 0, a nil proxy, a connection without identity
  BanBoot,          \* games configured with ban_boot_entity
  DesiredGames, DesiredGates,
  EntityQueueMax,   \* ENTITY_PENDING_PACKET_QUEUE_MAX_LEN
  GameQueueMax,     \* GAME_PENDING_PACKET_QUEUE_MAX_LEN
  MaxMsgs,          \* bound: messages and sync flushes the dispatcher handles
  FreezeTimeout     \* when a freeze may time out: "connected", "disconnected"

ASSUME NoneAssumption == None \notin Game \cup Gate \cup Entity \cup Conn
ASSUME KindAssumption == Game \cap Gate = {}
ASSUME FiniteAssumption == IsFiniteSet(Entity)
ASSUME BoundAssumption ==
  /\ DesiredGames \in Nat /\ DesiredGates \in Nat
  /\ EntityQueueMax \in Nat /\ GameQueueMax \in Nat /\ MaxMsgs \in Nat
  /\ BanBoot \subseteq Game /\ FreezeTimeout \subseteq {"connected", "disconnected"}

VARIABLES
  edi,     \* entityDispatchInfos: route, block and held packets of an entity
  gdi,     \* games: connection, freeze block and held packets of a game
  gates,   \* gates: the current connection of each gate
  id,      \* gameid/gateid of each dispatcherClientProxy, None before SET_*_ID
  link,    \* state of each connection as the serve goroutine will see it
  wire,    \* packets written to a connection and not yet read by the peer
  ready,   \* isDeploymentReady
  syncs,   \* entitySyncInfosToGame: the games position syncs are cached for
  msgs     \* messages and flushes handled so far; numbers the entity packets

vars == <<edi, gdi, gates, id, link, wire, ready, syncs, msgs>>

-----------------------------------------------------------------------------
(* Types *)

BlockTime == {"zero", "future", "past"}

Packet ==
       [type : {"call"}, entity : Entity, no : Nat]
  \cup [type : {"load", "create", "realMigrate"}, entity : Entity]
  \cup [type : {"spaceGame", "migrateAck"}, entity : Entity, space : Entity,
        game : Game \cup {None}]
  \cup [type : {"gameUp"}, game : Game]
  \cup [type : {"gameDown"}, games : SUBSET Game]
  \cup [type : {"gateDown"}, gate : Gate]
  \cup [type : {"setGameIDAck"}, ready : BOOLEAN, online : SUBSET Game,
        reject : SUBSET Entity]
  \cup [type : {"ready", "freezeAck", "nilSpaces", "sync", "clientConnected"}]

EntityInfo == [known : BOOLEAN, gameid : Game \cup {None},
               blockUntil : BlockTime, pending : Seq(Packet)]

GameInfo == [known : BOOLEAN, clientProxy : Conn \cup {None},
             isBlocked : BOOLEAN, blockUntil : BlockTime, pending : Seq(Packet)]

\* The entry of an entity that is not in the map, and a game never seen.
NoEntityInfo == [known |-> FALSE, gameid |-> None,
                 blockUntil |-> "zero", pending |-> <<>>]
NoGameInfo == [known |-> FALSE, clientProxy |-> None, isBlocked |-> FALSE,
               blockUntil |-> "zero", pending |-> <<>>]

-----------------------------------------------------------------------------
(* Dispatching.  A handler runs on a snapshot s of the routing state and   *)
(* ends with Commit(s).                                                    *)

Now == [edi |-> edi, gdi |-> gdi, id |-> id, wire |-> wire]

Commit(s) == /\ edi' = s.edi
             /\ gdi' = s.gdi
             /\ id' = s.id
             /\ wire' = s.wire

\* Packets for each game: one game, or all games but one.
To(g, ps) == [h \in Game |-> IF h = g THEN ps ELSE <<>>]
ToAllExcept(x, ps) == [h \in Game |-> IF h = x THEN <<>> ELSE ps]
Nothing == [h \in Game |-> <<>>]

\* SendPacket: a packet written to a connection that is closed is lost.
SendPacket(s, c, ps) ==
  IF link[c] = "open" THEN [s EXCEPT !.wire[c] = @ \o ps] ELSE s

HoldMutant(q, ps, max) == IF Len(q \o ps) <= max THEN ps \o q ELSE q
\* Held packets, those beyond the limit dropped.
Hold(q, ps, max) == IF Len(q \o ps) <= max THEN q \o ps
                    ELSE SubSeq(q \o ps, 1, IF Len(q) > max THEN Len(q) ELSE max)

\* checkBlocked: the freeze timed out (a cleared time is always in the past).
Lapsed(i) == i.isBlocked /\ i.blockUntil # "future"
LapsedDead(i) == i.known /\ Lapsed(i) /\ i.clientProxy = None

\* gameDispatchInfo.dispatchPacket of game g, for the packets q of one handler call; a game
\* that is cleaned up loses the packets held before.  What an unblocked,
\* connected game gets is sent; anything else is held.
Arrive(g, i, down, reached, q) ==
  LET blocked == i.isBlocked /\ ~(g \in reached /\ Lapsed(i))
  IN [i EXCEPT !.isBlocked = blocked,
               !.pending = IF ~blocked /\ i.clientProxy # None THEN @
                           ELSE Hold(IF g \in down THEN <<>> ELSE @, q, GameQueueMax)]

\* Dispatch out[g] to every game g, after handleGameDown of the games in down0.
\* Reaching a game whose freeze timed out unblocks it; if it is also disconnected
\* it is cleaned up, and the notice about it is broadcast, which reaches every
\* other game.  The notices of one handler call are one packet with a set of
\* games; the order of the games in a broadcast (a Go map) is immaterial.
DispatchDown(s, down0, out) ==
  LET base    == {g \in Game : s.gdi[g].known /\ out[g] # <<>>}
      spread  == down0 # {} \/ \E g \in base : LapsedDead(s.gdi[g])
      down    == IF spread THEN down0 \cup {g \in Game : LapsedDead(s.gdi[g])} ELSE {}
      reached == IF spread THEN {g \in Game : s.gdi[g].known} ELSE base
      notice  == IF spread THEN <<[type |-> "gameDown", games |-> down]>> ELSE <<>>
      queue   == [g \in Game |-> IF g \in reached THEN notice \o out[g] ELSE <<>>]
      after   == [g \in Game |-> Arrive(g, s.gdi[g], down, reached, queue[g])]
      direct  == {g \in Game : ~after[g].isBlocked /\ after[g].clientProxy # None}
  IN [edi  |-> [e \in Entity |-> IF s.edi[e].known /\ s.edi[e].gameid \in down
                                 THEN NoEntityInfo ELSE s.edi[e]],
      gdi  |-> after,
      id   |-> s.id,
      wire |-> [c \in Conn |->
                 IF /\ link[c] = "open"
                    /\ s.id[c] \in direct
                    /\ after[s.id[c]].clientProxy = c
                 THEN s.wire[c] \o queue[s.id[c]]
                 ELSE s.wire[c]]]

Dispatch(s, out) == DispatchDown(s, {}, out)

\* entityDispatchInfo.unblock: release the held packets to the entity's game.
ReleasedMutant(i) == [i EXCEPT !.blockUntil = "zero"]
Released(i) == [i EXCEPT !.blockUntil = "zero", !.pending = <<>>]
Unblock(s, e) ==
  IF s.edi[e].blockUntil = "zero" THEN s
  ELSE Dispatch([s EXCEPT !.edi[e] = Released(@)],
                To(s.edi[e].gameid, s.edi[e].pending))

\* entityDispatchInfo.dispatchPacket.  The packet that finds the block timed
\* out releases the held packets and is itself dropped.
OnTimeoutMutant(s, e, p) == Dispatch(s, To(s.edi[e].gameid, <<p>>))
OnTimeout(s, e, p) == Unblock(s, e)
DispatchToEntity(s, e, p) ==
  CASE s.edi[e].blockUntil = "zero"   -> Dispatch(s, To(s.edi[e].gameid, <<p>>))
    [] s.edi[e].blockUntil = "future" ->
         [s EXCEPT !.edi[e].pending = Hold(@, <<p>>, EntityQueueMax)]
    [] OTHER                          -> OnTimeout(s, e, p)

\* blockRPC: every block uses the same duration, so a new one ends last.
BlockRPC(s, e) == [s EXCEPT !.edi[e].blockUntil = "future"]

\* setEntityDispatcherInfoForWrite
ForWrite(s, e) == [s EXCEPT !.edi[e].known = TRUE]

\* handleGameDisconnected: only the current connection counts; a blocked game
\* keeps its entities and waits to be restored.
IsCurrentMutant(s, c) == TRUE
IsCurrent(s, c) == s.gdi[s.id[c]].clientProxy = c
WaitsForRestoreMutant(i) == FALSE
WaitsForRestoreAlways(i) == TRUE
WaitsForRestore(i) == i.isBlocked
GameDisconnected(s, c) ==
  LET g == s.id[c]
      t == [s EXCEPT !.gdi[g].clientProxy = None]
  IN IF ~IsCurrent(s, c) THEN s
     ELSE IF WaitsForRestore(s.gdi[g]) THEN t ELSE DispatchDown(t, {g}, Nothing)

\* handleGateDisconnected: the gates afterwards, and the notice to every game.
GateDisconnected(s, c) ==
  IF gates[s.id[c]] # c THEN s
  ELSE Dispatch(s, ToAllExcept(None, <<[type |-> "gateDown", gate |-> s.id[c]]>>))

\* checkDeploymentReady
NumGames(s) == Cardinality({g \in Game : \/ s.gdi[g].isBlocked
                                         \/ s.gdi[g].clientProxy # None})
NumGates(gs) == Cardinality({t \in Gate : gs[t] # None})
EnoughPeers(s, gs) == NumGates(gs) >= DesiredGates /\ NumGames(s) >= DesiredGames

CommitAndCheckReady(s, gs) ==
  IF ~ready /\ EnoughPeers(s, gs)
  THEN /\ ready' = TRUE
       /\ Commit(Dispatch(s, ToAllExcept(None, <<[type |-> "ready"]>>)))
  ELSE /\ ready' = ready
       /\ Commit(s)

-----------------------------------------------------------------------------
(* Message handlers.  c is the connection the message came from.           *)

\* A message from c is taken from the queue; c may be closed by then.
Handling(c) == /\ link[c] # "unused"
               /\ msgs < MaxMsgs
               /\ msgs' = msgs + 1

\* The part of handleSetGameID that adopts the new connection: the held packets
\* are sent first unless the game is frozen, and then by unblock, which clears
\* the time but leaves isBlocked set.
FlushOnAdoptMutant(i) == ~i.isBlocked
FlushOnAdopt(i) == ~i.isBlocked \/ i.blockUntil # "zero"
AdoptProxy(s, c, g) ==
  LET i     == s.gdi[g]
      flush == FlushOnAdopt(i)
  IN SendPacket([s EXCEPT !.gdi[g] =
                   [i EXCEPT !.known = TRUE, !.clientProxy = c,
                             !.blockUntil = "zero",
                             !.pending = IF flush THEN <<>> ELSE @]],
                c, IF flush THEN i.pending ELSE <<>>)

\* The entity loop of handleSetGameID: entities without a game or already on g
\* are (re)routed to g and released, in the order of the packet.
AdoptEntities(s, g, eids) ==
  LET mine == {e \in ToSet(eids) : s.edi[e].gameid \in {g, None}}
      held == FlattenSeq([i \in DOMAIN eids |->
                            IF eids[i] \in mine THEN s.edi[eids[i]].pending ELSE <<>>])
  IN Dispatch([s EXCEPT !.edi = [e \in Entity |->
                 IF e \in mine
                 THEN [Released(s.edi[e]) EXCEPT !.known = TRUE, !.gameid = g]
                 ELSE s.edi[e]]],
              To(g, held))

Rejected(s, g, eids) == {e \in ToSet(eids) : s.edi[e].gameid \notin {g, None}}

\* dcp.gameid = gameid (or gateid)
NamedMutant(c, p) == Now
Named(c, p) == [Now EXCEPT !.id[c] = p]

\* dcp.Close(): its serve goroutine will notice.
ClosedMutant(c) == IF c # None /\ link[c] = "open" THEN [link EXCEPT ![c] = "gone"] ELSE link
Closed(c) == IF c # None /\ link[c] = "open" THEN [link EXCEPT ![c] = "closed"] ELSE link

HandleSetGameID(c, g, eids) ==
  LET old    == gdi[g].clientProxy
      named  == Named(c, g)
      freed  == IF old = None THEN named ELSE GameDisconnected(named, old)
      taken  == AdoptProxy(freed, c, g)
      routed == AdoptEntities(taken, g, eids)
      ack    == [type |-> "setGameIDAck", ready |-> ready,
                 online |-> {h \in Game : routed.gdi[h].clientProxy # None},
                 reject |-> Rejected(taken, g, eids)]
      acked  == SendPacket(routed, c, <<ack>>)
  IN /\ Handling(c)
     /\ id[c] = None
     /\ link' = Closed(old)
     /\ CommitAndCheckReady(
          Dispatch(acked, ToAllExcept(g, <<[type |-> "gameUp", game |-> g]>>)), gates)
     /\ UNCHANGED <<gates, syncs>>

HandleSetGateID(c, t) ==
  LET old   == gates[t]
      named == Named(c, t)
      freed == IF old = None THEN named ELSE GateDisconnected(named, old)
  IN /\ Handling(c)
     /\ id[c] = None
     /\ link' = Closed(old)
     /\ gates' = [gates EXCEPT ![t] = c]
     /\ CommitAndCheckReady(freed, gates')
     /\ UNCHANGED syncs

GameOf(c) == IF id[c] \in Game THEN id[c] ELSE None

HandleNotifyCreateEntity(c, e) ==
  /\ Handling(c)
  /\ Commit(Unblock([ForWrite(Now, e) EXCEPT !.edi[e].gameid = GameOf(c)], e))
  /\ UNCHANGED <<gates, link, ready, syncs>>

\* Whoever sends it, the entity's route and held packets are deleted.
HandleNotifyDestroyEntity(c, e) ==
  /\ Handling(c)
  /\ edi' = [edi EXCEPT ![e] = NoEntityInfo]
  /\ UNCHANGED <<gdi, gates, id, link, wire, ready, syncs>>

\* LOAD_ENTITY_SOMEWHERE has no effect on an entity that has a game.
UnroutedMutant(e) == TRUE
Unrouted(e) == edi[e].gameid = None

\* chooseGame picks by load, so any game ever connected; target None is anywhere.
Candidates(target) == {g \in Game : gdi[g].known /\ target \in {None, g}}

HandleLoadEntitySomewhere(c, e, target) ==
  /\ Handling(c)
  /\ LET s == ForWrite(Now, e)
     IN \/ /\ Unrouted(e)
           /\ \E g \in Candidates(target) :
                Commit(Dispatch(BlockRPC([s EXCEPT !.edi[e].gameid = g], e),
                                To(g, <<[type |-> "load", entity |-> e]>>)))
        \/ /\ ~Unrouted(e) \/ Candidates(target) = {}
           /\ Commit(s)
  /\ UNCHANGED <<gates, link, ready, syncs>>

HandleCreateEntitySomewhere(c, e, target) ==
  /\ Handling(c)
  /\ \/ \E g \in Candidates(target) :
          Commit(Dispatch([ForWrite(Now, e) EXCEPT !.edi[e].gameid = g],
                          To(g, <<[type |-> "create", entity |-> e]>>)))
     \/ Candidates(target) = {} /\ Commit(Now)
  /\ UNCHANGED <<gates, link, ready, syncs>>

\* A call from an entity or a client, or a disconnected client's notice to its
\* owner: a packet addressed to an entity.
HandleCallEntityMethod(c, e) ==
  /\ Handling(c)
  /\ Commit(IF edi[e].known
            THEN DispatchToEntity(Now, e, [type |-> "call", entity |-> e, no |-> msgs'])
            ELSE Now)
  /\ UNCHANGED <<gates, link, ready, syncs>>

HandleCallNilSpaces(c, except) ==
  /\ Handling(c)
  /\ Commit(Dispatch(Now, ToAllExcept(except, <<[type |-> "nilSpaces"]>>)))
  /\ UNCHANGED <<gates, link, ready, syncs>>

\* The boot game is chosen round robin among the games that do not ban boot
\* entities; with none the handler panics and the message is lost.
HandleNotifyClientConnected(c) ==
  LET boot == {g \in Game \ BanBoot : gdi[g].known}
  IN /\ Handling(c)
     /\ \/ \E g \in boot : Commit(Dispatch(Now, To(g, <<[type |-> "clientConnected"]>>)))
        \/ boot = {} /\ Commit(Now)
     /\ UNCHANGED <<gates, link, ready, syncs>>

HandleQuerySpaceGameIDForMigrate(c, e, space) ==
  /\ Handling(c)
  /\ Commit(SendPacket(Now, c, <<[type |-> "spaceGame", entity |-> e, space |-> space,
                                  game |-> edi[space].gameid]>>))
  /\ UNCHANGED <<gates, link, ready, syncs>>

\* The request is echoed on its own connection, past any freeze block.
HandleMigrateRequest(c, e, space, target) ==
  /\ Handling(c)
  /\ Commit(SendPacket(BlockRPC(ForWrite(Now, e), e), c,
                       <<[type |-> "migrateAck", entity |-> e, space |-> space,
                          game |-> target]>>))
  /\ UNCHANGED <<gates, link, ready, syncs>>

HandleCancelMigrate(c, e) ==
  /\ Handling(c)
  /\ Commit(IF edi[e].known THEN Unblock(Now, e) ELSE Now)
  /\ UNCHANGED <<gates, link, ready, syncs>>

\* The entity's data goes to the target first, then what was held for it.
HandleRealMigrate(c, e, target) ==
  LET s == [ForWrite(Now, e) EXCEPT
              !.edi[e] = [Released(@) EXCEPT !.gameid = target]]
  IN /\ Handling(c)
     /\ Commit(Dispatch(s, To(target, <<[type |-> "realMigrate", entity |-> e]>>
                                      \o edi[e].pending)))
     /\ UNCHANGED <<gates, link, ready, syncs>>

HandleStartFreezeGame(c) ==
  /\ Handling(c)
  /\ LET g == id[c]
     IN Commit(IF g \notin Game THEN Now        \* panics: game not found
               ELSE SendPacket([Now EXCEPT !.gdi[g] =
                                  [@ EXCEPT !.isBlocked = TRUE, !.blockUntil = "future"]],
                               c, <<[type |-> "freezeAck"]>>))
  /\ UNCHANGED <<gates, link, ready, syncs>>

HandleSyncPositionYawFromClient(c, e) ==
  /\ Handling(c)
  /\ syncs' = IF edi[e].known THEN syncs \cup {edi[e].gameid} ELSE syncs
  /\ UNCHANGED <<edi, gdi, gates, id, link, wire, ready>>

-----------------------------------------------------------------------------
(* Ticks, disconnects, the network and the clock                            *)

\* sendEntitySyncInfosToGames.  An entry for gameid 0, or for a game never
\* connected, is a nil dereference: the loop panics after serving any part of
\* the map (iteration order) and the cache is never emptied again.
SendEntitySyncInfosToGames ==
  LET bad == {g \in syncs : g = None \/ ~gdi[g].known}
      out(T) == [g \in Game |-> IF g \in T THEN <<[type |-> "sync"]>> ELSE <<>>]
  IN /\ syncs # {}
     /\ msgs < MaxMsgs /\ msgs' = msgs + 1
     /\ \/ bad = {} /\ syncs' = {} /\ Commit(Dispatch(Now, out(syncs)))
        \/ /\ bad # {} /\ syncs' = syncs
           /\ \E T \in SUBSET (syncs \ bad) : Commit(Dispatch(Now, out(T)))
     /\ UNCHANGED <<gates, link, ready>>

\* The posted handleDispatcherClientDisconnect.  It runs on a tick, so messages
\* of c still queued may be handled before or after it.
HandleDispatcherClientDisconnect(c) ==
  /\ link[c] = "closed"
  /\ link' = [link EXCEPT ![c] = "gone"]
  /\ \/ /\ id[c] \in Gate
        /\ gates' = IF gates[id[c]] = c THEN [gates EXCEPT ![id[c]] = None] ELSE gates
        /\ Commit(GateDisconnected(Now, c))
     \/ /\ id[c] \in Game
        /\ Commit(GameDisconnected(Now, c))
        /\ UNCHANGED gates
     \/ /\ id[c] = None
        /\ UNCHANGED <<edi, gdi, gates, id, wire>>
  /\ UNCHANGED <<ready, syncs, msgs>>

Accept(c) ==
  /\ link[c] = "unused"
  /\ link' = [link EXCEPT ![c] = "open"]
  /\ UNCHANGED <<edi, gdi, gates, id, wire, ready, syncs, msgs>>

\* The connection dies; some of what was written still reached the peer.
Break(c) ==
  /\ link[c] = "open"
  /\ link' = [link EXCEPT ![c] = "closed"]
  /\ \E n \in 0..Len(wire[c]) : wire' = [wire EXCEPT ![c] = SubSeq(@, 1, n)]
  /\ UNCHANGED <<edi, gdi, gates, id, ready, syncs, msgs>>

\* The peer reads the next packet.
Read(c) ==
  /\ wire[c] # <<>>
  /\ wire' = [wire EXCEPT ![c] = Tail(@)]
  /\ UNCHANGED <<edi, gdi, gates, id, link, ready, syncs, msgs>>

\* The load or migrate block of e times out (one minute).
EntityBlockTimesOut(e) ==
  /\ edi[e].blockUntil = "future"
  /\ edi' = [edi EXCEPT ![e].blockUntil = "past"]
  /\ UNCHANGED <<gdi, gates, id, link, wire, ready, syncs, msgs>>

\* The freeze block of g times out (ten seconds): while the game is still
\* dumping its entities, or after it exited and before it is restored.
GameBlockTimesOut(g) ==
  /\ gdi[g].blockUntil = "future"
  /\ (IF gdi[g].clientProxy = None THEN "disconnected" ELSE "connected") \in FreezeTimeout
  /\ gdi' = [gdi EXCEPT ![g].blockUntil = "past"]
  /\ UNCHANGED <<edi, gates, id, link, wire, ready, syncs, msgs>>

-----------------------------------------------------------------------------
Init ==
  /\ edi = [e \in Entity |-> NoEntityInfo]
  /\ gdi = [g \in Game |-> NoGameInfo]
  /\ gates = [t \in Gate |-> None]
  /\ id = [c \in Conn |-> None]
  /\ link = [c \in Conn |-> "unused"]
  /\ wire = [c \in Conn |-> <<>>]
  /\ ready = FALSE
  /\ syncs = {}
  /\ msgs = 0

\* Entity lists a game may report; GetEntityIDsForDispatcher walks a Go map.
Reports == {SetToSeq(S) : S \in SUBSET Entity}

Message(c) ==
  \/ \E g \in Game, eids \in Reports : HandleSetGameID(c, g, eids)
  \/ \E t \in Gate : HandleSetGateID(c, t)
  \/ \E g \in Game \cup {None} : HandleCallNilSpaces(c, g)
  \/ HandleNotifyClientConnected(c)
  \/ HandleStartFreezeGame(c)
  \/ \E e \in Entity :
       \/ HandleNotifyCreateEntity(c, e)
       \/ HandleNotifyDestroyEntity(c, e)
       \/ HandleCallEntityMethod(c, e)
       \/ \E space \in Entity : HandleQuerySpaceGameIDForMigrate(c, e, space)
       \/ HandleCancelMigrate(c, e)
       \/ HandleSyncPositionYawFromClient(c, e)
       \/ \E g \in Game \cup {None} :
            \/ HandleLoadEntitySomewhere(c, e, g)
            \/ HandleCreateEntitySomewhere(c, e, g)
            \/ \E space \in Entity : HandleMigrateRequest(c, e, space, g)
            \/ HandleRealMigrate(c, e, g)

Network(c) == \/ HandleDispatcherClientDisconnect(c)
              \/ Accept(c) \/ Break(c) \/ Read(c)

Next == \/ \E c \in Conn : Message(c) \/ Network(c)
        \/ \E e \in Entity : EntityBlockTimesOut(e)
        \/ \E g \in Game : GameBlockTimesOut(g)
        \/ SendEntitySyncInfosToGames

Spec == Init /\ [][Next]_vars

-----------------------------------------------------------------------------
(* Properties                                                               *)

\* The state is well formed.
TypeOK ==
  /\ edi \in [Entity -> EntityInfo]
  /\ gdi \in [Game -> GameInfo]
  /\ gates \in [Gate -> Conn \cup {None}]
  /\ id \in [Conn -> Game \cup Gate \cup {None}]
  /\ link \in [Conn -> {"unused", "open", "closed", "gone"}]
  /\ wire \in [Conn -> Seq(Packet)]
  /\ ready \in BOOLEAN
  /\ syncs \subseteq Game \cup {None}
  /\ msgs \in Nat

\* Packets are held for an entity only while it is blocked: no path that clears
\* the block (create, migrate, cancel, reconnect, timeout) forgets to release
\* them, or later packets would overtake them.
PendingOnlyWhileBlocked ==
  \A e \in Entity : edi[e].pending # <<>> => edi[e].blockUntil # "zero"

\* The proxy of a game is a connection that announced that game, and only games
\* in the map have one; likewise for gates.
ProxyIdentity ==
  /\ \A g \in Game : gdi[g].clientProxy # None =>
                       gdi[g].known /\ id[gdi[g].clientProxy] = g
  /\ \A t \in Gate : gates[t] # None => id[gates[t]] = t

\* Packets are held for a connected game only while its freeze block runs: the
\* three ways the block ends (reconnect, timeout found by a dispatch, cleanup)
\* leave none behind.  It holds when a frozen game exits before the timeout.
HeldForAReason ==
  "connected" \in FreezeTimeout \/ \A g \in Game :
    gdi[g].pending # <<>> => \/ gdi[g].clientProxy = None
                             \/ gdi[g].isBlocked /\ gdi[g].blockUntil = "future"

IsCallOf(p, e) == p.type = "call" /\ p.entity = e
Rising(q, e) == \A i, j \in DOMAIN q :
  i < j /\ IsCallOf(q[i], e) /\ IsCallOf(q[j], e) => q[i].no < q[j].no

\* Calls to an entity leave in the order the dispatcher took them: on the way to
\* a game, what is held for the entity comes after what is held for the game,
\* and that after what is on the wire.
CallOrder ==
  "connected" \in FreezeTimeout \/ \A e \in Entity, g \in Game :
    LET c    == gdi[g].clientProxy
        sent == IF c = None THEN <<>> ELSE wire[c]
        held == IF edi[e].gameid = g THEN edi[e].pending ELSE <<>>
    IN Rising(sent \o gdi[g].pending \o held, e)

\* A freezing game that disconnects keeps the routes to its entities and every
\* packet held for it, so that the restored process gets them.
FreezeSurvivesDisconnect ==
  [][\A g \in Game :
       (/\ gdi[g].isBlocked /\ gdi[g].blockUntil = "future"
        /\ gdi[g].clientProxy # None /\ gdi'[g].clientProxy = None)
       => /\ gdi'[g].pending = gdi[g].pending
          /\ \A e \in Entity : edi[e].gameid = g => edi'[e] = edi[e]]_vars

\* A game that goes down without being frozen takes all its routes with it: no
\* later call is sent to an entity that died with it.
DownCleansRoutes ==
  [][\A g \in Game :
       (/\ gdi[g].clientProxy # None /\ ~gdi[g].isBlocked
        /\ gdi'[g].clientProxy = None)
       => \A e \in Entity : edi'[e].gameid # g]_vars

\* The disconnect of a connection that was replaced, handled late, changes no
\* route and disturbs neither the game's nor the gate's current connection.
StaleDisconnectHarmless ==
  [][\A c \in Conn :
       (/\ link[c] = "closed" /\ link'[c] = "gone"
        /\ \A g \in Game : gdi[g].clientProxy # c
        /\ \A t \in Gate : gates[t] # c)
       => UNCHANGED <<edi, gdi, gates>>]_vars

=============================================================================
