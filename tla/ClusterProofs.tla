---------------------------- MODULE ClusterProofs ----------------------------
(***************************************************************************)
(* Theorems about the dispatcher with its games, for any number of games,  *)
(* entities and connections and any bounds: the state is well formed, the  *)
(* cluster implements the dispatcher's specification, games come to know   *)
(* which games there are, no entity is on two games unless the dispatcher  *)
(* is misled, and with entities that move between spaces, a space and its  *)
(* members agree.                                                          *)
(*                                                                         *)
(* Peers is what both systems need to know of what is in flight: only then *)
(* is a step of a game a step the dispatcher allows its peers.             *)
(***************************************************************************)
EXTENDS Migration, DispatcherProofs

\* What games send.
Request ==
       [type : {"setGameID"}, game : Game, entities : Reports]
  \cup [type : {"notify", "destroy", "load", "create", "call", "cancel"}, entity : Entity]
  \cup [type : {"freeze"}]
  \cup [type : {"query"}, entity : Entity, space : Entity]
  \cup [type : {"migrate"}, entity : Entity, space : Entity, game : Game \cup {None}]
  \cup [type : {"real"}, entity : Entity, game : Game \cup {None}]

\* The dispatcher is in a good state, and so is what games send and hold.
Peers ==
  /\ Inv
  /\ proc \in [Game -> ProcState]
  /\ live \in [Game -> SUBSET Entity] /\ dump \in [Game -> SUBSET Entity]
  /\ snap \in [Game -> SUBSET Entity]
  /\ cur \in [Game -> Conn \cup {None}]
  /\ inbox \in [Conn -> Seq(Request)]

-----------------------------------------------------------------------------
(* What is sent                                                             *)

LEMMA RequestKinds ==
  ASSUME NEW m \in Request
  PROVE  \/ m.type = "setGameID" /\ m.game \in Game /\ m.entities \in Reports
         \/ /\ m.type \in {"notify", "destroy", "load", "create", "call", "cancel"}
            /\ m.entity \in Entity
         \/ m.type = "freeze"
         \/ m.type = "query" /\ m.entity \in Entity /\ m.space \in Entity
         \/ /\ m.type = "migrate" /\ m.entity \in Entity /\ m.space \in Entity
            /\ m.game \in Game \cup {None}
         \/ m.type = "real" /\ m.entity \in Entity /\ m.game \in Game \cup {None}
  BY DEF Request

\* What arrives is well formed.
LEMMA PacketKinds ==
  ASSUME NEW p \in Packet
  PROVE  /\ p.type = "call" => p.entity \in Entity /\ p.no \in Nat
         /\ p.type \in {"load", "create", "realMigrate"} => p.entity \in Entity
         /\ p.type \in {"spaceGame", "migrateAck"} =>
              p.entity \in Entity /\ p.space \in Entity /\ p.game \in Game \cup {None}
         /\ p.type = "gameUp" => p.game \in Game
         /\ p.type = "gameDown" => p.games \in SUBSET Game
         /\ p.type = "setGameIDAck" =>
              /\ p.ready \in BOOLEAN /\ p.online \in SUBSET Game
              /\ p.reject \in SUBSET Entity
  BY DEF Packet

LEMMA ToldTyped ==
  ASSUME Peers, NEW g \in Game, NEW ms \in Seq(Request)
  PROVE  Told(g, ms) \in [Conn -> Seq(Request)]
  <1>1. ASSUME cur[g] # None
        PROVE  [inbox EXCEPT ![cur[g]] = inbox[cur[g]] \o ms] \in [Conn -> Seq(Request)]
    <2>1. cur[g] \in Conn
      BY <1>1 DEF Peers
    <2>2. inbox[cur[g]] \in Seq(Request)
      BY <2>1 DEF Peers
    <2>5. inbox[cur[g]] \o ms \in Seq(Request)
      BY <2>2
    <2>3. PICK q \in Seq(Request) : q = inbox[cur[g]] \o ms
      BY <2>5
    <2>4. [inbox EXCEPT ![cur[g]] = q] \in [Conn -> Seq(Request)]
      BY <2>1, <2>3 DEF Peers
    <2> QED BY <2>3, <2>4
  <1> QED BY <1>1 DEF Told, Peers

LEMMA OneRequest ==
  ASSUME NEW e \in Entity, NEW k \in {"notify", "destroy", "load", "create", "call", "cancel"}
  PROVE  <<[type |-> k, entity |-> e]>> \in Seq(Request)
  <1>1. [type |-> k, entity |-> e] \in Request
    BY DEF Request
  <1> QED BY <1>1

LEMMA NoticesTyped ==
  ASSUME NEW S \in SUBSET Entity
  PROVE  DestroyNotices(S) \in Seq(Request)
  <1>1. IsFiniteSet(S)
    BY FiniteAssumption, FS_Subset
  <1>2. SetToSeq(S) \in Seq(S)
    BY <1>1, SetToSeqTyped
  <1>3. PICK q \in Seq(S) : q = SetToSeq(S)
    BY <1>2
  <1>4. DestroyNotices(S) = [i \in DOMAIN q |-> [type |-> "destroy", entity |-> q[i]]]
    BY <1>3 DEF DestroyNotices
  <1>5. ASSUME NEW i \in DOMAIN q
        PROVE  [type |-> "destroy", entity |-> q[i]] \in Request
    <2>1. q[i] \in Entity
      OBVIOUS
    <2> QED BY <2>1 DEF Request
  <1> QED BY <1>4, <1>5

-----------------------------------------------------------------------------
(* The steps of games are steps the dispatcher allows                       *)

LEMMA ServeMessage ==
  ASSUME Peers, NEW c \in Conn, Serve(c)
  PROVE  Message(c) /\ (Head(inbox[c]).type # "call" => Carries)
  <1> DEFINE m == Head(inbox[c])
  <1> SUFFICES Message(c) /\ (m.type # "call" => Carries)
    OBVIOUS
  <1>1. m \in Request
    <2>1. inbox[c] \in Seq(Request) /\ inbox[c] # <<>>
      BY DEF Serve, Peers
    <2> QED BY <2>1
  <1>2. CASE m.type = "setGameID" /\ m.game \in Game /\ m.entities \in Reports
    <2>1. HandleSetGameID(c, m.game, m.entities)
      BY <1>2 DEF Serve
    <2>2. Inv
      BY DEF Peers
    <2> HIDE DEF m
    <2>3. Carries
      BY <1>2, <2>1, <2>2, SetGameIDKeeps, ReportsTyped
    <2> QED BY <1>2, <2>1, <2>3 DEF Message
  <1>3. CASE m.type = "notify" /\ m.entity \in Entity
    <2>1. HandleNotifyCreateEntity(c, m.entity)
      BY <1>3 DEF Serve
    <2>2. Inv
      BY DEF Peers
    <2> HIDE DEF m
    <2>3. Carries
      BY <1>3, <2>1, <2>2, NotifyCreateKeeps
    <2> QED BY <1>3, <2>1, <2>3 DEF Message
  <1>4. CASE m.type = "destroy" /\ m.entity \in Entity
    <2>1. HandleNotifyDestroyEntity(c, m.entity)
      BY <1>4 DEF Serve
    <2>2. Inv
      BY DEF Peers
    <2> HIDE DEF m
    <2>3. Carries
      BY <1>4, <2>1, <2>2, NotifyDestroyKeeps
    <2> QED BY <1>4, <2>1, <2>3 DEF Message
  <1>5. CASE m.type = "load" /\ m.entity \in Entity
    <2>1. HandleLoadEntitySomewhere(c, m.entity, None)
      BY <1>5 DEF Serve
    <2>2. Inv
      BY DEF Peers
    <2> HIDE DEF m
    <2>3. Carries
      BY <1>5, <2>1, <2>2, LoadKeeps
    <2> QED BY <1>5, <2>1, <2>3 DEF Message
  <1>6. CASE m.type = "create" /\ m.entity \in Entity
    <2>1. HandleCreateEntitySomewhere(c, m.entity, None)
      BY <1>6 DEF Serve
    <2>2. Inv
      BY DEF Peers
    <2> HIDE DEF m
    <2>3. Carries
      BY <1>6, <2>1, <2>2, CreateKeeps
    <2> QED BY <1>6, <2>1, <2>3 DEF Message
  <1>7. CASE m.type = "call" /\ m.entity \in Entity
    <2>1. HandleCallEntityMethod(c, m.entity)
      BY <1>7 DEF Serve
    <2> QED BY <1>7, <2>1 DEF Message
  <1>8. CASE m.type = "cancel" /\ m.entity \in Entity
    <2>1. HandleCancelMigrate(c, m.entity)
      BY <1>8 DEF Serve
    <2>2. Inv
      BY DEF Peers
    <2> HIDE DEF m
    <2>3. Carries
      BY <1>8, <2>1, <2>2, CancelMigrateKeeps
    <2> QED BY <1>8, <2>1, <2>3 DEF Message
  <1>9. CASE m.type = "freeze"
    <2>1. HandleStartFreezeGame(c)
      BY <1>9 DEF Serve
    <2>2. Inv
      BY DEF Peers
    <2> HIDE DEF m
    <2>3. Carries
      BY <2>1, <2>2, StartFreezeKeeps
    <2> QED BY <2>1, <2>3 DEF Message
  <1>10. CASE m.type = "query" /\ m.entity \in Entity /\ m.space \in Entity
    <2>1. HandleQuerySpaceGameIDForMigrate(c, m.entity, m.space)
      BY <1>10 DEF Serve
    <2>2. Inv
      BY DEF Peers
    <2> HIDE DEF m
    <2>3. Carries
      BY <1>10, <2>1, <2>2, QuerySpaceKeeps
    <2> QED BY <1>10, <2>1, <2>3 DEF Message
  <1>11. CASE /\ m.type = "migrate" /\ m.entity \in Entity /\ m.space \in Entity
              /\ m.game \in Game \cup {None}
    <2>1. HandleMigrateRequest(c, m.entity, m.space, m.game)
      BY <1>11 DEF Serve
    <2>2. Inv
      BY DEF Peers
    <2> HIDE DEF m
    <2>3. Carries
      BY <1>11, <2>1, <2>2, MigrateRequestKeeps
    <2> QED BY <1>11, <2>1, <2>3 DEF Message
  <1>12. CASE m.type = "real" /\ m.entity \in Entity /\ m.game \in Game \cup {None}
    <2>1. HandleRealMigrate(c, m.entity, m.game)
      BY <1>12 DEF Serve
    <2>2. Inv
      BY DEF Peers
    <2> HIDE DEF m
    <2>3. Carries
      BY <1>12, <2>1, <2>2, RealMigrateKeeps
    <2> QED BY <1>12, <2>1, <2>3 DEF Message
  <1> HIDE DEF m
  <1> QED BY <1>1, <1>2, <1>3, <1>4, <1>5, <1>6, <1>7, <1>8, <1>9, <1>10, <1>11, <1>12,
             RequestKinds

LEMMA StutterCarries ==
  ASSUME UNCHANGED vars
  PROVE  Carries
  <1>1. Now' = Now
    BY DEF Now, vars
  <1> QED BY <1>1 DEF Carries

\* The process of g ends, and its connection with it.
LEMMA ExitBreaks ==
  ASSUME Peers, NEW g \in Game, NEW state, NEW file, Exit(g, state, file)
  PROVE  [Next]_vars /\ Carries /\ (UNCHANGED vars \/ \E c \in Conn : Break(c))
  <1>1. CASE cur[g] # None /\ link[cur[g]] = "open"
    <2>1. PICK c \in Conn : c = cur[g]
      BY <1>1 DEF Peers
    <2>2. link' = [link EXCEPT ![c] = "closed"] /\ wire' = [wire EXCEPT ![c] = <<>>]
      BY <1>1, <2>1, NoneAssumption DEF Exit, Closed
    <2>3. wire[c] \in Seq(Packet)
      BY NowTyped DEF Peers
    <2>4. 0 \in 0..Len(wire[c]) /\ SubSeq(wire[c], 1, 0) = <<>>
      BY <2>3
    <2>5. wire' = [wire EXCEPT ![c] = SubSeq(@, 1, 0)]
      BY <2>2, <2>4
    <2>6. \E n \in 0..Len(wire[c]) : wire' = [wire EXCEPT ![c] = SubSeq(@, 1, n)]
      BY <2>4, <2>5
    <2>7. Break(c)
      BY <1>1, <2>1, <2>2, <2>6 DEF Exit, Break
    <2> QED BY <2>7, BreakKeeps DEF Next, Network, Peers
  <1>2. CASE ~(cur[g] # None /\ link[cur[g]] = "open")
    <2>1. UNCHANGED vars
      BY <1>2 DEF Exit, vars
    <2> QED BY <2>1, StutterCarries
  <1> QED BY <1>1, <1>2

\* Whatever the dispatcher and its peers do, Inv goes on.
LEMMA PeersGoOn ==
  ASSUME Peers, [Next]_vars,
         proc' \in [Game -> ProcState],
         live' \in [Game -> SUBSET Entity], dump' \in [Game -> SUBSET Entity],
         snap' \in [Game -> SUBSET Entity], cur' \in [Game -> Conn \cup {None}],
         inbox' \in [Conn -> Seq(Request)]
  PROVE  Peers'
  BY Inductive DEF Peers

LEMMA ServePeers ==
  ASSUME Peers, NEW c \in Conn, Serve(c)
  PROVE  Peers' /\ [Next]_vars
  <1>1. [Next]_vars
    BY ServeMessage DEF Next
  <1>2. inbox' \in [Conn -> Seq(Request)]
    <2>1. inbox[c] \in Seq(Request) /\ inbox[c] # <<>> /\ inbox' = [inbox EXCEPT ![c] = Tail(@)]
      BY DEF Serve, Peers
    <2>2. Tail(inbox[c]) \in Seq(Request)
      BY <2>1
    <2> QED BY <2>1, <2>2 DEF Peers
  <1>3. UNCHANGED gameVars
    BY DEF Serve
  <1> QED BY <1>1, <1>2, <1>3, PeersGoOn DEF gameVars, Peers

LEMMA TimePeers ==
  ASSUME Peers,
         \/ \E c \in Conn : Disconnected(c)
         \/ \E e \in Entity : EntityTimeout(e)
         \/ \E g \in Game : GameTimeout(g)
  PROVE  Peers' /\ [Next]_vars /\ Carries
  <1>1. [Next]_vars
    BY DEF Disconnected, EntityTimeout, GameTimeout, Next, Network
  <1>2. Carries
    BY DisconnectKeeps, EntityBlockKeeps, GameBlockKeeps
       DEF Disconnected, EntityTimeout, GameTimeout, Peers
  <1>3. UNCHANGED <<gameVars, inbox>>
    BY DEF Disconnected, EntityTimeout, GameTimeout
  <1> QED BY <1>1, <1>2, <1>3, PeersGoOn DEF gameVars, Peers

LEMMA ConnectPeers ==
  ASSUME Peers, NEW g \in Game, Connect(g)
  PROVE  Peers' /\ [Next]_vars /\ Carries
  <1>1. PICK c \in Conn : Accept(c) /\ cur' = [cur EXCEPT ![g] = c]
    BY DEF Connect, NextConn
  <1>2. [Next]_vars /\ Carries
    BY <1>1, AcceptKeeps DEF Next, Network, Peers
  <1>3. cur' \in [Game -> Conn \cup {None}]
    BY <1>1 DEF Peers
  <1>4. UNCHANGED <<proc, live, dump, snap, inbox>>
    BY DEF Connect
  <1> QED BY <1>2, <1>3, <1>4, PeersGoOn DEF Peers

LEMMA RegisterPeers ==
  ASSUME Peers, NEW g \in Game, TakeSnapshot(g) \/ Register(g)
  PROVE  Peers' /\ UNCHANGED vars
  <1>1. UNCHANGED <<vars, live, dump, cur>>
    BY DEF TakeSnapshot, Register
  <1>2. proc' \in [Game -> ProcState] /\ snap' \in [Game -> SUBSET Entity]
    BY DEF TakeSnapshot, Register, Peers, ProcState
  <1>3. inbox' \in [Conn -> Seq(Request)]
    <2> DEFINE m == [type |-> "setGameID", game |-> g, entities |-> SetToSeq(snap[g])]
    <2>1. SetToSeq(snap[g]) \in Reports
      BY DEF Reports, Peers
    <2>2. m \in Request
      BY <2>1 DEF Request
    <2> HIDE DEF m
    <2>6. <<m>> \in Seq(Request)
      BY <2>2
    <2>3. Told(g, <<m>>) \in [Conn -> Seq(Request)]
      BY <2>6, ToldTyped
    <2>4. TakeSnapshot(g) => inbox' = inbox
      BY DEF TakeSnapshot
    <2>5. Register(g) => inbox' = Told(g, <<m>>)
      BY DEF m, Register, Tell
    <2> QED BY <2>3, <2>4, <2>5 DEF Peers
  <1> QED BY <1>1, <1>2, <1>3, PeersGoOn DEF Peers

LEMMA StartPeers ==
  ASSUME Peers, NEW g \in Game, Start(g)
  PROVE  Peers' /\ UNCHANGED vars
  <1>1. UNCHANGED <<vars, snap, inbox>>
    BY DEF Start
  <1>2. /\ proc' \in [Game -> ProcState] /\ cur' \in [Game -> Conn \cup {None}]
        /\ live' \in [Game -> SUBSET Entity] /\ dump' \in [Game -> SUBSET Entity]
    BY DEF Start, Peers, ProcState
  <1> QED BY <1>1, <1>2, PeersGoOn DEF Peers

LEMMA ExitPeers ==
  ASSUME Peers, NEW g \in Game, NEW state \in ProcState, NEW file \in SUBSET Entity,
         Exit(g, state, file), inbox' \in [Conn -> Seq(Request)]
  PROVE  Peers' /\ [Next]_vars /\ Carries
  <1>1. [Next]_vars /\ Carries
    BY ExitBreaks
  <1>2. /\ proc' \in [Game -> ProcState] /\ cur' \in [Game -> Conn \cup {None}]
        /\ live' \in [Game -> SUBSET Entity] /\ dump' \in [Game -> SUBSET Entity]
        /\ snap' \in [Game -> SUBSET Entity]
    BY DEF Exit, Peers
  <1> QED BY <1>1, <1>2, PeersGoOn

\* Some of what was sent on a connection that breaks is lost.
LEMMA CutTyped ==
  ASSUME Peers, NEW g \in Game, cur[g] # None,
         \E n \in 0..Len(inbox[cur[g]]) :
            inbox' = [inbox EXCEPT ![cur[g]] = SubSeq(@, 1, n)]
  PROVE  inbox' \in [Conn -> Seq(Request)]
  <1>1. PICK c \in Conn : c = cur[g]
    BY DEF Peers
  <1>2. PICK n \in 0..Len(inbox[c]) : inbox' = [inbox EXCEPT ![c] = SubSeq(inbox[c], 1, n)]
    BY <1>1
  <1>3. inbox[c] \in Seq(Request)
    BY DEF Peers
  <1>4. SubSeq(inbox[c], 1, n) \in Seq(Request)
    BY <1>3
  <1> QED BY <1>2, <1>4 DEF Peers

LEMMA StopPeers ==
  ASSUME Peers, NEW g \in Game, Crash(g) \/ DoFreeze(g) \/ BreakConn(g)
  PROVE  Peers' /\ [Next]_vars /\ Carries
  <1>1. CASE Crash(g)
    <2>1. Exit(g, "down", {}) /\ "down" \in ProcState
      BY <1>1 DEF Crash, ProcState
    <2>2. inbox' \in [Conn -> Seq(Request)]
      BY <1>1, CutTyped DEF Crash, Peers
    <2> QED BY <2>1, <2>2, ExitPeers
  <1>2. CASE DoFreeze(g)
    <2>1. Exit(g, "frozen", live[g]) /\ "frozen" \in ProcState /\ inbox' = inbox
      BY <1>2 DEF DoFreeze, ProcState
    <2>2. live[g] \in SUBSET Entity /\ inbox' \in [Conn -> Seq(Request)]
      BY <2>1 DEF Peers
    <2> QED BY <2>1, <2>2, ExitPeers
  <1>3. CASE BreakConn(g)
    <2>1. PICK c \in Conn : c = cur[g]
      BY <1>3 DEF BreakConn, Peers
    <2>2. Break(c)
      BY <1>3, <2>1 DEF BreakConn
    <2>3. inbox' \in [Conn -> Seq(Request)]
      BY <1>3, CutTyped DEF BreakConn
    <2>4. UNCHANGED gameVars
      BY <1>3 DEF BreakConn
    <2>5. [Next]_vars /\ Carries
      BY <2>2, BreakKeeps DEF Next, Network, Peers
    <2> QED BY <2>3, <2>4, <2>5, PeersGoOn DEF gameVars, Peers
  <1> QED BY <1>1, <1>2, <1>3

\* What a game does on its own: it changes its entities and tells the dispatcher.
LEMMA AlonePeers ==
  ASSUME Peers, UNCHANGED <<vars, dump, snap, cur>>,
         proc' \in [Game -> ProcState], live' \in [Game -> SUBSET Entity],
         NEW g \in Game, NEW ms \in Seq(Request), inbox' \in {inbox, Told(g, ms)}
  PROVE  Peers' /\ [Next]_vars /\ Carries
  <1>1. inbox' \in [Conn -> Seq(Request)]
    BY ToldTyped DEF Peers
  <1>2. Carries
    BY StutterCarries
  <1> QED BY <1>1, <1>2, PeersGoOn DEF Peers

LEMMA EntityPeers ==
  ASSUME Peers, NEW g \in Game, NEW e \in Entity,
         \/ CreateEntity(g, e) \/ CreateEntitySomewhere(g, e) \/ DestroyEntity(g, e)
         \/ LoadEntityAnywhere(g, e) \/ Loaded(g, e) \/ LoadFailed(g, e)
         \/ Call(g, e)
  PROVE  Peers' /\ [Next]_vars /\ Carries
  <1>1. UNCHANGED <<vars, proc, dump, snap, cur>>
    BY DEF CreateEntity, CreateEntitySomewhere, DestroyEntity, LoadEntityAnywhere, Loaded,
           LoadFailed, Call, Ask, gameVars
  <1>6. \/ live' = live
        \/ live' = [live EXCEPT ![g] = @ \cup {e}]
        \/ live' = [live EXCEPT ![g] = @ \ {e}]
    BY DEF CreateEntity, CreateEntitySomewhere, DestroyEntity, LoadEntityAnywhere, Loaded,
           LoadFailed, Call, Ask, gameVars
  <1>2. live' \in [Game -> SUBSET Entity]
    BY <1>6 DEF Peers
  <1>3. \E k \in {"notify", "destroy", "load", "create", "call", "cancel"} :
           inbox' \in {inbox, Told(g, <<[type |-> k, entity |-> e]>>)}
    BY DEF CreateEntity, CreateEntitySomewhere, DestroyEntity, LoadEntityAnywhere, Loaded,
           LoadFailed, Call, Ask, Tell
  <1>4. PICK ms \in Seq(Request) : inbox' \in {inbox, Told(g, ms)}
    BY <1>3, OneRequest
  <1>5. proc' \in [Game -> ProcState]
    BY <1>1 DEF Peers
  <1> QED BY <1>1, <1>2, <1>4, <1>5, AlonePeers

LEMMA FreezePeers ==
  ASSUME Peers, NEW g \in Game, StartFreeze(g) \/ FreezeFails(g)
  PROVE  Peers' /\ [Next]_vars /\ Carries
  <1>1. UNCHANGED <<vars, live, dump, snap, cur>>
    BY DEF StartFreeze, FreezeFails, Ask, gameVars
  <1>2. proc' \in [Game -> ProcState]
    BY DEF StartFreeze, FreezeFails, Ask, gameVars, Peers, ProcState
  <1>3. <<[type |-> "freeze"]>> \in Seq(Request)
    BY DEF Request
  <1>4. inbox' \in {inbox, Told(g, <<[type |-> "freeze"]>>)}
    BY DEF StartFreeze, FreezeFails, Ask, Tell
  <1>5. live' \in [Game -> SUBSET Entity]
    BY <1>1 DEF Peers
  <1> QED BY <1>1, <1>2, <1>3, <1>4, <1>5, AlonePeers

\* The next packet on a game's connection.
LEMMA ReadPeers ==
  ASSUME Peers, NEW g \in Game, cur[g] # None, Read(cur[g])
  PROVE  [Next]_vars /\ Carries /\ Head(wire[cur[g]]) \in Packet
  <1>1. PICK c \in Conn : c = cur[g]
    BY DEF Peers
  <1>2. wire[c] \in Seq(Packet) /\ wire[c] # <<>>
    BY <1>1, NowTyped DEF Peers, Read
  <1>3. Head(wire[c]) \in Packet
    BY <1>2
  <1> QED BY <1>1, <1>3, ReadKeeps DEF Next, Network, Peers

\* A packet of a kind the games handle here leaves them in a good state.
LEMMA HandleTyped ==
  ASSUME Peers, NEW g \in Game, NEW p \in Packet, Handle(g, p)
  PROVE  /\ proc' \in [Game -> ProcState] /\ live' \in [Game -> SUBSET Entity]
         /\ inbox' \in [Conn -> Seq(Request)]
  <1>1. CASE p.type = "setGameIDAck" /\ OnSetGameIDAck(g, p)
    <2>1. live[g] \in SUBSET Entity
      BY DEF Peers
    <2>2. DestroyNotices(live[g] \cap p.reject) \in Seq(Request)
      BY <2>1, NoticesTyped
    <2>3. Told(g, DestroyNotices(live[g] \cap p.reject)) \in [Conn -> Seq(Request)]
      BY <2>2, ToldTyped
    <2>4. UNCHANGED proc /\ live' = [live EXCEPT ![g] = @ \ p.reject]
          /\ inbox' = Told(g, DestroyNotices(live[g] \cap p.reject))
      BY <1>1 DEF OnSetGameIDAck, Tell
    <2> QED BY <2>3, <2>4 DEF Peers
  <1>2. CASE p.type = "create" /\ OnCreateEntitySomewhere(g, p.entity)
    <2>1. p.entity \in Entity
      BY <1>2, PacketKinds
    <2>2. PICK ms \in Seq(Request) : ms = <<[type |-> "notify", entity |-> p.entity]>>
      BY <2>1, OneRequest
    <2>3. Told(g, ms) \in [Conn -> Seq(Request)]
      BY ToldTyped
    <2>4. UNCHANGED proc /\ live' = [live EXCEPT ![g] = @ \cup {p.entity}] /\ inbox' = Told(g, ms)
      BY <1>2, <2>2 DEF OnCreateEntitySomewhere, Tell
    <2> QED BY <2>1, <2>3, <2>4 DEF Peers
  <1>3. CASE \/ p.type = "ready" /\ OnNotifyDeploymentReady(g)
             \/ p.type = "load" /\ OnLoadEntitySomewhere(g, p.entity)
             \/ p.type = "call" /\ OnCall(g, p)
             \/ p.type = "gameUp" /\ OnGameConnected(g, p.game)
             \/ p.type = "gameDown" /\ OnGameDisconnected(g, p.games)
    BY <1>3 DEF OnNotifyDeploymentReady, OnLoadEntitySomewhere, OnCall, OnGameConnected,
                OnGameDisconnected, Peers
  <1>4. CASE p.type = "freezeAck" /\ OnStartFreezeGameAck(g)
    BY <1>4 DEF OnStartFreezeGameAck, Peers, ProcState
  <1> QED BY <1>1, <1>2, <1>3, <1>4 DEF Handle

LEMMA HandlePeers ==
  ASSUME Peers, NEW g \in Game, HandlePacket(g)
  PROVE  Peers' /\ [Next]_vars /\ Carries
  <1>1. [Next]_vars /\ Carries /\ Head(wire[cur[g]]) \in Packet
    BY ReadPeers DEF HandlePacket
  <1>2. /\ proc' \in [Game -> ProcState] /\ live' \in [Game -> SUBSET Entity]
        /\ inbox' \in [Conn -> Seq(Request)]
    BY <1>1, HandleTyped DEF HandlePacket
  <1>3. UNCHANGED <<dump, snap, cur>>
    BY DEF HandlePacket
  <1> QED BY <1>1, <1>2, <1>3, PeersGoOn DEF Peers

LEMMA InitPeers == CInit => Peers
  <1> SUFFICES ASSUME CInit PROVE Peers
    OBVIOUS
  <1>1. Inv
    BY InitInv DEF CInit
  <1>2. \A c \in Conn : inbox[c] \in Seq(Request)
    BY DEF CInit
  <1>3. inbox \in [Conn -> Seq(Request)]
    BY <1>2 DEF CInit
  <1> QED BY <1>1, <1>3 DEF CInit, Peers, ProcState

\* Every step of the cluster is one the dispatcher allows, or does not concern it.
LEMMA ClusterStep ==
  ASSUME Peers, [CNext]_cvars
  PROVE  Peers' /\ [Next]_vars
  <1>1. ASSUME NEW c \in Conn, Serve(c) \/ Disconnected(c) PROVE Peers' /\ [Next]_vars
    BY <1>1, ServePeers, TimePeers
  <1>2. ASSUME NEW g \in Game,
               \/ Connect(g) \/ TakeSnapshot(g) \/ Register(g)
               \/ Start(g) \/ Crash(g) \/ StartFreeze(g) \/ DoFreeze(g)
               \/ FreezeFails(g) \/ BreakConn(g) \/ GameTimeout(g) \/ HandlePacket(g)
        PROVE  Peers' /\ [Next]_vars
    BY <1>2, ConnectPeers, RegisterPeers, StartPeers, StopPeers, FreezePeers, TimePeers,
       HandlePeers
  <1>3. ASSUME NEW g \in Game, NEW e \in Entity,
               \/ CreateEntity(g, e) \/ CreateEntitySomewhere(g, e) \/ DestroyEntity(g, e)
               \/ LoadEntityAnywhere(g, e) \/ Loaded(g, e) \/ LoadFailed(g, e)
               \/ Call(g, e)
        PROVE  Peers' /\ [Next]_vars
    BY <1>3, EntityPeers
  <1>4. ASSUME NEW e \in Entity, EntityTimeout(e) PROVE Peers' /\ [Next]_vars
    BY <1>4, TimePeers
  <1>5. CASE UNCHANGED cvars
    <2>1. UNCHANGED <<vars, gameVars, inbox>>
      BY <1>5 DEF cvars
    <2> QED BY <2>1, PeersGoOn DEF gameVars, Peers
  <1> QED BY <1>1, <1>2, <1>3, <1>4, <1>5 DEF CNext

-----------------------------------------------------------------------------
(* What games count and remember                                            *)

\* The packets a dispatcher may hold if it has accepted the calls N.
Taken(N) == {p \in Packet : p.type = "call" => p.no \in N}

Budgets ==
  /\ budget \in [DOMAIN Limits -> Nat]
  /\ \A k \in DOMAIN Limits : budget[k] <= Limits[k]

Records ==
  /\ reg \in [Game -> RegState] /\ loading \in [Game -> [Entity -> Nat]]
  /\ online \in [Game -> SUBSET Game] /\ deployed \in [Game -> BOOLEAN]
  /\ used \subseteq Entity /\ misled \in BOOLEAN

\* A call that is under way to a game was accepted, and so was one that was
\* executed.
Calls ==
  /\ accepted \subseteq Nat /\ executed \subseteq accepted
  /\ From(Taken(accepted), Now)

ClusterInv == Peers /\ Budgets /\ Records /\ Calls

LEMMA SpendKeeps ==
  ASSUME Budgets, NEW k \in DOMAIN Limits, Spend(k)
  PROVE  Budgets'
  <1>1. budget[k] \in Nat /\ budget[k] > 0 /\ budget' = [budget EXCEPT ![k] = budget[k] - 1]
    BY DEF Spend, Budgets
  <1>2. budget' \in [DOMAIN Limits -> Nat]
    BY <1>1 DEF Budgets
  <1>3. ASSUME NEW j \in DOMAIN Limits PROVE budget'[j] <= Limits[j]
    <2>1. budget[j] \in Nat /\ budget[j] <= Limits[j] /\ Limits[j] \in Nat
      BY ClusterBoundAssumption DEF Budgets, Limits
    <2> QED BY <1>1, <2>1 DEF Budgets
  <1> QED BY <1>2, <1>3 DEF Budgets

LEMMA LimitKinds ==
  DOMAIN Limits = {"failure", "freeze", "failedFreeze", "load", "failedLoad", "create",
                   "destroy", "call"}
  BY DEF Limits

LEMMA BudgetStep ==
  ASSUME Budgets, [CNext]_cvars
  PROVE  Budgets'
  <1>1. CASE UNCHANGED budget
    BY <1>1 DEF Budgets
  <1>2. CASE \E k \in DOMAIN Limits : Spend(k)
    BY <1>2, SpendKeeps
  <1>3. ASSUME NEW c \in Conn, Serve(c) \/ Disconnected(c) PROVE UNCHANGED budget
    BY <1>3 DEF Serve, Disconnected
  <1>4. ASSUME NEW g \in Game,
               \/ Connect(g) \/ TakeSnapshot(g) \/ Register(g) \/ Start(g) \/ DoFreeze(g)
               \/ GameTimeout(g) \/ HandlePacket(g)
        PROVE  UNCHANGED budget
    BY <1>4 DEF Connect, TakeSnapshot, Register, Start, DoFreeze, GameTimeout, HandlePacket
  <1>5. ASSUME NEW g \in Game,
               Crash(g) \/ StartFreeze(g) \/ FreezeFails(g) \/ BreakConn(g)
        PROVE  \E k \in DOMAIN Limits : Spend(k)
    BY <1>5, LimitKinds DEF Crash, StartFreeze, Ask, FreezeFails, BreakConn
  <1>6. ASSUME NEW g \in Game, NEW e \in Entity,
               \/ CreateEntity(g, e) \/ CreateEntitySomewhere(g, e) \/ DestroyEntity(g, e)
               \/ LoadEntityAnywhere(g, e) \/ LoadFailed(g, e) \/ Call(g, e)
        PROVE  \E k \in DOMAIN Limits : Spend(k)
    BY <1>6, LimitKinds DEF CreateEntity, CreateEntitySomewhere, DestroyEntity,
       LoadEntityAnywhere, LoadFailed, Call, Ask
  <1>7. ASSUME NEW g \in Game, NEW e \in Entity, Loaded(g, e) PROVE UNCHANGED budget
    BY <1>7 DEF Loaded
  <1>8. ASSUME NEW e \in Entity, EntityTimeout(e) PROVE UNCHANGED budget
    BY <1>8 DEF EntityTimeout
  <1>9. CASE UNCHANGED cvars
    BY <1>1, <1>9 DEF cvars
  <1> QED BY <1>1, <1>2, <1>3, <1>4, <1>5, <1>6, <1>7, <1>8, <1>9 DEF CNext

LEMMA HandleRecords ==
  ASSUME Records, NEW g \in Game, NEW p \in Packet, Handle(g, p), UNCHANGED <<reg, used>>
  PROVE  Records'
  <1>1. CASE p.type = "setGameIDAck" /\ OnSetGameIDAck(g, p)
    <2>1. p.online \in SUBSET Game /\ p.ready \in BOOLEAN
      BY <1>1, PacketKinds
    <2>2. /\ online' = [online EXCEPT ![g] = p.online]
          /\ deployed' = [deployed EXCEPT ![g] = Learned(g, p)]
          /\ UNCHANGED <<loading, misled>>
      BY <1>1 DEF OnSetGameIDAck, history
    <2>3. Learned(g, p) \in BOOLEAN
      BY <2>1 DEF Learned, Records
    <2> QED BY <2>1, <2>2, <2>3 DEF Records
  <1>2. CASE \/ p.type = "ready" /\ OnNotifyDeploymentReady(g)
             \/ p.type = "create" /\ OnCreateEntitySomewhere(g, p.entity)
             \/ p.type = "call" /\ OnCall(g, p)
             \/ p.type = "freezeAck" /\ OnStartFreezeGameAck(g)
    <2>1. /\ UNCHANGED <<online, loading, misled>>
          /\ deployed' \in {deployed, [deployed EXCEPT ![g] = TRUE]}
      BY <1>2 DEF OnNotifyDeploymentReady, OnCreateEntitySomewhere, OnCall,
                  OnStartFreezeGameAck, history
    <2> QED BY <2>1 DEF Records
  <1>3. CASE p.type = "load" /\ OnLoadEntitySomewhere(g, p.entity)
    <2>1. PICK e \in Entity : e = p.entity
      BY <1>3, PacketKinds
    <2>2. /\ loading' = [loading EXCEPT ![g][e] = loading[g][e] + 1]
          /\ UNCHANGED <<online, deployed, misled>>
      BY <1>3, <2>1 DEF OnLoadEntitySomewhere, history
    <2> QED BY <2>2 DEF Records
  <1>4. CASE \/ p.type = "gameUp" /\ OnGameConnected(g, p.game)
             \/ p.type = "gameDown" /\ OnGameDisconnected(g, p.games)
    <2>1. UNCHANGED <<loading, deployed, misled>>
      BY <1>4 DEF OnGameConnected, OnGameDisconnected, history
    <2>2. \/ online' = [online EXCEPT ![g] = @ \cup {p.game}] /\ p.game \in Game
          \/ online' = [online EXCEPT ![g] = @ \ p.games]
      BY <1>4, PacketKinds DEF OnGameConnected, OnGameDisconnected
    <2>3. online' \in [Game -> SUBSET Game]
      BY <2>2 DEF Records
    <2> QED BY <2>1, <2>3 DEF Records
  <1> QED BY <1>1, <1>2, <1>3, <1>4 DEF Handle

LEMMA RecordsStep ==
  ASSUME Peers, Records, [CNext]_cvars
  PROVE  Records'
  <1>1. ASSUME NEW c \in Conn, Serve(c) PROVE Records'
    <2>1. UNCHANGED <<reg, loading, online, deployed, used>>
      BY <1>1 DEF Serve, gameVars
    <2>2. misled' \in BOOLEAN
      BY <1>1 DEF Serve
    <2> QED BY <2>1, <2>2 DEF Records
  <1>3. ASSUME NEW g \in Game, Connect(g) \/ TakeSnapshot(g) \/ Register(g) PROVE Records'
    <2>1. UNCHANGED <<loading, online, deployed, used, misled>>
      BY <1>3 DEF Connect, TakeSnapshot, Register, history
    <2>2. \E r \in RegState : reg' = [reg EXCEPT ![g] = r]
      BY <1>3 DEF Connect, TakeSnapshot, Register, RegState
    <2> QED BY <2>1, <2>2 DEF Records
  <1>4. ASSUME NEW g \in Game, Start(g) PROVE Records'
    <2>1. /\ online' = [online EXCEPT ![g] = {}] /\ deployed' = [deployed EXCEPT ![g] = FALSE]
          /\ UNCHANGED <<reg, loading, used, misled>>
      BY <1>4 DEF Start, history
    <2> QED BY <2>1 DEF Records
  <1>5. ASSUME NEW g \in Game, NEW state, NEW file, Exit(g, state, file) PROVE Records'
    <2>1. /\ reg' = [reg EXCEPT ![g] = "off"]
          /\ loading' = [loading EXCEPT ![g] = [e \in Entity |-> 0]]
          /\ UNCHANGED <<online, deployed, used, misled>>
      BY <1>5 DEF Exit, history
    <2> QED BY <2>1 DEF Records, RegState
  <1>6. ASSUME NEW g \in Game, FreezeFails(g) \/ StartFreeze(g) \/ BreakConn(g)
        PROVE  Records'
    <2>1. UNCHANGED <<reg, loading, online, deployed, used>> /\ misled' \in {misled, TRUE}
      BY <1>6 DEF FreezeFails, StartFreeze, Ask, BreakConn, gameVars, history
    <2> QED BY <2>1 DEF Records
  <1>7. ASSUME NEW g \in Game, NEW e \in Entity,
               \/ CreateEntity(g, e) \/ CreateEntitySomewhere(g, e) \/ DestroyEntity(g, e)
               \/ LoadEntityAnywhere(g, e) \/ Call(g, e)
        PROVE  Records'
    <2>1. /\ UNCHANGED <<reg, loading, online, deployed, misled>>
          /\ used' \in {used, used \cup {e}}
      BY <1>7 DEF CreateEntity, CreateEntitySomewhere, DestroyEntity, LoadEntityAnywhere,
                  Call, Ask, gameVars, history
    <2> QED BY <2>1 DEF Records
  <1>8. ASSUME NEW g \in Game, NEW e \in Entity, Loaded(g, e) \/ LoadFailed(g, e)
        PROVE  Records'
    <2>1. /\ UNCHANGED <<reg, online, deployed, used, misled>>
          /\ loading' = [loading EXCEPT ![g][e] = loading[g][e] - 1] /\ loading[g][e] > 0
      BY <1>8 DEF Loaded, LoadFailed, Due, history
    <2>2. loading[g][e] - 1 \in Nat
      BY <2>1 DEF Records
    <2> QED BY <2>1, <2>2 DEF Records
  <1>9. ASSUME NEW g \in Game, HandlePacket(g) PROVE Records'
    <2>1. Head(wire[cur[g]]) \in Packet
      BY <1>9, ReadPeers DEF HandlePacket
    <2> QED BY <1>9, <2>1, HandleRecords DEF HandlePacket
  <1>10. CASE UNCHANGED cvars
    BY <1>10 DEF cvars, gameVars, history, Records
  <1>11. ASSUME NEW g \in Game, Crash(g) \/ DoFreeze(g) PROVE Records'
    BY <1>5, <1>11 DEF Crash, DoFreeze
  <1>12. ASSUME NEW c \in Conn, Disconnected(c) PROVE Records'
    BY <1>12 DEF Disconnected, gameVars, history, Records
  <1>13. ASSUME NEW e \in Entity, EntityTimeout(e) PROVE Records'
    BY <1>13 DEF EntityTimeout, gameVars, history, Records
  <1>14. ASSUME NEW g \in Game, GameTimeout(g) PROVE Records'
    BY <1>14 DEF GameTimeout, gameVars, history, Records
  <1> QED BY <1>1, <1>3, <1>4, <1>6, <1>7, <1>8, <1>9, <1>10, <1>11, <1>12, <1>13, <1>14
          DEF CNext

\* More calls accepted, more packets taken.
LEMMA TakenGrows ==
  ASSUME NEW M, NEW N, M \subseteq N, NEW s, From(Taken(M), s)
  PROVE  From(Taken(N), s)
  <1>1. Taken(M) \subseteq Taken(N)
    BY DEF Taken
  <1>2. ASSUME NEW q \in Seq(Taken(M)) PROVE q \in Seq(Taken(N))
    <2> DEFINE A == Taken(M)
               B == Taken(N)
    <2>1. A \subseteq B /\ q \in Seq(A)
      BY <1>1
    <2> HIDE DEF A, B
    <2>2. q \in Seq(B)
      BY <2>1
    <2> QED BY <2>2 DEF B
  <1> QED BY <1>2 DEF From

LEMMA TakenRoutine ==
  ASSUME NEW N
  PROVE  Routine(Taken(N))
  BY DEF Routine, Taken

\* Nothing but a call the dispatcher takes adds a call to a queue.
LEMMA CallsCarried ==
  ASSUME Calls, Carries, accepted' = accepted, executed' \subseteq accepted
  PROVE  Calls'
  <1> DEFINE T == Taken(accepted)
  <1>1. From(T, Now) /\ Routine(T)
    BY TakenRoutine DEF Calls
  <1> HIDE DEF T
  <1>2. From(T, Now')
    BY <1>1 DEF Carries
  <1>3. T = Taken(accepted')
    BY DEF T
  <1>4. From(Taken(accepted'), Now')
    BY <1>2, <1>3
  <1>5. From(Taken(accepted), Now)'
    BY <1>4 DEF From, Taken
  <1> QED BY <1>5 DEF Calls

LEMMA ServeCalls ==
  ASSUME Peers, Calls, NEW c \in Conn, Serve(c)
  PROVE  Calls'
  <1> DEFINE m == Head(inbox[c])
  <1>1. m \in Request
    <2>1. inbox[c] \in Seq(Request) /\ inbox[c] # <<>>
      BY DEF Serve, Peers
    <2> QED BY <2>1
  <1>2. executed' = executed
    BY DEF Serve
  <1>3. CASE m.type # "call"
    <2>1. Carries /\ accepted' = accepted
      BY <1>3, ServeMessage DEF Serve
    <2> QED BY <1>2, <2>1, CallsCarried DEF Calls
  <1>4. CASE m.type = "call"
    <2>1. PICK e \in Entity : e = m.entity
      <3> HIDE DEF m
      <3> QED BY <1>1, <1>4, RequestKinds
    <2>2. HandleCallEntityMethod(c, e)
      BY <1>4, <2>1 DEF Serve
    <2>3. accepted' = IF edi[e].known THEN accepted \cup {msgs'} ELSE accepted
      BY <1>4, <2>1 DEF Serve
    <2>4. msgs' \in Nat
      BY <2>2, HandlingMsgs DEF HandleCallEntityMethod, Peers
    <2>5. accepted \subseteq accepted' /\ accepted' \subseteq Nat
      BY <2>3, <2>4 DEF Calls
    <2>6. PICK N : N = accepted'
      OBVIOUS
    <2> DEFINE T == Taken(N)
               p == [type |-> "call", entity |-> e, no |-> msgs']
    <2>7. From(T, Now) /\ Routine(T)
      BY <2>5, <2>6, TakenGrows, TakenRoutine DEF Calls
    <2>8. edi[e].known => p \in T
      BY <2>3, <2>4, <2>6 DEF Taken, Packet
    <2> HIDE DEF T, p
    <2>9. Inv
      BY DEF Peers
    <2>10. \A S : (Routine(S) /\ From(S, Now) /\ (edi[e].known => p \in S))
                  => From(S, Now')
      BY <2>2, <2>9, CallKeeps DEF p
    <2>11. From(T, Now')
      BY <2>7, <2>8, <2>10
    <2>12. From(Taken(accepted), Now)'
      BY <2>6, <2>11 DEF T, From, Taken
    <2> QED BY <1>2, <2>5, <2>12 DEF Calls
  <1> QED BY <1>3, <1>4

LEMMA HandleCalls ==
  ASSUME Peers, Calls, NEW g \in Game, HandlePacket(g)
  PROVE  Calls'
  <1>1. Carries
    BY HandlePeers
  <1>2. PICK c \in Conn : c = cur[g]
    BY DEF HandlePacket, Peers
  <1> DEFINE p == Head(wire[c])
             T == Taken(accepted)
  <1>3. p \in T
    <2>1. wire[c] \in Seq(T) /\ wire[c] # <<>>
      BY <1>2 DEF Calls, From, Now, HandlePacket, Read
    <2> HIDE DEF T
    <2> QED BY <2>1
  <1>4. accepted' = accepted
    BY DEF HandlePacket, Handle, OnSetGameIDAck, OnNotifyDeploymentReady,
           OnCreateEntitySomewhere, OnLoadEntitySomewhere, OnCall, OnGameConnected,
           OnGameDisconnected, OnStartFreezeGameAck, history
  <1>5. executed' = executed \/ (p.type = "call" /\ executed' = executed \cup {p.no})
    BY <1>2 DEF HandlePacket, Handle, OnSetGameIDAck, OnNotifyDeploymentReady,
           OnCreateEntitySomewhere, OnLoadEntitySomewhere, OnCall, OnGameConnected,
           OnGameDisconnected, OnStartFreezeGameAck, history
  <1>6. executed' \subseteq accepted
    <2>1. p.type = "call" => p.no \in accepted
      BY <1>3 DEF Taken
    <2> QED BY <1>5, <2>1 DEF Calls
  <1> QED BY <1>1, <1>4, <1>6, CallsCarried

LEMMA CallsStep ==
  ASSUME Peers, Calls, [CNext]_cvars
  PROVE  Calls'
  <1>1. ASSUME Carries, UNCHANGED <<accepted, executed>> PROVE Calls'
    BY <1>1, CallsCarried DEF Calls
  <1>2. ASSUME NEW c \in Conn, Disconnected(c) PROVE Calls'
    BY <1>1, <1>2, TimePeers DEF Disconnected, history
  <1>3. ASSUME NEW g \in Game, Connect(g) PROVE Calls'
    BY <1>1, <1>3, ConnectPeers DEF Connect, history
  <1>4. ASSUME NEW g \in Game, TakeSnapshot(g) \/ Register(g) PROVE Calls'
    BY <1>1, <1>4, RegisterPeers, StutterCarries DEF TakeSnapshot, Register, history
  <1>5. ASSUME NEW g \in Game, Start(g) PROVE Calls'
    BY <1>1, <1>5, StartPeers, StutterCarries DEF Start, history
  <1>6. ASSUME NEW g \in Game, Crash(g) \/ DoFreeze(g) \/ BreakConn(g) PROVE Calls'
    BY <1>1, <1>6, StopPeers DEF Crash, DoFreeze, Exit, BreakConn, history
  <1>7. ASSUME NEW g \in Game, StartFreeze(g) \/ FreezeFails(g) PROVE Calls'
    BY <1>1, <1>7, FreezePeers DEF StartFreeze, Ask, FreezeFails, history
  <1>8. ASSUME NEW g \in Game, GameTimeout(g) PROVE Calls'
    BY <1>1, <1>8, TimePeers DEF GameTimeout, history
  <1>9. ASSUME NEW e \in Entity, EntityTimeout(e) PROVE Calls'
    BY <1>1, <1>9, TimePeers DEF EntityTimeout, history
  <1>10. ASSUME NEW g \in Game, NEW e \in Entity,
                \/ CreateEntity(g, e) \/ CreateEntitySomewhere(g, e) \/ DestroyEntity(g, e)
                \/ LoadEntityAnywhere(g, e) \/ Loaded(g, e) \/ LoadFailed(g, e)
                \/ Call(g, e)
         PROVE  Calls'
    <2>1. Carries
      BY <1>10, EntityPeers
    <2>2. UNCHANGED <<accepted, executed>>
      BY <1>10 DEF CreateEntity, CreateEntitySomewhere, DestroyEntity, LoadEntityAnywhere,
         Loaded, LoadFailed, Call, Ask, history
    <2> QED BY <1>1, <2>1, <2>2
  <1>11. CASE UNCHANGED cvars
    BY <1>1, <1>11, StutterCarries DEF cvars, history
  <1> QED BY <1>2, <1>3, <1>4, <1>5, <1>6, <1>7, <1>8, <1>9, <1>10, <1>11, ServeCalls,
             HandleCalls DEF CNext

LEMMA ClusterInit == CInit => ClusterInv
  <1> SUFFICES ASSUME CInit PROVE ClusterInv
    OBVIOUS
  <1>1. Budgets
    <2>1. \A k \in DOMAIN Limits : Limits[k] \in Nat
      BY ClusterBoundAssumption DEF Limits
    <2>2. Limits \in [DOMAIN Limits -> Nat]
      BY <2>1 DEF Limits
    <2> QED BY <2>1, <2>2 DEF CInit, Budgets
  <1>2. Records
    BY ClusterBoundAssumption DEF CInit, Records, RegState
  <1>3. Calls
    <2> DEFINE T == Taken(accepted)
    <2>1. <<>> \in Seq(T)
      OBVIOUS
    <2>2. From(T, Now)
      <3> HIDE DEF T
      <3> QED BY <2>1 DEF CInit, Init, From, Now, NoEntityInfo, NoGameInfo
    <2> QED BY <2>2 DEF CInit, Calls
  <1> QED BY <1>1, <1>2, <1>3, InitPeers DEF ClusterInv

LEMMA ClusterTypes == ClusterInv => CTypeOK
  <1> SUFFICES ASSUME ClusterInv PROVE CTypeOK
    OBVIOUS
  <1>1. TypeOK
    BY NowTyped DEF ClusterInv, Peers, Inv, TypeOK
  <1>2. \A k \in DOMAIN budget : budget[k] \in 0..Limits[k]
    <2> TAKE k \in DOMAIN budget
    <2>1. k \in DOMAIN Limits /\ budget[k] \in Nat /\ budget[k] <= Limits[k]
      BY DEF ClusterInv, Budgets
    <2>2. Limits[k] \in Nat
      BY <2>1, ClusterBoundAssumption DEF Limits
    <2> QED BY <2>1, <2>2
  <1> QED BY <1>1, <1>2 DEF ClusterInv, Peers, Records, Calls, CTypeOK

-----------------------------------------------------------------------------
(* Spaces and their members                                                 *)

\* What an entity asks of a space.
MoveRequest == [space : Space \cup {None}, entering : BOOLEAN, sent : BOOLEAN]

\* Only entities that are no spaces ask for one, or are on the way to one.
Asked ==
  /\ request \in [Game -> [Entity -> MoveRequest]]
  /\ \A g \in Game : \A e \in Entity : request[g][e].entering =>
       e \in Mobile /\ request[g][e].space \in Space

Requests ==
  /\ Asked
  /\ posted \in [Game -> {None} \cup Mobile \X Space]
  /\ flying \in [Entity -> Space \cup {None}]
  /\ \A e \in Entity : flying[e] # None => e \in Mobile

\* MembersAgree, whether or not the game runs.  It is inductive because an entity
\* that is not on the game is in no space there, and one that is, in none that is
\* not on the game: a space that comes, or an entity that comes back, finds no
\* trace of an earlier stay.  Only the freeze file keeps the space of an entity.
Housed(g) ==
  /\ \A e \in Entity : spaceOf[g][e] # None =>
       /\ e \in Mobile
       /\ proc[g] # "frozen" => e \in live[g] /\ spaceOf[g][e] \in live[g]
  /\ \A s \in Space :
       members[g][s] = {e \in live[g] : s \in live[g] /\ spaceOf[g][e] = s}

Housing ==
  /\ spaceOf \in [Game -> [Entity -> Space \cup {None}]]
  /\ members \in [Game -> [Space -> SUBSET Entity]]
  /\ \A g \in Game : Housed(g)

MigrationInv == Peers /\ Requests /\ Housing

\* What is known of one game's entities; it follows from Housed, for the game as
\* it is after a step.
LEMMA HousedElsewhere ==
  ASSUME Housing, NEW g \in Game,
         UNCHANGED <<spaceOf[g], members[g], live[g]>>,
         proc[g] # "frozen" \/ proc'[g] = "frozen"
  PROVE  Housed(g)'
  BY DEF Housing, Housed

LEMMA OnlyGame ==
  ASSUME Housing, NEW g \in Game,
         \A h \in Game \ {g} : /\ UNCHANGED <<spaceOf[h], members[h], live[h]>>
                               /\ proc[h] # "frozen" \/ proc'[h] = "frozen",
         spaceOf' \in [Game -> [Entity -> Space \cup {None}]],
         members' \in [Game -> [Space -> SUBSET Entity]],
         Housed(g)'
  PROVE  Housing'
  <1>1. ASSUME NEW h \in Game, h # g PROVE Housed(h)'
    BY <1>1, HousedElsewhere
  <1> QED BY <1>1 DEF Housing

\* Nobody moves; entities may come.
LEMMA StayHoused ==
  ASSUME Housing, UNCHANGED <<spaceOf, members>>, live' \in [Game -> SUBSET Entity],
         \A g \in Game : proc[g] # "frozen" \/ proc'[g] = "frozen",
         \A g \in Game : live'[g] = live[g] \/ (proc[g] # "frozen" /\ live[g] \subseteq live'[g])
  PROVE  Housing'
  <1>1. ASSUME NEW g \in Game PROVE Housed(g)'
    <2>1. CASE live'[g] = live[g]
      BY <2>1, HousedElsewhere
    <2>2. CASE proc[g] # "frozen" /\ live[g] \subseteq live'[g]
      <3>1. Housed(g)
        BY DEF Housing
      <3>2. ASSUME NEW s \in Space
            PROVE  members'[g][s] = {e \in live'[g] : s \in live'[g] /\ spaceOf'[g][e] = s}
        <4>1. s \in Entity /\ s # None
          BY MigrationAssumption, NoneAssumption
        <4>2. members[g][s] = {e \in live[g] : s \in live[g] /\ spaceOf[g][e] = s}
          BY <3>1 DEF Housed
        <4>3. \A e \in Entity : spaceOf[g][e] = s => e \in live[g] /\ s \in live[g]
          BY <2>2, <3>1, <4>1 DEF Housed
        <4>4. live[g] \subseteq live'[g] /\ live'[g] \subseteq Entity
          BY <2>2
        <4>5. {e \in live[g] : s \in live[g] /\ spaceOf[g][e] = s}
              = {e \in live'[g] : s \in live'[g] /\ spaceOf[g][e] = s}
          BY <4>3, <4>4
        <4> QED BY <4>2, <4>5
      <3> QED BY <2>2, <3>1, <3>2 DEF Housed
    <2> QED BY <2>1, <2>2
  <1> QED BY <1>1 DEF Housing

\* Entities leave, with what the spaces among them hold; others may come.
LEMMA LeaveHoused ==
  ASSUME Peers, Housing, NEW g \in Game, NEW S \in SUBSET Entity, Leave(g, S),
         proc[g] # "frozen",
         \A s \in S \cap Space : members[g][s] \subseteq S,
         live' \in [Game -> SUBSET Entity],
         live'[g] \cap S = {}, live[g] \ S \subseteq live'[g],
         \A h \in Game \ {g} : live'[h] = live[h] /\ (proc[h] # "frozen" \/ proc'[h] = "frozen")
  PROVE  Housing'
  <1>1. /\ spaceOf' = [spaceOf EXCEPT ![g] = [e \in Entity |-> IF e \in S THEN None ELSE @[e]]]
        /\ members' = [members EXCEPT ![g] = [s \in Space |-> IF s \in S THEN {} ELSE @[s] \ S]]
    BY DEF Leave
  <1>2. /\ spaceOf' \in [Game -> [Entity -> Space \cup {None}]]
        /\ members' \in [Game -> [Space -> SUBSET Entity]]
    BY <1>1 DEF Housing
  <1>3. \A h \in Game \ {g} : spaceOf'[h] = spaceOf[h] /\ members'[h] = members[h]
    BY <1>1 DEF Housing
  <1>4. /\ \A e \in Entity : spaceOf'[g][e] = IF e \in S THEN None ELSE spaceOf[g][e]
        /\ \A s \in Space : members'[g][s] = IF s \in S THEN {} ELSE members[g][s] \ S
    BY <1>1 DEF Housing
  <1>5. Housed(g)
    BY DEF Housing
  <1>6. ASSUME NEW e \in Entity, spaceOf'[g][e] # None
        PROVE  e \in Mobile /\ e \in live'[g] /\ spaceOf'[g][e] \in live'[g]
    <2>1. /\ e \notin S /\ spaceOf'[g][e] = spaceOf[g][e] /\ e \in Mobile
          /\ e \in live[g] /\ spaceOf[g][e] \in live[g]
      BY <1>4, <1>5, <1>6 DEF Housed
    <2>2. spaceOf[g][e] \in Space
      BY <2>1, <1>6 DEF Housing
    <2>3. e \in members[g][spaceOf[g][e]]
      BY <1>5, <2>1, <2>2 DEF Housed
    <2>4. spaceOf[g][e] \notin S
      BY <2>1, <2>2, <2>3
    <2> QED BY <2>1, <2>4
  <1>7. ASSUME NEW s \in Space
        PROVE  members'[g][s] = {e \in live'[g] : s \in live'[g] /\ spaceOf'[g][e] = s}
    <2>1. s \in Entity /\ s # None /\ live[g] \subseteq Entity /\ live'[g] \subseteq Entity
      BY MigrationAssumption, NoneAssumption DEF Peers
    <2>2. CASE s \in S
      BY <1>4, <2>1, <2>2
    <2>3. CASE s \notin S
      <3>1. members[g][s] = {e \in live[g] : s \in live[g] /\ spaceOf[g][e] = s}
        BY <1>5 DEF Housed
      <3>2. members'[g][s] = members[g][s] \ S
        BY <1>4, <2>3
      <3>3. ASSUME NEW e \in members'[g][s]
            PROVE  e \in live'[g] /\ s \in live'[g] /\ spaceOf'[g][e] = s
        BY <1>4, <2>1, <2>3, <3>1, <3>2
      <3>4. ASSUME NEW e \in live'[g], s \in live'[g], spaceOf'[g][e] = s
            PROVE  e \in members'[g][s]
        BY <1>4, <1>5, <2>1, <3>1, <3>2, <3>4 DEF Housed
      <3> QED BY <1>2, <3>3, <3>4
    <2> QED BY <2>2, <2>3
  <1>8. Housed(g)'
    BY <1>6, <1>7 DEF Housed
  <1> QED BY <1>2, <1>3, <1>8, OnlyGame

\* An entity enters a space.
LEMMA EnterHoused ==
  ASSUME Peers, Housing, NEW g \in Game, NEW e \in Mobile, NEW s \in Space, Enter(g, e, s),
         proc[g] # "frozen", proc' = proc,
         live' \in [Game -> SUBSET Entity],
         live'[g] = live[g] \cup {e}, s \in live[g],
         \A h \in Game \ {g} : live'[h] = live[h]
  PROVE  Housing'
  <1>1. /\ spaceOf' = [spaceOf EXCEPT ![g][e] = s]
        /\ members' = [members EXCEPT ![g] =
             [t \in Space |-> IF t = s THEN @[t] \cup {e} ELSE @[t] \ {e}]]
    BY DEF Enter
  <1>9. e \in Entity /\ s \in Entity /\ s # None /\ e \notin Space
    BY MigrationAssumption, NoneAssumption DEF Mobile
  <1>2. /\ spaceOf' \in [Game -> [Entity -> Space \cup {None}]]
        /\ members' \in [Game -> [Space -> SUBSET Entity]]
    BY <1>1, <1>9 DEF Housing
  <1>3. \A h \in Game \ {g} : spaceOf'[h] = spaceOf[h] /\ members'[h] = members[h]
    BY <1>1 DEF Housing
  <1>4. /\ \A f \in Entity : spaceOf'[g][f] = IF f = e THEN s ELSE spaceOf[g][f]
        /\ \A t \in Space : members'[g][t] = IF t = s THEN members[g][t] \cup {e}
                                             ELSE members[g][t] \ {e}
    BY <1>1, <1>9 DEF Housing
  <1>5. Housed(g)
    BY DEF Housing
  <1>6. ASSUME NEW f \in Entity, spaceOf'[g][f] # None
        PROVE  f \in Mobile /\ f \in live'[g] /\ spaceOf'[g][f] \in live'[g]
    BY <1>4, <1>5, <1>6 DEF Housed
  <1>7. ASSUME NEW t \in Space
        PROVE  members'[g][t] = {f \in live'[g] : t \in live'[g] /\ spaceOf'[g][f] = t}
    <2>1. t # e /\ t # None /\ live[g] \subseteq Entity
      BY <1>9, MigrationAssumption, NoneAssumption DEF Peers
    <2>2. members[g][t] = {f \in live[g] : t \in live[g] /\ spaceOf[g][f] = t}
      BY <1>5 DEF Housed
    <2>3. CASE t = s
      BY <1>4, <1>9, <2>1, <2>2, <2>3
    <2>4. CASE t # s
      <3>1. members'[g][t] = members[g][t] \ {e}
        BY <1>4, <2>4
      <3>2. spaceOf'[g][e] # t /\ \A f \in Entity \ {e} : spaceOf'[g][f] = spaceOf[g][f]
        BY <1>4, <1>9, <2>4
      <3>3. t \in live'[g] <=> t \in live[g]
        BY <2>1
      <3> QED BY <2>1, <2>2, <3>1, <3>2, <3>3
    <2> QED BY <2>3, <2>4
  <1>8. Housed(g)'
    BY <1>6, <1>7 DEF Housed
  <1> QED BY <1>2, <1>3, <1>8, OnlyGame

LEMMA OneAsked ==
  ASSUME Asked, NEW g \in Game, NEW e \in Entity, NEW x \in MoveRequest,
         x.entering => e \in Mobile /\ x.space \in Space,
         request' = [request EXCEPT ![g][e] = x]
  PROVE  Asked'
  <1>1. request' \in [Game -> [Entity -> MoveRequest]]
    BY DEF Asked
  <1>2. \A h \in Game : \A f \in Entity :
          request'[h][f] = IF h = g /\ f = e THEN x ELSE request[h][f]
    BY DEF Asked
  <1> QED BY <1>1, <1>2 DEF Asked

LEMMA NothingAsked ==
  /\ NoRequest \in MoveRequest
  /\ NoRequest.entering = FALSE
  BY DEF NoRequest, MoveRequest

LEMMA LeaveAsked ==
  ASSUME Asked, NEW g \in Game, NEW S, Leave(g, S)
  PROVE  Asked'
  <1>1. request' = [request EXCEPT ![g] =
                      [e \in Entity |-> IF e \in S THEN NoRequest ELSE @[e]]]
    BY DEF Leave
  <1>2. request' \in [Game -> [Entity -> MoveRequest]]
    BY <1>1, NothingAsked DEF Asked
  <1>3. \A h \in Game : \A f \in Entity :
          request'[h][f] = IF h = g /\ f \in S THEN NoRequest ELSE request[h][f]
    BY <1>1 DEF Asked
  <1> QED BY <1>2, <1>3, NothingAsked DEF Asked

LEMMA NoSpacesAsked ==
  ASSUME Requests, NEW g \in Game, NoSpaces(g), UNCHANGED flying
  PROVE  Requests'
  <1>1. /\ request' = [request EXCEPT ![g] = [e \in Entity |-> NoRequest]]
        /\ posted' = [posted EXCEPT ![g] = None]
    BY DEF NoSpaces
  <1>2. request' \in [Game -> [Entity -> MoveRequest]]
    BY <1>1, NothingAsked DEF Requests, Asked
  <1>3. \A h \in Game : \A f \in Entity :
          request'[h][f] = IF h = g THEN NoRequest ELSE request[h][f]
    BY <1>1 DEF Requests, Asked
  <1>4. Asked'
    BY <1>2, <1>3, NothingAsked DEF Requests, Asked
  <1>5. \A h \in Game : posted'[h] # None => posted'[h] = posted[h]
    BY <1>1 DEF Requests
  <1>6. posted' \in [Game -> {None} \cup Mobile \X Space]
    BY <1>1 DEF Requests
  <1> QED BY <1>4, <1>6 DEF Requests

\* What the dispatcher does, and a game that connects, moves nobody.
LEMMA UnmovedKeeps ==
  ASSUME MigrationInv, Unmoved
  PROVE  MigrationInv'
  <1>1. UNCHANGED <<spaceOf, members, request, posted, flying>>
    BY DEF Unmoved, moveVars
  <1>2. ASSUME Peers', live' = live, \A g \in Game : proc[g] # "frozen" \/ proc'[g] = "frozen"
        PROVE  MigrationInv'
    <2>1. Housing'
      BY <1>1, <1>2, StayHoused DEF MigrationInv, Peers
    <2>2. Requests'
      BY <1>1 DEF MigrationInv, Requests, Asked
    <2> QED BY <1>2, <2>1, <2>2 DEF MigrationInv
  <1>3. ASSUME NEW c \in Conn, Serve(c) \/ Disconnected(c) PROVE MigrationInv'
    <2>1. Peers' /\ UNCHANGED <<proc, live>>
      BY <1>3, ServePeers, TimePeers DEF MigrationInv, Serve, Disconnected, gameVars
    <2> QED BY <1>2, <2>1
  <1>4. ASSUME NEW g \in Game,
               Connect(g) \/ TakeSnapshot(g) \/ Register(g) \/ BreakConn(g) \/ StartFreeze(g)
        PROVE  MigrationInv'
    <2>1. Peers'
      BY <1>4, ConnectPeers, RegisterPeers, StopPeers, FreezePeers DEF MigrationInv
    <2>2. live' = live
      BY <1>4 DEF Connect, TakeSnapshot, Register, BreakConn, StartFreeze, Ask, gameVars
    <2>3. proc' \in {proc, [proc EXCEPT ![g] = IF @ = "starting" THEN "running" ELSE @]}
      BY <1>4 DEF Connect, TakeSnapshot, Register, BreakConn, StartFreeze, Ask, gameVars
    <2>4. \A h \in Game : proc[h] # "frozen" \/ proc'[h] = "frozen"
      BY <2>3 DEF MigrationInv, Peers
    <2> QED BY <1>2, <2>1, <2>2, <2>4
  <1>5. ASSUME NEW g \in Game, NEW e \in Mobile, Call(g, e) PROVE MigrationInv'
    <2>1. e \in Entity
      BY DEF Mobile
    <2>2. Peers' /\ UNCHANGED <<proc, live>>
      BY <1>5, <2>1, EntityPeers DEF MigrationInv, Call, Ask, gameVars
    <2> QED BY <1>2, <2>2
  <1> QED BY <1>3, <1>4, <1>5 DEF Unmoved

\* A space and its members are destroyed together: nobody is left in it.
LEMMA MembersClosed ==
  ASSUME Housing, NEW g \in Game, NEW S \in SUBSET Entity
  PROVE  /\ WithMembers(g, S) \in SUBSET Entity
         /\ \A s \in WithMembers(g, S) \cap Space : members[g][s] \subseteq WithMembers(g, S)
  <1>1. \A s \in Space : \A e \in members[g][s] : e \in Entity /\ e \notin Space
    <2> TAKE s \in Space
    <2> TAKE e \in members[g][s]
    <2>1. s \in Entity /\ s # None
      BY MigrationAssumption, NoneAssumption
    <2>2. e \in Entity /\ spaceOf[g][e] = s
      BY DEF Housing, Housed
    <2> QED BY <2>1, <2>2 DEF Housing, Housed, Mobile
  <1> QED BY <1>1 DEF WithMembers

LEMMA DestroyKeeps ==
  ASSUME MigrationInv, NEW g \in Game, NEW e \in Entity, Destroy(g, e)
  PROVE  MigrationInv'
  <1>1. PICK S : S = WithMembers(g, {e})
    OBVIOUS
  <1>2. /\ Running(g) /\ live' = [live EXCEPT ![g] = @ \ S] /\ Leave(g, S)
        /\ Tell(g, DestroyNotices(S \ {e}) \o <<[type |-> "destroy", entity |-> e]>>)
        /\ UNCHANGED <<vars, proc, dump, cur, snap, posted, flying>>
    BY <1>1 DEF Destroy
  <1>3. S \in SUBSET Entity /\ \A s \in S \cap Space : members[g][s] \subseteq S
    BY <1>1, MembersClosed DEF MigrationInv
  <1>4. live' \in [Game -> SUBSET Entity] /\ proc' \in [Game -> ProcState]
    BY <1>2 DEF MigrationInv, Peers
  <1>5. Peers'
    <2>1. /\ DestroyNotices(S \ {e}) \in Seq(Request)
          /\ <<[type |-> "destroy", entity |-> e]>> \in Seq(Request)
      BY <1>3, NoticesTyped, OneRequest
    <2>4. PICK a \in Seq(Request), b \in Seq(Request) :
                 a = DestroyNotices(S \ {e}) /\ b = <<[type |-> "destroy", entity |-> e]>>
      BY <2>1
    <2>5. a \o b \in Seq(Request)
      OBVIOUS
    <2>2. PICK ms \in Seq(Request) :
                 ms = DestroyNotices(S \ {e}) \o <<[type |-> "destroy", entity |-> e]>>
      BY <2>4, <2>5
    <2>3. inbox' = Told(g, ms)
      BY <1>2, <2>2 DEF Tell
    <2> QED BY <1>2, <1>4, <2>3, AlonePeers DEF MigrationInv
  <1>6. Housing'
    <2>1. proc[g] # "frozen" /\ proc' = proc
      BY <1>2 DEF Running
    <2>2. /\ live'[g] \cap S = {} /\ live[g] \ S \subseteq live'[g]
          /\ \A h \in Game \ {g} : live'[h] = live[h]
      BY <1>2 DEF MigrationInv, Peers
    <2> QED BY <1>2, <1>3, <1>4, <2>1, <2>2, LeaveHoused DEF MigrationInv
  <1>7. Requests'
    BY <1>2, LeaveAsked DEF MigrationInv, Requests
  <1> QED BY <1>5, <1>6, <1>7 DEF MigrationInv

LEMMA EnterSpaceKeeps ==
  ASSUME MigrationInv, NEW g \in Game, NEW e \in Entity, NEW s \in Space, EnterSpace(g, e, s)
  PROVE  MigrationInv'
  <1>1. /\ e \in Mobile /\ Requested(g, e, s)
        /\ UNCHANGED <<vars, gameVars, spaceOf, members, flying>>
        /\ \/ posted' = [posted EXCEPT ![g] = <<e, s>>] /\ UNCHANGED inbox
           \/ UNCHANGED posted /\ Tell(g, <<[type |-> "query", entity |-> e, space |-> s]>>)
    BY DEF EnterSpace
  <1>2. UNCHANGED <<proc, live, dump, snap, cur>>
    BY <1>1 DEF gameVars
  <1>3. Peers'
    <2>1. s \in Entity
      BY MigrationAssumption
    <2>2. [type |-> "query", entity |-> e, space |-> s] \in Request
      BY <2>1 DEF Request
    <2>6. <<[type |-> "query", entity |-> e, space |-> s]>> \in Seq(Request)
      BY <2>2
    <2>3. PICK ms \in Seq(Request) : ms = <<[type |-> "query", entity |-> e, space |-> s]>>
      BY <2>6
    <2>4. inbox' \in {inbox, Told(g, ms)}
      BY <1>1, <2>3 DEF Tell
    <2>5. live' \in [Game -> SUBSET Entity] /\ proc' \in [Game -> ProcState]
      BY <1>2 DEF MigrationInv, Peers
    <2> QED BY <1>1, <1>2, <2>4, <2>5, AlonePeers DEF MigrationInv
  <1>4. Housing'
    BY <1>1, <1>2, StayHoused DEF MigrationInv, Peers
  <1>5. Asked'
    <2> DEFINE x == [request[g][e] EXCEPT !.space = s, !.entering = TRUE]
    <2>1. request[g][e] \in MoveRequest
      BY DEF MigrationInv, Requests, Asked
    <2>2. x \in MoveRequest /\ x.space = s
      BY <2>1 DEF MoveRequest
    <2>3. request' = [request EXCEPT ![g][e] = x]
      BY <1>1 DEF Requested
    <2> HIDE DEF x
    <2> QED BY <1>1, <2>2, <2>3, OneAsked DEF MigrationInv, Requests
  <1>6. posted' \in [Game -> {None} \cup Mobile \X Space]
    BY <1>1 DEF MigrationInv, Requests
  <1> QED BY <1>1, <1>3, <1>4, <1>5, <1>6 DEF MigrationInv, Requests

\* cancelEnterSpace, as part of a step.
LEMMA CancelTold ==
  ASSUME Peers, NEW g \in Game, NEW e \in Entity, Cancel(g, e)
  PROVE  \E ms \in Seq(Request) : inbox' = Told(g, ms)
  <1>1. <<[type |-> "cancel", entity |-> e]>> \in Seq(Request)
    BY OneRequest
  <1>2. <<>> \in Seq(Request)
    OBVIOUS
  <1> QED BY <1>1, <1>2 DEF Cancel, Tell

LEMMA CancelAsked ==
  ASSUME Asked, NEW g \in Game, NEW e \in Entity, Cancel(g, e)
  PROVE  Asked'
  BY NothingAsked, OneAsked DEF Cancel

LEMMA EnterLocalSpaceKeeps ==
  ASSUME MigrationInv, NEW g \in Game, EnterLocalSpace(g)
  PROVE  MigrationInv'
  <1>1. PICK e \in Mobile, s \in Space : posted[g] = <<e, s>>
    <2>1. posted[g] # None /\ posted[g] \in {None} \cup Mobile \X Space
      BY DEF EnterLocalSpace, MigrationInv, Requests
    <2>2. posted[g] \in Mobile \X Space
      BY <2>1
    <2> QED BY <2>2
  <1>2. /\ Running(g) /\ posted' = [posted EXCEPT ![g] = None] /\ Cancel(g, e)
        /\ UNCHANGED <<vars, gameVars, flying>>
        /\ \/ UNCHANGED <<spaceOf, members>>
           \/ s \in live[g] /\ e \in live[g] /\ Enter(g, e, s)
    BY <1>1 DEF EnterLocalSpace
  <1>3. UNCHANGED <<proc, live, dump, snap, cur>>
    BY <1>2 DEF gameVars
  <1>4. e \in Entity
    BY DEF Mobile
  <1>5. live' \in [Game -> SUBSET Entity] /\ proc' \in [Game -> ProcState]
    BY <1>3 DEF MigrationInv, Peers
  <1>6. Peers'
    BY <1>2, <1>3, <1>4, <1>5, CancelTold, AlonePeers DEF MigrationInv
  <1>7. Housing'
    <2>1. CASE UNCHANGED <<spaceOf, members>>
      BY <1>3, <1>5, <2>1, StayHoused DEF MigrationInv
    <2>2. CASE s \in live[g] /\ e \in live[g] /\ Enter(g, e, s)
      <3>1. live'[g] = live[g] \cup {e} /\ \A h \in Game \ {g} : live'[h] = live[h]
        BY <1>3, <2>2
      <3> QED BY <1>2, <1>3, <1>5, <2>2, <3>1, EnterHoused DEF MigrationInv, Running
    <2> QED BY <1>2, <2>1, <2>2
  <1>8. Asked'
    BY <1>2, <1>4, CancelAsked DEF MigrationInv, Requests
  <1>9. posted' \in [Game -> {None} \cup Mobile \X Space]
    BY <1>2 DEF MigrationInv, Requests
  <1> QED BY <1>2, <1>6, <1>7, <1>8, <1>9 DEF MigrationInv, Requests

\* The answers to a request of e, and its arrival, on their own.
LEMMA SpaceGameKeeps ==
  ASSUME MigrationInv, NEW g \in Game, NEW e \in Entity, NEW s \in Entity,
         NEW h \in Game \cup {None},
         OnQuerySpaceGameIDForMigrateAck(g, e, s, h), UNCHANGED <<proc, posted>>
  PROVE  Requests' /\ Housing' /\ live' = live /\ inbox' \in [Conn -> Seq(Request)]
  <1>1. UNCHANGED <<live, spaceOf, members, flying>>
    BY DEF OnQuerySpaceGameIDForMigrateAck
  <1>2. Asked' /\ inbox' \in [Conn -> Seq(Request)]
    <2>1. CASE UNCHANGED <<request, inbox>>
      BY <2>1 DEF MigrationInv, Requests, Asked, Peers
    <2>2. CASE Cancel(g, e)
      BY <2>2, CancelTold, CancelAsked, ToldTyped DEF MigrationInv, Requests
    <2>3. CASE /\ request' = [request EXCEPT ![g][e].sent = TRUE]
               /\ Tell(g, <<[type |-> "migrate", entity |-> e, space |-> s, game |-> h]>>)
      <3>1. [type |-> "migrate", entity |-> e, space |-> s, game |-> h] \in Request
        BY DEF Request
      <3>2. <<[type |-> "migrate", entity |-> e, space |-> s, game |-> h]>> \in Seq(Request)
        BY <3>1
      <3>3. inbox' \in [Conn -> Seq(Request)]
        BY <2>3, <3>2, ToldTyped DEF Tell, MigrationInv
      <3> DEFINE x == [request[g][e] EXCEPT !.sent = TRUE]
      <3>4. request[g][e] \in MoveRequest
        BY DEF MigrationInv, Requests, Asked
      <3>5. /\ x \in MoveRequest
            /\ x.entering = request[g][e].entering /\ x.space = request[g][e].space
        BY <3>4 DEF MoveRequest
      <3>6. request' = [request EXCEPT ![g][e] = x]
        BY <2>3
      <3>7. request[g][e].entering => e \in Mobile /\ request[g][e].space \in Space
        BY DEF MigrationInv, Requests, Asked
      <3> HIDE DEF x
      <3>8. Asked'
        BY <3>5, <3>6, <3>7, OneAsked DEF MigrationInv, Requests
      <3> QED BY <3>3, <3>8
    <2> QED BY <2>1, <2>2, <2>3 DEF OnQuerySpaceGameIDForMigrateAck
  <1>3. Requests'
    BY <1>1, <1>2 DEF MigrationInv, Requests
  <1>4. Housing'
    BY <1>1, StayHoused DEF MigrationInv, Peers
  <1> QED BY <1>1, <1>2, <1>3, <1>4

LEMMA MigrateAckKeeps ==
  ASSUME MigrationInv, NEW g \in Game, NEW e \in Entity, NEW s \in Entity,
         NEW h \in Game \cup {None}, Running(g),
         OnMigrateRequestAck(g, e, s, h), UNCHANGED <<proc, posted>>
  PROVE  /\ Requests' /\ Housing' /\ live' \in [Game -> SUBSET Entity]
         /\ inbox' \in [Conn -> Seq(Request)]
  <1>1. CASE UNCHANGED <<live, inbox, spaceOf, members, request, flying>>
    <2>1. Housing'
      BY <1>1, StayHoused DEF MigrationInv, Peers
    <2> QED BY <1>1, <2>1 DEF MigrationInv, Requests, Asked, Peers
  <1>2. CASE /\ Awaited(g, e, s) /\ live' = [live EXCEPT ![g] = @ \ {e}] /\ Leave(g, {e})
             /\ flying' = [flying EXCEPT ![e] = s]
             /\ Tell(g, <<[type |-> "real", entity |-> e, game |-> h]>>)
    <2>1. e \in Mobile /\ s \in Space
      BY <1>2 DEF Awaited, MigrationInv, Requests, Asked
    <2>2. /\ flying' \in [Entity -> Space \cup {None}]
          /\ \A f \in Entity : flying'[f] # None => f \in Mobile
      BY <1>2, <2>1 DEF MigrationInv, Requests
    <2>3. Requests'
      BY <1>2, <2>2, LeaveAsked DEF MigrationInv, Requests
    <2>4. live' \in [Game -> SUBSET Entity]
      BY <1>2 DEF MigrationInv, Peers
    <2>5. Housing'
      <3>1. \A t \in {e} \cap Space : members[g][t] \subseteq {e}
        BY <2>1 DEF Mobile
      <3>2. /\ live'[g] \cap {e} = {} /\ live[g] \ {e} \subseteq live'[g]
            /\ \A k \in Game \ {g} : live'[k] = live[k]
        BY <1>2 DEF MigrationInv, Peers
      <3>3. proc[g] # "frozen" /\ \A k \in Game : proc[k] # "frozen" \/ proc'[k] = "frozen"
        BY DEF Running
      <3> QED BY <1>2, <2>4, <3>1, <3>2, <3>3, LeaveHoused DEF MigrationInv
    <2>6. inbox' \in [Conn -> Seq(Request)]
      <3>1. [type |-> "real", entity |-> e, game |-> h] \in Request
        BY DEF Request
      <3>2. <<[type |-> "real", entity |-> e, game |-> h]>> \in Seq(Request)
        BY <3>1
      <3> QED BY <1>2, <3>2, ToldTyped DEF Tell, MigrationInv
    <2> QED BY <2>3, <2>4, <2>5, <2>6
  <1> QED BY <1>1, <1>2 DEF OnMigrateRequestAck

LEMMA ArrivalKeeps ==
  ASSUME MigrationInv, NEW g \in Game, NEW e \in Entity, Running(g),
         OnRealMigrate(g, e), UNCHANGED <<proc, posted>>
  PROVE  /\ Requests' /\ Housing' /\ live' \in [Game -> SUBSET Entity]
         /\ inbox' = inbox
  <1>1. UNCHANGED <<inbox, request>>
    BY DEF OnRealMigrate
  <1>2. /\ live' \in {live, [live EXCEPT ![g] = @ \cup {e}]}
        /\ flying' \in {flying, [flying EXCEPT ![e] = None]}
    BY DEF OnRealMigrate
  <1>3. live' \in [Game -> SUBSET Entity]
    BY <1>2 DEF MigrationInv, Peers
  <1>4. flying' \in [Entity -> Space \cup {None}] /\ \A f \in Entity : flying'[f] # None => f \in Mobile
    BY <1>2 DEF MigrationInv, Requests
  <1>5. Requests'
    BY <1>1, <1>4 DEF MigrationInv, Requests, Asked
  <1>6. proc[g] # "frozen" /\ \A k \in Game : proc[k] # "frozen" \/ proc'[k] = "frozen"
    BY DEF Running
  <1>7. CASE UNCHANGED <<spaceOf, members>>
    <2>1. \A k \in Game : live'[k] = live[k] \/ (proc[k] # "frozen" /\ live[k] \subseteq live'[k])
      BY <1>2, <1>6 DEF MigrationInv, Peers
    <2> QED BY <1>1, <1>3, <1>5, <1>6, <1>7, <2>1, StayHoused DEF MigrationInv
  <1>8. CASE /\ live' = [live EXCEPT ![g] = @ \cup {e}]
             /\ flying[e] \in live[g] /\ Enter(g, e, flying[e])
    <2>1. flying[e] # None
      BY <1>8, NoneAssumption DEF MigrationInv, Peers
    <2>2. flying[e] \in Space /\ e \in Mobile
      BY <2>1 DEF MigrationInv, Requests
    <2>3. live'[g] = live[g] \cup {e} /\ \A k \in Game \ {g} : live'[k] = live[k]
      BY <1>8 DEF MigrationInv, Peers
    <2> QED BY <1>1, <1>3, <1>5, <1>6, <1>8, <2>2, <2>3, EnterHoused DEF MigrationInv
  <1> QED BY <1>7, <1>8 DEF OnRealMigrate

LEMMA HandleMigrationKeeps ==
  ASSUME MigrationInv, NEW g \in Game, HandleMigration(g)
  PROVE  MigrationInv'
  <1> DEFINE p == Head(wire[cur[g]])
  <1>1. [Next]_vars /\ p \in Packet
    BY ReadPeers DEF HandleMigration, MigrationInv
  <1>2. Running(g) /\ UNCHANGED <<proc, dump, cur, snap, posted>>
    BY DEF HandleMigration, AtLoop
  <1>3. \/ p.type = "spaceGame" /\ OnQuerySpaceGameIDForMigrateAck(g, p.entity, p.space, p.game)
        \/ p.type = "migrateAck" /\ OnMigrateRequestAck(g, p.entity, p.space, p.game)
        \/ p.type = "realMigrate" /\ OnRealMigrate(g, p.entity)
    BY DEF HandleMigration
  <1> HIDE DEF p
  <1>4. Peers
    BY DEF MigrationInv
  <1>5. /\ Requests' /\ Housing' /\ live' \in [Game -> SUBSET Entity]
        /\ inbox' \in [Conn -> Seq(Request)]
    <2>1. CASE p.type = "spaceGame" /\ OnQuerySpaceGameIDForMigrateAck(g, p.entity, p.space, p.game)
      <3>1. p.entity \in Entity /\ p.space \in Entity /\ p.game \in Game \cup {None}
        BY <1>1, <2>1, PacketKinds
      <3>2. live \in [Game -> SUBSET Entity]
        BY <1>4 DEF Peers
      <3> QED BY <1>2, <2>1, <3>1, <3>2, SpaceGameKeeps
    <2>2. CASE p.type = "migrateAck" /\ OnMigrateRequestAck(g, p.entity, p.space, p.game)
      <3>1. p.entity \in Entity /\ p.space \in Entity /\ p.game \in Game \cup {None}
        BY <1>1, <2>2, PacketKinds
      <3> QED BY <1>2, <2>2, <3>1, MigrateAckKeeps
    <2>3. CASE p.type = "realMigrate" /\ OnRealMigrate(g, p.entity)
      <3>1. p.entity \in Entity
        BY <1>1, <2>3, PacketKinds
      <3>2. inbox \in [Conn -> Seq(Request)]
        BY <1>4 DEF Peers
      <3> QED BY <1>2, <2>3, <3>1, <3>2, ArrivalKeeps
    <2> QED BY <1>3, <2>1, <2>2, <2>3
  <1>6. Peers'
    BY <1>1, <1>2, <1>4, <1>5, PeersGoOn DEF Peers
  <1> QED BY <1>5, <1>6 DEF MigrationInv

\* Any other packet: an answer to SET_GAME_ID destroys the rejected spaces with
\* their members.
LEMMA HandleOtherKeeps ==
  ASSUME MigrationInv, NEW g \in Game, HandleOther(g)
  PROVE  MigrationInv'
  <1>1. Peers /\ Housing
    BY DEF MigrationInv
  <1>2. PICK p \in Packet : p = Head(wire[cur[g]])
    BY <1>1, ReadPeers DEF HandleOther
  <1>3. PICK dead :
          /\ dead = IF p.type = "setGameIDAck" THEN WithMembers(g, p.reject \cap live[g]) ELSE {}
          /\ Handle(g, IF dead = {} THEN p ELSE [p EXCEPT !.reject = dead])
          /\ Leave(g, dead)
    BY <1>2 DEF HandleOther
  <1>4. Running(g) /\ UNCHANGED <<dump, cur, snap, posted, flying>> /\ [Next]_vars
    BY <1>1, ReadPeers DEF HandleOther, AtLoop
  <1>5. dead \in SUBSET Entity /\ \A s \in dead \cap Space : members[g][s] \subseteq dead
    <2>1. CASE p.type = "setGameIDAck"
      <3>1. p.reject \cap live[g] \in SUBSET Entity
        BY <2>1, PacketKinds
      <3> QED BY <1>1, <1>3, <2>1, <3>1, MembersClosed
    <2> QED BY <1>3, <2>1
  <1>6. PICK q \in Packet : /\ Handle(g, q)
                            /\ q.type = "setGameIDAck" =>
                                 /\ live[g] \cap q.reject \subseteq dead
                                 /\ dead \subseteq q.reject
                            /\ q.type # "setGameIDAck" => dead = {}
    <2>1. CASE dead = {}
      <3>1. p.type = "setGameIDAck" => p.reject \cap live[g] \subseteq dead
        BY <1>3 DEF WithMembers
      <3> QED BY <1>3, <2>1, <3>1
    <2>2. CASE dead # {}
      <3>1. p.type = "setGameIDAck"
        BY <1>3, <2>2
      <3>2. p \in [type : {"setGameIDAck"}, ready : BOOLEAN, online : SUBSET Game,
                   reject : SUBSET Entity]
        BY <3>1 DEF Packet
      <3>3. [p EXCEPT !.reject = dead]
              \in [type : {"setGameIDAck"}, ready : BOOLEAN, online : SUBSET Game,
                   reject : SUBSET Entity]
        BY <1>5, <3>2
      <3>4. [p EXCEPT !.reject = dead] \in Packet
        BY <3>3 DEF Packet
      <3>5. [p EXCEPT !.reject = dead].reject = dead
        BY <3>2
      <3> QED BY <1>3, <2>2, <3>3, <3>4, <3>5
    <2> QED BY <2>1, <2>2
  <1>7. /\ proc' \in [Game -> ProcState] /\ live' \in [Game -> SUBSET Entity]
        /\ inbox' \in [Conn -> Seq(Request)]
    BY <1>1, <1>6, HandleTyped
  <1>8. Peers'
    BY <1>1, <1>4, <1>7, PeersGoOn DEF Peers
  <1>9. proc' \in {proc, [proc EXCEPT ![g] = "freezing"]}
    BY <1>6 DEF Handle, OnSetGameIDAck, OnNotifyDeploymentReady, OnCreateEntitySomewhere,
                OnLoadEntitySomewhere, OnCall, OnGameConnected, OnGameDisconnected,
                OnStartFreezeGameAck
  <1>10. \/ q.type # "setGameIDAck" /\ live' = live
         \/ q.type # "setGameIDAck" /\ live' = [live EXCEPT ![g] = @ \cup {q.entity}]
         \/ q.type = "setGameIDAck" /\ live' = [live EXCEPT ![g] = @ \ q.reject]
    BY <1>6 DEF Handle, OnSetGameIDAck, OnNotifyDeploymentReady, OnCreateEntitySomewhere,
                OnLoadEntitySomewhere, OnCall, OnGameConnected, OnGameDisconnected,
                OnStartFreezeGameAck
  <1>11. Housing'
    <2>1. live'[g] \cap dead = {} /\ live[g] \ dead \subseteq live'[g]
      BY <1>1, <1>6, <1>10 DEF Peers
    <2>2. \A h \in Game \ {g} : live'[h] = live[h]
      BY <1>1, <1>10 DEF Peers
    <2>3. proc[g] # "frozen" /\ \A h \in Game \ {g} : proc[h] # "frozen" \/ proc'[h] = "frozen"
      BY <1>1, <1>4, <1>9 DEF Peers, Running
    <2> QED BY <1>1, <1>3, <1>5, <1>7, <2>1, <2>2, <2>3, LeaveHoused
  <1>12. Requests'
    BY <1>3, <1>4, LeaveAsked DEF MigrationInv, Requests
  <1> QED BY <1>8, <1>11, <1>12 DEF MigrationInv

LEMMA ExpiryKeeps ==
  ASSUME MigrationInv, NEW e \in Entity, BlockExpires(e) \/ \E g \in Game : RequestExpires(g, e)
  PROVE  MigrationInv'
  <1>1. UNCHANGED <<live, proc, spaceOf, members, posted, flying>>
    BY DEF BlockExpires, EntityTimeout, RequestExpires, moveVars, cvars, gameVars
  <1>2. Housing'
    BY <1>1, StayHoused DEF MigrationInv, Peers
  <1>3. CASE BlockExpires(e)
    <2>1. Peers'
      BY <1>3, TimePeers DEF BlockExpires, MigrationInv
    <2>2. request' = request
      BY <1>3 DEF BlockExpires, moveVars
    <2> QED BY <1>1, <1>2, <2>1, <2>2 DEF MigrationInv, Requests, Asked
  <1>4. CASE \E g \in Game : RequestExpires(g, e)
    <2>1. PICK g \in Game : RequestExpires(g, e)
      BY <1>4
    <2>2. UNCHANGED <<vars, dump, snap, cur, proc, live, inbox>>
      BY <2>1 DEF RequestExpires, cvars, gameVars
    <2>3. <<>> \in Seq(Request) /\ inbox' \in {inbox, Told(g, <<>>)}
      BY <2>2
    <2>4. live' \in [Game -> SUBSET Entity] /\ proc' \in [Game -> ProcState]
      BY <2>2 DEF MigrationInv, Peers
    <2>5. Peers'
      BY <2>2, <2>3, <2>4, AlonePeers DEF MigrationInv
    <2> DEFINE x == [request[g][e] EXCEPT !.entering = FALSE]
    <2>6. request[g][e] \in MoveRequest
      BY DEF MigrationInv, Requests, Asked
    <2>7. x \in MoveRequest /\ x.entering = FALSE
      BY <2>6 DEF MoveRequest
    <2>8. request' = [request EXCEPT ![g][e] = x]
      BY <2>1 DEF RequestExpires
    <2> HIDE DEF x
    <2>9. Asked'
      BY <2>7, <2>8, OneAsked DEF MigrationInv, Requests
    <2> QED BY <1>1, <1>2, <2>5, <2>9 DEF MigrationInv, Requests
  <1> QED BY <1>3, <1>4

\* A process that ends holds nobody; a freeze keeps who was where.
LEMMA EndKeeps ==
  ASSUME MigrationInv, NEW g \in Game, Freeze(g) \/ Crashes(g)
  PROVE  MigrationInv'
  <1>1. Peers'
    BY StopPeers DEF Freeze, Crashes, MigrationInv
  <1>2. NoSpaces(g) /\ UNCHANGED flying
    BY DEF Freeze, Crashes
  <1>3. Requests'
    BY <1>2, NoSpacesAsked DEF MigrationInv
  <1>4. \/ proc' = [proc EXCEPT ![g] = "frozen"] /\ spaceOf' = spaceOf
        \/ /\ proc' = [proc EXCEPT ![g] = "down"]
           /\ spaceOf' = [spaceOf EXCEPT ![g] = [e \in Entity |-> None]]
    BY DEF Freeze, Crashes, DoFreeze, Crash, Exit
  <1>5. /\ live' = [live EXCEPT ![g] = {}]
        /\ members' = [members EXCEPT ![g] = [s \in Space |-> {}]]
    BY <1>2 DEF Freeze, Crashes, DoFreeze, Crash, Exit, NoSpaces
  <1>6. /\ spaceOf' \in [Game -> [Entity -> Space \cup {None}]]
        /\ members' \in [Game -> [Space -> SUBSET Entity]]
    <2>1. spaceOf \in [Game -> [Entity -> Space \cup {None}]]
      BY DEF MigrationInv, Housing
    <2>2. [e \in Entity |-> None] \in [Entity -> Space \cup {None}]
      OBVIOUS
    <2>3. spaceOf' \in [Game -> [Entity -> Space \cup {None}]]
      BY <1>4, <2>1, <2>2
    <2>4. members' \in [Game -> [Space -> SUBSET Entity]]
      BY <1>5 DEF MigrationInv, Housing
    <2> QED BY <2>3, <2>4
  <1>7. \A h \in Game \ {g} : /\ UNCHANGED <<spaceOf[h], members[h], live[h]>>
                              /\ proc[h] # "frozen" \/ proc'[h] = "frozen"
    BY <1>4, <1>5 DEF MigrationInv, Housing, Peers
  <1>8. live'[g] = {} /\ \A s \in Space : members'[g][s] = {}
    BY <1>5 DEF MigrationInv, Housing, Peers
  <1>9. \A e \in Entity : spaceOf'[g][e] # None => e \in Mobile /\ proc'[g] = "frozen"
    BY <1>4 DEF MigrationInv, Housing, Housed, Peers
  <1>10. Housed(g)'
    BY <1>8, <1>9 DEF Housed
  <1>11. Housing'
    BY <1>6, <1>7, <1>10, OnlyGame DEF MigrationInv
  <1> QED BY <1>1, <1>3, <1>11 DEF MigrationInv

\* A restored game finds everybody where the freeze left them.
LEMMA RestoreKeeps ==
  ASSUME MigrationInv, NEW g \in Game, Restore(g)
  PROVE  MigrationInv'
  <1>1. Peers'
    BY StartPeers DEF Restore, MigrationInv
  <1>2. UNCHANGED <<request, posted, flying>>
    BY DEF Restore
  <1>3. Requests'
    BY <1>2 DEF MigrationInv, Requests, Asked
  <1>4. /\ proc' = [proc EXCEPT ![g] = "starting"] /\ live' = [live EXCEPT ![g] = dump[g]]
        /\ members' = [members EXCEPT ![g] =
             [s \in Space |-> {e \in dump[g] : s \in dump[g] /\ spaceOf[g][e] = s}]]
        /\ spaceOf' = [spaceOf EXCEPT ![g] =
             [e \in Entity |-> IF e \in dump[g] /\ spaceOf[g][e] \in dump[g]
                               THEN spaceOf[g][e] ELSE None]]
    BY DEF Restore, Start
  <1>5. dump[g] \subseteq Entity
    BY DEF MigrationInv, Peers
  <1>6. /\ spaceOf' \in [Game -> [Entity -> Space \cup {None}]]
        /\ members' \in [Game -> [Space -> SUBSET Entity]]
    BY <1>4, <1>5 DEF MigrationInv, Housing
  <1>7. \A h \in Game \ {g} : /\ UNCHANGED <<spaceOf[h], members[h], live[h]>>
                              /\ proc[h] # "frozen" \/ proc'[h] = "frozen"
    BY <1>4 DEF MigrationInv, Housing, Peers
  <1>8. /\ live'[g] = dump[g]
        /\ \A s \in Space :
             members'[g][s] = {e \in dump[g] : s \in dump[g] /\ spaceOf[g][e] = s}
        /\ \A e \in Entity : spaceOf'[g][e] = IF e \in dump[g] /\ spaceOf[g][e] \in dump[g]
                                              THEN spaceOf[g][e] ELSE None
    BY <1>4 DEF MigrationInv, Housing, Peers
  <1>9. \A e \in Entity : spaceOf'[g][e] # None =>
          e \in Mobile /\ e \in live'[g] /\ spaceOf'[g][e] \in live'[g]
    BY <1>8 DEF MigrationInv, Housing, Housed
  <1>10. ASSUME NEW s \in Space
         PROVE  members'[g][s] = {e \in live'[g] : s \in live'[g] /\ spaceOf'[g][e] = s}
    <2>1. s # None
      BY MigrationAssumption, NoneAssumption
    <2> QED BY <1>5, <1>8, <2>1
  <1>11. Housed(g)'
    BY <1>9, <1>10 DEF Housed
  <1>12. Housing'
    BY <1>6, <1>7, <1>11, OnlyGame DEF MigrationInv
  <1> QED BY <1>1, <1>3, <1>12 DEF MigrationInv

LEMMA MigrationInit == MInit => MigrationInv
  <1> SUFFICES ASSUME MInit PROVE MigrationInv
    OBVIOUS
  <1>1. Inv
    <2>1. FirstConn \in [Game -> Conn] /\ Home \in [Entity -> Game]
      BY MigrationAssumption
    <2>8. <<>> \in Seq(Packet)
      OBVIOUS
    <2>2. ASSUME NEW e \in Entity PROVE edi[e] \in EntityInfo /\ Entry(edi[e])
      <3>1. edi[e] = [NoEntityInfo EXCEPT !.known = TRUE, !.gameid = Home[e]]
        BY DEF MInit
      <3>2. edi[e] = [known |-> TRUE, gameid |-> Home[e], blockUntil |-> "zero",
                      pending |-> <<>>]
        BY <3>1 DEF NoEntityInfo
      <3>3. Home[e] \in Game
        BY <2>1
      <3> QED BY <2>8, <3>2, <3>3 DEF EntityInfo, BlockTime, Entry
    <2>3. ASSUME NEW g \in Game
          PROVE  gdi[g] \in GameInfo /\ Queue(gdi[g]) /\ gdi[g].clientProxy = FirstConn[g]
                 /\ gdi[g].known
      <3>1. gdi[g] = [NoGameInfo EXCEPT !.known = TRUE, !.clientProxy = FirstConn[g]]
        BY DEF MInit
      <3>2. gdi[g] = [known |-> TRUE, clientProxy |-> FirstConn[g], isBlocked |-> FALSE,
                      blockUntil |-> "zero", pending |-> <<>>]
        BY <3>1 DEF NoGameInfo
      <3>3. FirstConn[g] \in Conn
        BY <2>1
      <3> QED BY <2>8, <3>2, <3>3 DEF GameInfo, BlockTime, Queue
    <2>4. ASSUME NEW c \in Conn PROVE id[c] \in Game \cup Gate \cup {None}
      BY DEF MInit
    <2>5. ASSUME NEW g \in Game PROVE id[FirstConn[g]] = g
      <3>1. FirstConn[g] \in Conn
        BY <2>1
      <3>2. id[FirstConn[g]] = IF \E h \in Game : FirstConn[h] = FirstConn[g]
                               THEN CHOOSE h \in Game : FirstConn[h] = FirstConn[g] ELSE None
        BY <3>1 DEF MInit
      <3>3. \A h \in Game : FirstConn[h] = FirstConn[g] => h = g
        BY MigrationAssumption
      <3> QED BY <3>2, <3>3
    <2>6. /\ edi \in [Entity -> EntityInfo] /\ gdi \in [Game -> GameInfo]
          /\ id \in [Conn -> Game \cup Gate \cup {None}] /\ wire \in [Conn -> Seq(Packet)]
      <3>1. /\ edi = [e \in Entity |-> edi[e]] /\ gdi = [g \in Game |-> gdi[g]]
            /\ id = [c \in Conn |-> id[c]] /\ wire = [c \in Conn |-> <<>>]
        BY DEF MInit
      <3> QED BY <2>2, <2>3, <2>4, <2>8, <3>1
    <2>7. Good(Now)
      BY <2>2, <2>3, <2>5, <2>6 DEF Good, Snapshot, Entries, Identified, Queues, Now
    <2> QED BY <2>7 DEF MInit, Inv
  <1>2. <<>> \in Seq(Request) /\ inbox = [c \in Conn |-> <<>>]
    <2>1. inbox = [c \in Conn |-> <<>>]
      BY DEF MInit
    <2> QED BY <2>1
  <1>3. /\ inbox \in [Conn -> Seq(Request)] /\ cur \in [Game -> Conn \cup {None}]
        /\ live \in [Game -> SUBSET Entity]
    BY <1>2, MigrationAssumption DEF MInit
  <1>4. Peers
    BY <1>1, <1>3 DEF MInit, Peers, ProcState
  <1>5. Requests
    BY NothingAsked DEF MInit, Requests, Asked
  <1>6. Housing
    <2>1. \A s \in Space : s # None
      BY MigrationAssumption, NoneAssumption
    <2>2. \A g \in Game : Housed(g)
      BY <2>1, <1>3 DEF MInit, Housed
    <2> QED BY <2>2 DEF MInit, Housing
  <1> QED BY <1>4, <1>5, <1>6 DEF MigrationInv

LEMMA MigrationStep ==
  ASSUME MigrationInv, [MNext]_mvars
  PROVE  MigrationInv'
  <1>1. ASSUME NEW g \in Game, NEW e \in Entity, NEW s \in Space, EnterSpace(g, e, s)
        PROVE  MigrationInv'
    BY <1>1, EnterSpaceKeeps
  <1>2. ASSUME NEW g \in Game, NEW e \in Entity, Destroy(g, e) \/ RequestExpires(g, e)
        PROVE  MigrationInv'
    BY <1>2, DestroyKeeps, ExpiryKeeps
  <1>3. ASSUME NEW g \in Game,
               \/ HandleMigration(g) \/ HandleOther(g) \/ EnterLocalSpace(g)
               \/ Freeze(g) \/ Restore(g) \/ Crashes(g)
        PROVE  MigrationInv'
    BY <1>3, HandleMigrationKeeps, HandleOtherKeeps, EnterLocalSpaceKeeps, EndKeeps, RestoreKeeps
  <1>4. ASSUME NEW e \in Entity, BlockExpires(e) PROVE MigrationInv'
    BY <1>4, ExpiryKeeps
  <1>5. CASE UNCHANGED mvars
    <2>1. UNCHANGED <<vars, gameVars, inbox, moveVars, flying>>
      BY <1>5 DEF mvars, cvars
    <2>2. UNCHANGED <<proc, live, dump, snap, cur, spaceOf, members, request, posted>>
      BY <2>1 DEF gameVars, moveVars
    <2>3. Housing'
      BY <2>2, StayHoused DEF MigrationInv, Peers
    <2>4. Peers'
      BY <2>1, <2>2, PeersGoOn DEF MigrationInv, Peers
    <2> QED BY <2>1, <2>2, <2>3, <2>4 DEF MigrationInv, Requests, Asked
  <1> QED BY <1>1, <1>2, <1>3, <1>4, <1>5, UnmovedKeeps DEF MNext

-----------------------------------------------------------------------------
(* What games know of each other, when one connects                         *)

LEMMA AnswerStays ==
  ASSUME NEW t, NEW r \in BOOLEAN, Letters(t), Views(Now, t), Commit(t), ready' = r,
         \A g \in Game, c \in Conn, d \in BOOLEAN :
           Heard(Now, ready, g, c, d) => Heard(t, r, g, c, d),
         \A c \in Conn : link'[c] = "open" => link[c] = "open"
  PROVE  Stays
  <1>1. Now'.edi = t.edi /\ Now'.gdi = t.gdi /\ Now'.wire = t.wire
    BY DEF Commit, Now
  <1>2. Letters(Now)'
    BY <1>1 DEF Letters
  <1>3. ASSUME NEW g \in Game, NEW c \in Conn, Fed(Now, g, c)' PROVE Fed(t, g, c)
    BY <1>1, <1>3 DEF Fed
  <1>4. ASSUME NEW g \in Game, NEW h \in Game, NEW c \in Conn, NEW o \in SUBSET Game,
               Viewed(Now, g, h, c, o)
        PROVE  Viewed(Now, g, h, c, o)'
    <2>1. Viewed(t, g, h, c, o)
      BY <1>4 DEF Views
    <2> QED BY <1>1, <1>3, <2>1 DEF Viewed, Attached
  <1>5. ASSUME NEW g \in Game, NEW c \in Conn, NEW d \in BOOLEAN, Heard(Now, ready, g, c, d)
        PROVE  Heard(Now, ready, g, c, d)'
    <2>1. Heard(t, r, g, c, d)
      BY <1>5
    <2> QED BY <1>1, <1>3, <2>1 DEF Heard
  <1> QED BY <1>2, <1>4, <1>5 DEF Stays

\* Whoever is told that the deployment is ready knows it, and the rest was said before.
LEMMA ReadyStays ==
  ASSUME NEW s, NEW gs, Good(s), Letters(s), GameQueueMax # 0, ready \in BOOLEAN,
         Views(Now, s), CommitAndCheckReady(s, gs),
         \A g \in Game, c \in Conn, d \in BOOLEAN :
           Heard(Now, ready, g, c, d) => Heard(s, ready, g, c, d),
         \A c \in Conn : link'[c] = "open" => link[c] = "open"
  PROVE  Stays
  <1> DEFINE p == [type |-> "ready"]
             out == ToAllExcept(None, <<p>>)
             t == Dispatch(s, out)
  <1>1. \/ ready' = TRUE /\ Commit(t)
        \/ ready' = ready /\ Commit(s)
    BY DEF CommitAndCheckReady
  <1>2. <<p>> \in Seq(Plain)
    <2>1. p \in Plain
      BY DEF Packet, Plain, News
    <2> QED BY <2>1
  <1>3. out \in [Game -> Seq(Plain)] /\ out \in [Game -> Seq(Packet)]
    <2>1. <<p>> \in Seq(Packet)
      BY <1>2, PlainSilent
    <2> QED BY <1>2, <2>1, ToFrom
  <1>4. ASSUME NEW g \in Game
        PROVE  \E i \in 1 .. Len(out[g]) : Informs(out[g][i])
    <2>1. out[g] = <<p>>
      BY NoneAssumption DEF ToAllExcept
    <2>2. 1 \in 1 .. Len(<<p>>) /\ Informs(<<p>>[1])
      BY DEF Informs
    <2> QED BY <2>1, <2>2
  <1> HIDE DEF out
  <1>5. Keeps(s, t)
    BY <1>3, DispatchKeepsViews
  <1>6. ASSUME NEW g \in Game, NEW c \in Conn, NEW d \in BOOLEAN
        PROVE  Heard(t, TRUE, g, c, d)
    BY <1>3, <1>4, DownHeard DEF t, Dispatch
  <1>7. Letters(t) /\ Views(Now, t)
    BY <1>5 DEF Keeps, Views
  <1> HIDE DEF t
  <1> QED BY <1>1, <1>6, <1>7, AnswerStays

\* The new connection of g says nothing to others, nor of others.
LEMMA AdoptProxyViews ==
  ASSUME NEW s, NEW c \in Conn, NEW g \in Game, Good(s), Letters(s), s.id[c] = g
  PROVE  LET t == AdoptProxy(s, c, g)
         IN /\ Letters(t)
            /\ \A x \in Game \ {g}, d \in Conn : Fed(t, x, d) =>
                 Fed(s, x, d) /\ t.wire[d] = s.wire[d]
  <1> DEFINE i == s.gdi[g]
             ps == IF FlushOnAdopt(i) THEN i.pending ELSE <<>>
             q == IF FlushOnAdopt(i) THEN <<>> ELSE i.pending
             j == [i EXCEPT !.known = TRUE, !.clientProxy = c, !.blockUntil = "zero",
                            !.pending = q]
             t == [s EXCEPT !.gdi[g] = j]
             u == AdoptProxy(s, c, g)
  <1>1. i \in GameInfo /\ ("connected" \in FreezeTimeout \/ Queue(i))
    BY DEF Good, Snapshot, Queues
  <1>2. ps \in Seq(Packet) /\ q \in Seq(Packet)
    BY <1>1 DEF GameInfo
  <1>3. u = SendPacket(t, c, ps)
    BY DEF AdoptProxy
  <1>4. (FlushOnAdopt(i) /\ q = <<>>) \/ (~FlushOnAdopt(i) /\ q = i.pending)
    OBVIOUS
  <1> HIDE DEF i, ps, q, u
  <1>5. /\ j \in GameInfo /\ j.known /\ j.clientProxy = c /\ j.blockUntil = "zero"
        /\ j.isBlocked = i.isBlocked /\ j.pending = q
    BY <1>1, <1>2 DEF GameInfo, BlockTime
  <1> HIDE DEF j
  <1>6. "connected" \in FreezeTimeout \/ Queue(j)
    BY <1>1, <1>4, <1>5 DEF Queue, FlushOnAdopt
  <1>7. /\ Good(t) /\ t.edi = s.edi /\ \A h \in Game \ {g} : t.gdi[h] = s.gdi[h]
    <2> HIDE DEF t
    <2> QED BY <1>5, <1>6, GameUpdate DEF t
  <1>8. t.wire = s.wire
    <2>1. s = [edi |-> s.edi, gdi |-> s.gdi, id |-> s.id, wire |-> s.wire]
      BY DEF Good, Snapshot
    <2> QED BY <2>1
  <1> HIDE DEF t
  <1>9. /\ u.gdi = t.gdi /\ u.edi = t.edi
        /\ \A d \in Conn \ {c} : u.wire[d] = t.wire[d]
    BY <1>2, <1>3, <1>7, SendPacketWire
  <1>10. Letters(u)
    BY <1>7, <1>9 DEF Letters
  <1>11. ASSUME NEW x \in Game \ {g}, NEW d \in Conn, Fed(u, x, d)
         PROVE  Fed(s, x, d) /\ u.wire[d] = s.wire[d]
    <2>1. Fed(s, x, d)
      BY <1>7, <1>9, <1>11 DEF Fed
    <2>2. s.id[d] = x
      BY <2>1, NoneAssumption DEF Fed, Good, Identified
    <2> QED BY <1>8, <1>9, <2>1, <2>2
  <1> QED BY <1>10, <1>11 DEF u

LEMMA AdoptEntitiesViews ==
  ASSUME NEW s, NEW g \in Game, NEW eids \in Seq(Entity), Good(s), Letters(s),
         GameQueueMax # 0
  PROVE  Keeps(s, AdoptEntities(s, g, eids))
  <1> DEFINE mine == {e \in ToSet(eids) : s.edi[e].gameid \in {g, None}}
             parts == [i \in DOMAIN eids |->
                         IF eids[i] \in mine THEN s.edi[eids[i]].pending ELSE <<>>]
             held == FlattenSeq(parts)
             routes == [e \in Entity |->
                IF e \in mine THEN [Released(s.edi[e]) EXCEPT !.known = TRUE, !.gameid = g]
                ELSE s.edi[e]]
             t == Routed(s, mine, g)
             u == AdoptEntities(s, g, eids)
  <1>1. u = Dispatch(t, To(g, held))
    BY DEF AdoptEntities, Routed
  <1>2. held \in Seq(Plain)
    <2>1. DOMAIN eids = 1..Len(eids) /\ Len(eids) \in Nat
      OBVIOUS
    <2> HIDE DEF mine
    <2>2. ASSUME NEW i \in DOMAIN eids PROVE parts[i] \in Seq(Plain)
      <3>1. s.edi[eids[i]].pending \in Seq(Plain) /\ <<>> \in Seq(Plain)
        BY DEF Letters
      <3> QED BY <3>1
    <2>3. parts \in [1..Len(eids) -> Seq(Plain)]
      BY <2>1, <2>2
    <2> HIDE DEF parts
    <2> QED BY <2>1, <2>3, FlattenTyped
  <1> HIDE DEF mine, held, u
  <1>3. \A e \in Entity : routes[e].pending \in Seq(Plain)
    <2>1. ASSUME NEW e \in Entity PROVE routes[e].pending \in Seq(Plain)
      <3>1. s.edi[e] \in EntityInfo /\ s.edi[e].pending \in Seq(Plain) /\ <<>> \in Seq(Plain)
        BY DEF Good, Snapshot, Letters
      <3>2. Released(s.edi[e]) \in EntityInfo /\ Released(s.edi[e]).pending = <<>>
        BY <3>1, ReleasedTyped
      <3>3. [Released(s.edi[e]) EXCEPT !.known = TRUE, !.gameid = g].pending = <<>>
        BY <3>2 DEF EntityInfo
      <3> QED BY <3>1, <3>3
    <2> QED BY <2>1
  <1>4. t.edi = routes /\ t.gdi = s.gdi /\ t.wire = s.wire
    <2>1. s = [edi |-> s.edi, gdi |-> s.gdi, id |-> s.id, wire |-> s.wire]
      BY DEF Good, Snapshot
    <2>2. t = [s EXCEPT !.edi = routes]
      BY DEF Routed
    <2> HIDE DEF t, routes
    <2> QED BY <2>1, <2>2
  <1>5. Good(t)
    BY RoutedGood
  <1> HIDE DEF t, routes
  <1>6. Letters(t)
    BY <1>3, <1>4 DEF Letters
  <1>7. Keeps(s, t)
    BY <1>4, <1>6, SameViews
  <1>8. To(g, held) \in [Game -> Seq(Plain)]
    BY <1>2, ToFrom
  <1>9. Keeps(t, u)
    BY <1>1, <1>5, <1>6, <1>8, DispatchKeepsViews
  <1>10. Keeps(s, u)
    BY <1>7, <1>9, KeepsTrans
  <1> QED BY <1>10 DEF u

\* The ack tells the new connection of g who is connected, and the others are told of g.
LEMMA AckViews ==
  ASSUME NEW s, NEW c \in Conn, NEW g \in Game, NEW r \in BOOLEAN, NEW rejected \in SUBSET Entity,
         Good(s), Letters(s), s.id[c] = g, s.gdi[g].clientProxy = c, GameQueueMax # 0
  PROVE  LET ack == [type |-> "setGameIDAck", ready |-> r,
                     online |-> {h \in Game : s.gdi[h].clientProxy # None},
                     reject |-> rejected]
             t == SendPacket(s, c, <<ack>>)
         IN /\ Good(t) /\ Letters(t) /\ t.gdi = s.gdi
            /\ \A h \in Game, d \in Conn, o \in SUBSET Game : Viewed(t, g, h, d, o)
            /\ \A d \in Conn, b \in BOOLEAN : Heard(t, r, g, d, b)
            /\ \A x \in Game \ {g}, d \in Conn : Fed(t, x, d) =>
                 Fed(s, x, d) /\ t.wire[d] = s.wire[d]
  <1> DEFINE ack == [type |-> "setGameIDAck", ready |-> r,
                     online |-> {h \in Game : s.gdi[h].clientProxy # None},
                     reject |-> rejected]
             t == SendPacket(s, c, <<ack>>)
  <1>1. ack \in Packet
    BY DEF Packet
  <1>2. \A h \in Game : Mentions(ack, h) /\ (Shows(ack, h) <=> Attached(s, h))
    BY DEF Mentions, Shows, Attached
  <1>3. r => Informs(ack)
    BY DEF Informs
  <1> HIDE DEF ack
  <1>4. <<ack>> \in Seq(Packet) /\ 1 \in 1 .. Len(<<ack>>) /\ <<ack>>[1] = ack
    BY <1>1
  <1>5. /\ t.gdi = s.gdi /\ t.edi = s.edi
        /\ \A d \in Conn : t.wire[d] = IF d = c /\ link[c] = "open" THEN s.wire[d] \o <<ack>>
                                       ELSE s.wire[d]
    BY <1>4, SendPacketWire
  <1>6. Good(t)
    BY <1>4, SendPacketGood
  <1>7. s.wire[c] \in Seq(Packet)
    BY DEF Good, Snapshot
  <1> HIDE DEF t
  <1>8. ASSUME NEW d \in Conn, Fed(t, g, d)
        PROVE  t.wire[d] = s.wire[c] \o <<ack>>
    <2>1. d = c /\ link[c] = "open"
      BY <1>5, <1>8 DEF Fed
    <2> QED BY <1>5, <2>1
  <1>9. ASSUME NEW h \in Game, NEW d \in Conn, NEW o \in SUBSET Game, Fed(t, g, d)
        PROVE  Seen(t.wire[d], h, h \in o) <=> Attached(t, h)
    <2>1. PICK v : v = (h \in o)
      OBVIOUS
    <2>2. Seen(s.wire[c] \o <<ack>>, h, v) <=> Shows(ack, h)
      BY <1>1, <1>2, <1>7, SeenLast
    <2>3. Attached(t, h) <=> Attached(s, h)
      BY <1>5 DEF Attached
    <2> QED BY <1>2, <1>8, <1>9, <2>1, <2>2, <2>3
  <1>10. \A h \in Game, d \in Conn, o \in SUBSET Game : Viewed(t, g, h, d, o)
    BY <1>9 DEF Viewed
  <1>11. ASSUME NEW d \in Conn, NEW b \in BOOLEAN, Fed(t, g, d), r
         PROVE  Informed(t.wire[d], b)
    <2>1. Informed(s.wire[c] \o <<ack>>, b)
      BY <1>3, <1>4, <1>7, <1>11, InformedMore
    <2> QED BY <1>8, <1>11, <2>1
  <1>12. \A d \in Conn, b \in BOOLEAN : Heard(t, r, g, d, b)
    BY <1>11 DEF Heard
  <1>13. ASSUME NEW x \in Game \ {g}, NEW d \in Conn, Fed(t, x, d)
         PROVE  Fed(s, x, d) /\ t.wire[d] = s.wire[d]
    <2>1. Fed(s, x, d)
      BY <1>5, <1>13 DEF Fed
    <2>2. s.id[d] = x
      BY <2>1, NoneAssumption DEF Fed, Good, Identified
    <2> QED BY <1>5, <2>1, <2>2
  <1>14. Letters(t)
    BY <1>5 DEF Letters
  <1>15. /\ Good(t) /\ Letters(t) /\ t.gdi = s.gdi
         /\ \A h \in Game, d \in Conn, o \in SUBSET Game : Viewed(t, g, h, d, o)
         /\ \A d \in Conn, b \in BOOLEAN : Heard(t, r, g, d, b)
         /\ \A x \in Game \ {g}, d \in Conn : Fed(t, x, d) =>
              Fed(s, x, d) /\ t.wire[d] = s.wire[d]
    BY <1>5, <1>6, <1>10, <1>12, <1>13, <1>14
  <1> HIDE DEF t
  <1> QED BY <1>15 DEF t, ack

LEMMA UpViews ==
  ASSUME NEW s, NEW g \in Game, Good(s), Letters(s), GameQueueMax # 0, Attached(s, g)
  PROVE  LET t == Dispatch(s, ToAllExcept(g, <<[type |-> "gameUp", game |-> g]>>))
         IN /\ Good(t) /\ Letters(t) /\ Hears(s, t)
            /\ \A x \in Game \ {g}, d \in Conn, o \in SUBSET Game : Viewed(t, x, g, d, o)
            /\ \A x, h \in Game, d \in Conn, o \in SUBSET Game :
                 (x = g \/ h # g) /\ Viewed(s, x, h, d, o) => Viewed(t, x, h, d, o)
  <1> DEFINE p == [type |-> "gameUp", game |-> g]
             out == ToAllExcept(g, <<p>>)
             t == DispatchDown(s, {}, out)
  <1>1. p \in Packet
    BY DEF Packet
  <1>2. <<p>> \in Seq(Packet)
    BY <1>1
  <1>3. out \in [Game -> Seq(Packet)]
    BY <1>2, ToTyped
  <1>4. \A x \in Game : out[x] = IF x = g THEN <<>> ELSE <<p>>
    BY DEF ToAllExcept
  <1>5. \A h : Silent(<<>>, h) /\ (h # g => Silent(<<p>>, h))
    BY DEF Silent, Mentions
  <1>6. Good(t)
    BY <1>3, DispatchDownGood
  <1>7. Letters(t)
    BY DownLetters
  <1> HIDE DEF out
  <1>8. ASSUME NEW x \in Game \ {g}, NEW d \in Conn, NEW o \in SUBSET Game
        PROVE  Viewed(t, x, g, d, o)
    <2>1. out[x] = <<[type |-> "gameUp", game |-> g]>>
      BY <1>4
    <2> QED BY <1>3, <2>1, DownViewed
  <1>9. ASSUME NEW x \in Game, NEW h \in Game, NEW d \in Conn, NEW o \in SUBSET Game,
               x = g \/ h # g, Viewed(s, x, h, d, o)
        PROVE  Viewed(t, x, h, d, o)
    <2>1. Silent(out[x], h)
      BY <1>4, <1>5, <1>9
    <2> QED BY <1>3, <1>9, <2>1, DownViewed
  <1>10. ASSUME NEW x \in Game, NEW d \in Conn, NEW r \in BOOLEAN, NEW b \in BOOLEAN,
                Heard(s, r, x, d, b)
         PROVE  Heard(t, r, x, d, b)
    BY <1>3, <1>10, DownHeard
  <1>11. Hears(s, t)
    BY <1>10 DEF Hears
  <1> HIDE DEF t
  <1>12. /\ Good(t) /\ Letters(t) /\ Hears(s, t)
         /\ \A x \in Game \ {g}, d \in Conn, o \in SUBSET Game : Viewed(t, x, g, d, o)
         /\ \A x, h \in Game, d \in Conn, o \in SUBSET Game :
              (x = g \/ h # g) /\ Viewed(s, x, h, d, o) => Viewed(t, x, h, d, o)
    BY <1>6, <1>7, <1>8, <1>9, <1>11
  <1> QED BY <1>12 DEF t, out, Dispatch

LEMMA SetGameIDStays ==
  ASSUME Inv, Letters(Now), GameQueueMax # 0, NEW c \in Conn, NEW g \in Game,
         NEW eids \in Seq(Entity), HandleSetGameID(c, g, eids)
  PROVE  Stays
  <1> DEFINE old    == gdi[g].clientProxy
             named  == Named(c, g)
             freed  == IF old = None THEN named ELSE GameDisconnected(named, old)
             taken  == AdoptProxy(freed, c, g)
             routed == AdoptEntities(taken, g, eids)
             rejected == Rejected(taken, g, eids)
             ack    == [type |-> "setGameIDAck", ready |-> ready,
                        online |-> {h \in Game : routed.gdi[h].clientProxy # None},
                        reject |-> rejected]
             acked  == SendPacket(routed, c, <<ack>>)
             told   == Dispatch(acked, ToAllExcept(g, <<[type |-> "gameUp", game |-> g]>>))
  <1>1. /\ id[c] = None /\ link' = Closed(old)
        /\ CommitAndCheckReady(told, gates)
    BY DEF HandleSetGameID
  <1>2. ready \in BOOLEAN
    BY DEF Inv
  <1> HIDE DEF named, freed, taken, routed, rejected, acked, told
  <1>3. \A d \in Conn : link'[d] = "open" => link[d] = "open"
    BY <1>1 DEF Closed, Inv
  <1>4. /\ Good(named) /\ named.id[c] = g
        /\ old # None => old \in Conn /\ named.id[old] = g
    <2>1. old # None => old \in Conn
      BY NowTyped DEF GameInfo
    <2>2. g \in Game \cup Gate /\ id[c] = None
      BY <1>1
    <2>3. LET s == Named(c, g)
          IN /\ Good(s) /\ s.id = [id EXCEPT ![c] = g] /\ s.gdi = gdi
             /\ s.id[c] = g
             /\ \A t \in Gate : gates[t] # None => gates[t] # c /\ s.id[gates[t]] = t
             /\ \A x \in Game : gdi[x].clientProxy # None =>
                  gdi[x].clientProxy # c /\ s.id[gdi[x].clientProxy] = x
      BY <2>2, NamedGood
    <2>4. Named(c, g) = named
      BY DEF named
    <2> QED BY <2>1, <2>3, <2>4
  <1>5. Keeps(Now, named)
    <2>1. named.edi = Now.edi /\ named.gdi = Now.gdi /\ named.wire = Now.wire
      BY DEF named, Named, Now
    <2>2. Letters(named)
      BY <2>1 DEF Letters
    <2> QED BY <2>1, <2>2, SameViews
  <1> HIDE DEF old
  <1>6. Good(freed) /\ freed.id[c] = g /\ Keeps(named, freed)
    <2>1. CASE old = None
      <3>1. freed = named
        BY <2>1 DEF freed
      <3>2. Keeps(named, named)
        BY <1>5 DEF Keeps, Views, Hears
      <3> QED BY <1>4, <3>1, <3>2
    <2>2. CASE old # None
      <3>1. freed = GameDisconnected(named, old) /\ old \in Conn /\ named.id[old] \in Game
        BY <1>4, <2>2 DEF freed
      <3>2. Letters(named)
        BY <1>5 DEF Keeps
      <3> QED BY <1>4, <3>1, <3>2, GameDisconnectedGood, GameDisconnectedViews
    <2> QED BY <2>1, <2>2
  <1>7. Keeps(Now, freed)
    BY <1>5, <1>6, KeepsTrans
  <1>8. Letters(freed)
    BY <1>7 DEF Keeps
  <1>9. /\ Good(taken) /\ taken.id = freed.id /\ taken.gdi[g].clientProxy = c
        /\ \A h \in Game \ {g} : taken.gdi[h] = freed.gdi[h]
    BY <1>6, AdoptProxyGood DEF taken
  <1>10. /\ Letters(taken)
         /\ \A x \in Game \ {g}, d \in Conn : Fed(taken, x, d) =>
              Fed(freed, x, d) /\ taken.wire[d] = freed.wire[d]
    BY <1>6, <1>8, AdoptProxyViews DEF taken
  <1>11. /\ Good(routed) /\ routed.id = taken.id /\ Proxies(routed) = Proxies(taken)
         /\ Keeps(taken, routed)
    BY <1>9, <1>10, AdoptEntitiesGood, AdoptEntitiesViews DEF routed
  <1>12. routed.id[c] = g /\ routed.gdi[g].clientProxy = c
    BY <1>6, <1>9, <1>11 DEF Proxies
  <1>13. rejected \in SUBSET Entity /\ Letters(routed)
    BY <1>11 DEF rejected, Rejected, ToSet, Keeps
  <1>14. /\ Good(acked) /\ Letters(acked) /\ acked.gdi = routed.gdi
         /\ \A h \in Game, d \in Conn, o \in SUBSET Game : Viewed(acked, g, h, d, o)
         /\ \A d \in Conn, b \in BOOLEAN : Heard(acked, ready, g, d, b)
         /\ \A x \in Game \ {g}, d \in Conn : Fed(acked, x, d) =>
              Fed(routed, x, d) /\ acked.wire[d] = routed.wire[d]
    BY <1>2, <1>11, <1>12, <1>13, AckViews DEF acked
  <1>15. Attached(acked, g)
    BY <1>12, <1>14, NoneAssumption DEF Attached
  <1>16. /\ Good(told) /\ Letters(told) /\ Hears(acked, told)
         /\ \A x \in Game \ {g}, d \in Conn, o \in SUBSET Game : Viewed(told, x, g, d, o)
         /\ \A x, h \in Game, d \in Conn, o \in SUBSET Game :
              (x = g \/ h # g) /\ Viewed(acked, x, h, d, o) => Viewed(told, x, h, d, o)
    BY <1>14, <1>15, UpViews DEF told
  <1>17. ASSUME NEW x \in Game, NEW h \in Game, NEW d \in Conn, NEW o \in SUBSET Game,
                x # g, h # g, Viewed(Now, x, h, d, o)
         PROVE  Viewed(acked, x, h, d, o)
    <2>1. Viewed(freed, x, h, d, o)
      BY <1>7, <1>17 DEF Keeps, Views
    <2>2. Viewed(taken, x, h, d, o)
      BY <1>9, <1>10, <1>17, <2>1 DEF Viewed, Attached
    <2>3. Viewed(routed, x, h, d, o)
      BY <1>11, <2>2 DEF Keeps, Views
    <2> QED BY <1>14, <1>17, <2>3 DEF Viewed, Attached
  <1>18. Views(Now, told)
    <2> SUFFICES ASSUME NEW x \in Game, NEW h \in Game, NEW d \in Conn, NEW o \in SUBSET Game,
                        Viewed(Now, x, h, d, o)
                 PROVE  Viewed(told, x, h, d, o)
      BY DEF Views
    <2>1. CASE x = g
      BY <1>14, <1>16, <2>1
    <2>2. CASE x # g /\ h = g
      BY <1>16, <2>2
    <2>3. CASE x # g /\ h # g
      BY <1>16, <1>17, <2>3
    <2> QED BY <2>1, <2>2, <2>3
  <1>19. ASSUME NEW x \in Game, NEW d \in Conn, NEW b \in BOOLEAN, Heard(Now, ready, x, d, b)
         PROVE  Heard(told, ready, x, d, b)
    <2>1. Heard(acked, ready, x, d, b)
      <3>1. CASE x = g
        BY <1>14, <3>1
      <3>2. CASE x # g
        <4>1. Heard(freed, ready, x, d, b)
          BY <1>2, <1>7, <1>19 DEF Keeps, Hears
        <4>2. Heard(taken, ready, x, d, b)
          BY <1>10, <3>2, <4>1 DEF Heard
        <4>3. Heard(routed, ready, x, d, b)
          BY <1>2, <1>11, <4>2 DEF Keeps, Hears
        <4> QED BY <1>14, <3>2, <4>3 DEF Heard
      <3> QED BY <3>1, <3>2
    <2> QED BY <1>2, <1>16, <2>1 DEF Hears
  <1> QED BY <1>1, <1>2, <1>3, <1>16, <1>18, <1>19, ReadyStays

\* Whatever the dispatcher handles, nothing that games were or will be told gets wrong.
LEMMA ServeStays ==
  ASSUME Peers, Letters(Now), GameQueueMax # 0, NEW c \in Conn, Serve(c)
  PROVE  Stays
  <1> DEFINE m == Head(inbox[c])
  <1>1. m \in Request /\ Inv
    <2>1. inbox[c] \in Seq(Request) /\ inbox[c] # <<>>
      BY DEF Serve, Peers
    <2> QED BY <2>1 DEF Peers
  <1>2. CASE m.type = "setGameID" /\ m.game \in Game /\ m.entities \in Reports
    <2>1. HandleSetGameID(c, m.game, m.entities)
      BY <1>2 DEF Serve
    <2> HIDE DEF m
    <2> QED BY <1>1, <1>2, <2>1, SetGameIDStays, ReportsTyped
  <1>3. CASE m.type = "notify" /\ m.entity \in Entity
    <2>1. HandleNotifyCreateEntity(c, m.entity)
      BY <1>3 DEF Serve
    <2> HIDE DEF m
    <2> QED BY <1>1, <1>3, <2>1, NotifyCreateStays
  <1>4. CASE m.type = "destroy" /\ m.entity \in Entity
    <2>1. HandleNotifyDestroyEntity(c, m.entity)
      BY <1>4 DEF Serve
    <2> HIDE DEF m
    <2> QED BY <1>1, <1>4, <2>1, NotifyDestroyStays
  <1>5. CASE m.type = "load" /\ m.entity \in Entity
    <2>1. HandleLoadEntitySomewhere(c, m.entity, None)
      BY <1>5 DEF Serve
    <2> HIDE DEF m
    <2> QED BY <1>1, <1>5, <2>1, LoadStays
  <1>6. CASE m.type = "create" /\ m.entity \in Entity
    <2>1. HandleCreateEntitySomewhere(c, m.entity, None)
      BY <1>6 DEF Serve
    <2> HIDE DEF m
    <2> QED BY <1>1, <1>6, <2>1, CreateStays
  <1>7. CASE m.type = "call" /\ m.entity \in Entity
    <2>1. HandleCallEntityMethod(c, m.entity)
      BY <1>7 DEF Serve
    <2> HIDE DEF m
    <2> QED BY <1>1, <1>7, <2>1, CallStays
  <1>8. CASE m.type = "cancel" /\ m.entity \in Entity
    <2>1. HandleCancelMigrate(c, m.entity)
      BY <1>8 DEF Serve
    <2> HIDE DEF m
    <2> QED BY <1>1, <1>8, <2>1, CancelMigrateStays
  <1>9. CASE m.type = "freeze"
    <2>1. HandleStartFreezeGame(c)
      BY <1>9 DEF Serve
    <2> HIDE DEF m
    <2> QED BY <1>1, <1>9, <2>1, StartFreezeStays
  <1>10. CASE m.type = "query" /\ m.entity \in Entity /\ m.space \in Entity
    <2>1. HandleQuerySpaceGameIDForMigrate(c, m.entity, m.space)
      BY <1>10 DEF Serve
    <2> HIDE DEF m
    <2> QED BY <1>1, <1>10, <2>1, QuerySpaceStays
  <1>11. CASE /\ m.type = "migrate" /\ m.entity \in Entity /\ m.space \in Entity
              /\ m.game \in Game \cup {None}
    <2>1. HandleMigrateRequest(c, m.entity, m.space, m.game)
      BY <1>11 DEF Serve
    <2> HIDE DEF m
    <2> QED BY <1>1, <1>11, <2>1, MigrateRequestStays
  <1>12. CASE m.type = "real" /\ m.entity \in Entity /\ m.game \in Game \cup {None}
    <2>1. HandleRealMigrate(c, m.entity, m.game)
      BY <1>12 DEF Serve
    <2> HIDE DEF m
    <2> QED BY <1>1, <1>12, <2>1, RealMigrateStays
  <1> HIDE DEF m
  <1> QED BY <1>1, <1>2, <1>3, <1>4, <1>5, <1>6, <1>7, <1>8, <1>9, <1>10, <1>11, <1>12,
             RequestKinds

\* A connection in use was accepted, and no two games have the same.
Linked ==
  /\ \A g \in Game : cur[g] # None => link[cur[g]] # "unused"
  /\ \A g \in Game : gdi[g].clientProxy # None => link[gdi[g].clientProxy] # "unused"
  /\ \A g, h \in Game : cur[g] # None /\ cur[g] = cur[h] => g = h

\* What g will know when it has read what is on c is right.
Knows(g, c) ==
  /\ \A h \in Game : Viewed(Now, g, h, c, online[g])
  /\ Heard(Now, ready, g, c, deployed[g])

Sight ==
  /\ Letters(Now) /\ Linked
  /\ \A g \in Game, c \in Conn : cur[g] = c => Knows(g, c)

SightInv == Peers /\ Records /\ Sight

\* A connection is accepted once.
LEMMA AcceptedOnce ==
  ASSUME Inv, [Next]_vars, NEW c \in Conn, link[c] # "unused"
  PROVE  link'[c] # "unused"
  <1>1. CASE link' = link
    BY <1>1
  <1>2. ASSUME NEW d, link' = Closed(d) PROVE link'[c] # "unused"
    BY <1>2 DEF Closed, Inv
  <1>3. ASSUME NEW d \in Conn, Message(d) PROVE link'[c] # "unused"
    <2>1. \/ link' = link
          \/ \E g \in Game, eids \in Reports : HandleSetGameID(d, g, eids)
          \/ \E t \in Gate : HandleSetGateID(d, t)
      BY <1>3, Zenon
         DEF Message, HandleCallNilSpaces, HandleNotifyClientConnected,
             HandleStartFreezeGame, HandleNotifyCreateEntity, HandleNotifyDestroyEntity,
             HandleCallEntityMethod, HandleQuerySpaceGameIDForMigrate,
             HandleCancelMigrate, HandleSyncPositionYawFromClient,
             HandleLoadEntitySomewhere, HandleCreateEntitySomewhere,
             HandleMigrateRequest, HandleRealMigrate
    <2>2. ASSUME NEW g \in Game, NEW eids, HandleSetGameID(d, g, eids)
          PROVE  link'[c] # "unused"
      BY <1>2, <2>2 DEF HandleSetGameID
    <2>3. ASSUME NEW t \in Gate, HandleSetGateID(d, t) PROVE link'[c] # "unused"
      BY <1>2, <2>3 DEF HandleSetGateID
    <2> QED BY <1>1, <2>1, <2>2, <2>3
  <1>4. ASSUME NEW d \in Conn, Network(d) PROVE link'[c] # "unused"
    <2>1. link' = link \/ \E k \in {"open", "closed", "gone"} : link' = [link EXCEPT ![d] = k]
      BY <1>4 DEF Network, Accept, Break, Read, HandleDispatcherClientDisconnect
    <2> QED BY <2>1 DEF Inv
  <1>5. CASE \/ \E e \in Entity : EntityBlockTimesOut(e)
             \/ \E g \in Game : GameBlockTimesOut(g)
             \/ SendEntitySyncInfosToGames
             \/ UNCHANGED vars
    BY <1>1, <1>5
       DEF EntityBlockTimesOut, GameBlockTimesOut, SendEntitySyncInfosToGames, vars
  <1> QED BY <1>3, <1>4, <1>5 DEF Next

\* A game gets no connection from the dispatcher that was not accepted.
LEMMA ProxyAccepted ==
  ASSUME Inv, [Next]_vars, NEW g \in Game, gdi'[g].clientProxy # gdi[g].clientProxy
  PROVE  gdi'[g].clientProxy = None \/ link[gdi'[g].clientProxy] # "unused"
  <1>1. CASE Connected
    BY <1>1 DEF Connected
  <1>2. ASSUME NEW c \in Conn, HandleDispatcherClientDisconnect(c), ~Connected
        PROVE  gdi'[g].clientProxy \in {None, gdi[g].clientProxy}
    <2>1. id[c] \in Game /\ Commit(GameDisconnected(Now, c))
      BY <1>2, DisconnectKeeps
    <2>2. Good(Now) /\ Now.id = id /\ Now.gdi = gdi
      BY NowTyped DEF Inv
    <2>3. LET t == GameDisconnected(Now, c)
          IN \A h \in Game : t.gdi[h].clientProxy \in {None, gdi[h].clientProxy}
      BY <2>1, <2>2, GameDisconnectedGood
    <2> QED BY <2>1, <2>3 DEF Commit
  <1>3. ASSUME NEW c \in Conn, Message(c) PROVE Connected
    BY <1>3, MessageKeeps
  <1>4. ASSUME NEW c \in Conn, Accept(c) \/ Break(c) \/ Read(c) PROVE Connected
    BY <1>4, AcceptKeeps, BreakKeeps, ReadKeeps
  <1>5. CASE \/ \E e \in Entity : EntityBlockTimesOut(e)
             \/ \E h \in Game : GameBlockTimesOut(h)
             \/ SendEntitySyncInfosToGames
    BY <1>1, <1>5, EntityBlockKeeps, GameBlockKeeps, FlushKeeps
  <1>6. CASE UNCHANGED vars
    BY <1>6 DEF vars
  <1> QED BY <1>1, <1>2, <1>3, <1>4, <1>5, <1>6 DEF Next, Network

LEMMA LinkedStep ==
  ASSUME Peers, Peers', [Next]_vars, Linked, cur' = cur
  PROVE  Linked'
  <1>1. Inv /\ \A c \in Conn : link[c] # "unused" => link'[c] # "unused"
    BY AcceptedOnce DEF Peers
  <1>2. \A g \in Game : cur[g] \in Conn \cup {None}
    BY DEF Peers
  <1>3. ASSUME NEW g \in Game, gdi'[g].clientProxy # None
        PROVE  link'[gdi'[g].clientProxy] # "unused"
    <2>1. gdi' \in [Game -> GameInfo]
      BY DEF Peers, Inv, Good, Snapshot, Now
    <2>2. gdi'[g].clientProxy \in Conn
      BY <1>3, <2>1 DEF GameInfo
    <2>3. link[gdi'[g].clientProxy] # "unused"
      BY <1>1, <1>3, ProxyAccepted DEF Linked
    <2> QED BY <1>1, <2>2, <2>3
  <1> QED BY <1>1, <1>2, <1>3 DEF Linked

LEMMA SightStays ==
  ASSUME Peers, Records, Sight, Peers', [Next]_vars, Stays,
         UNCHANGED <<cur, online, deployed>>
  PROVE  Sight'
  <1>1. Letters(Now)' /\ Linked'
    BY LinkedStep DEF Stays, Sight
  <1>2. ASSUME NEW g \in Game, NEW c \in Conn, cur'[g] = c
        PROVE  Knows(g, c)'
    <2>1. Knows(g, c)
      BY <1>2 DEF Sight
    <2>2. PICK o \in SUBSET Game : o = online[g]
      BY DEF Records
    <2>3. PICK d \in BOOLEAN : d = deployed[g]
      BY DEF Records
    <2>4. \A h \in Game : Viewed(Now, g, h, c, o)'
      BY <2>1, <2>2 DEF Knows, Stays
    <2>5. Heard(Now, ready, g, c, d)'
      BY <2>1, <2>3 DEF Knows, Stays
    <2>6. online'[g] = o /\ deployed'[g] = d
      BY <2>2, <2>3
    <2> QED BY <2>4, <2>5, <2>6 DEF Knows
  <1> QED BY <1>1, <1>2 DEF Sight

LEMMA StutterStays ==
  ASSUME UNCHANGED vars, Letters(Now)
  PROVE  Stays
  <1>1. edi' = edi /\ gdi' = gdi /\ wire' = wire /\ id' = id /\ link' = link /\ ready' = ready
    BY DEF vars
  <1>2. Now' = Now
    BY <1>1 DEF Now
  <1>3. Letters(Now)'
    BY <1>2 DEF Letters
  <1>4. \A g \in Game, c \in Conn : Fed(Now, g, c)' <=> Fed(Now, g, c)
    BY <1>1, <1>2 DEF Fed
  <1> QED BY <1>1, <1>2, <1>3, <1>4 DEF Stays, Viewed, Heard, Attached

\* A game that stops, with or without its freeze file, takes its connection with it.
LEMMA StopSight ==
  ASSUME Peers, Records, Sight, GameQueueMax # 0, NEW g \in Game,
         Crash(g) \/ DoFreeze(g) \/ BreakConn(g)
  PROVE  Sight'
  <1>1. Peers' /\ [Next]_vars
    BY StopPeers
  <1>2. UNCHANGED <<cur, online, deployed>>
    BY DEF Crash, DoFreeze, Exit, BreakConn, gameVars
  <1>3. UNCHANGED vars \/ \E c \in Conn : Break(c)
    <2>1. ASSUME NEW state, NEW file, Exit(g, state, file)
          PROVE  UNCHANGED vars \/ \E c \in Conn : Break(c)
      BY <2>1, ExitBreaks
    <2>2. CASE Crash(g) \/ DoFreeze(g)
      BY <2>1, <2>2 DEF Crash, DoFreeze
    <2>3. CASE BreakConn(g)
      BY <2>3 DEF BreakConn, Peers
    <2> QED BY <2>2, <2>3
  <1>4. Stays
    <2>1. Inv /\ Letters(Now)
      BY DEF Peers, Sight
    <2> QED BY <1>3, <2>1, StutterStays, QuietStays
  <1> QED BY <1>1, <1>2, <1>4, SightStays

\* A game that starts knows nothing, and is told nothing before it connects.
LEMMA StartSight ==
  ASSUME Peers, Records, Sight, NEW g \in Game, Start(g)
  PROVE  Sight'
  <1>1. /\ UNCHANGED vars /\ cur' = [cur EXCEPT ![g] = None]
        /\ online' = [online EXCEPT ![g] = {}] /\ deployed' = [deployed EXCEPT ![g] = FALSE]
    BY DEF Start
  <1>2. /\ cur'[g] = None
        /\ \A x \in Game \ {g} : /\ cur'[x] = cur[x] /\ online'[x] = online[x]
                                 /\ deployed'[x] = deployed[x]
    BY <1>1 DEF Peers, Records
  <1>3. Letters(Now) /\ Linked /\ Stays
    BY <1>1, StutterStays DEF Sight
  <1>4. link' = link /\ gdi' = gdi
    BY <1>1 DEF vars
  <1>5. Linked'
    BY <1>2, <1>3, <1>4 DEF Linked
  <1>6. ASSUME NEW x \in Game, NEW c \in Conn, cur'[x] = c
        PROVE  Knows(x, c)'
    <2>1. x # g
      BY <1>2, <1>6, NoneAssumption
    <2>2. Knows(x, c)
      BY <1>2, <1>6, <2>1 DEF Sight
    <2>3. PICK o \in SUBSET Game : o = online[x]
      BY DEF Records
    <2>4. PICK d \in BOOLEAN : d = deployed[x]
      BY DEF Records
    <2>5. (\A h \in Game : Viewed(Now, x, h, c, o)') /\ Heard(Now, ready, x, c, d)'
      BY <1>3, <2>2, <2>3, <2>4 DEF Knows, Stays
    <2>6. online'[x] = o /\ deployed'[x] = d
      BY <1>2, <2>1, <2>3, <2>4
    <2> QED BY <2>5, <2>6 DEF Knows
  <1> QED BY <1>3, <1>5, <1>6 DEF Sight, Stays

\* On a connection that is new, the dispatcher sends nothing until SET_GAME_ID.
LEMMA ConnectSight ==
  ASSUME Peers, Records, Sight, NEW g \in Game, Connect(g)
  PROVE  Sight'
  <1>1. PICK c \in Conn : Accept(c) /\ cur' = [cur EXCEPT ![g] = c]
    BY DEF Connect, NextConn
  <1>2. /\ link[c] = "unused" /\ link' = [link EXCEPT ![c] = "open"] /\ Now' = Now
        /\ gdi' = gdi /\ ready' = ready
    BY <1>1 DEF Accept, Now
  <1>3. /\ cur'[g] = c /\ online' = online /\ deployed' = deployed
        /\ \A x \in Game \ {g} : cur'[x] = cur[x]
    BY <1>1 DEF Connect, Peers
  <1>4. Linked /\ Letters(Now)' /\ link \in [Conn -> {"unused", "open", "closed", "gone"}]
    BY <1>2 DEF Sight, Letters, Peers, Inv
  <1>5. \A x \in Game : /\ cur[x] \in Conn \cup {None} /\ gdi[x].clientProxy \in Conn \cup {None}
                        /\ cur[x] # c /\ gdi[x].clientProxy # c
    <2>1. \A x \in Game : cur[x] \in Conn \cup {None} /\ gdi[x].clientProxy \in Conn \cup {None}
      BY NowTyped DEF Peers, GameInfo
    <2> QED BY <1>2, <1>4, <2>1, NoneAssumption DEF Linked
  <1>6. Linked'
    <2>1. link'[c] # "unused" /\ \A d \in Conn : d # c => link'[d] = link[d]
      BY <1>2, <1>4
    <2>2. \A x \in Game : cur'[x] # None => link'[cur'[x]] # "unused"
      BY <1>3, <1>4, <1>5, <2>1 DEF Linked
    <2>3. \A x \in Game : gdi'[x].clientProxy # None => link'[gdi'[x].clientProxy] # "unused"
      BY <1>2, <1>4, <1>5, <2>1 DEF Linked
    <2>4. \A x, y \in Game : cur'[x] # None /\ cur'[x] = cur'[y] => x = y
      BY <1>3, <1>4, <1>5 DEF Linked
    <2> QED BY <2>2, <2>3, <2>4 DEF Linked
  <1>7. ASSUME NEW x \in Game, NEW d \in Conn, cur'[x] = d
        PROVE  Knows(x, d)'
    <2>1. Fed(Now, x, d)' => d # c
      BY <1>2, <1>5, NowTyped DEF Fed, Peers
    <2>2. d # c => cur[x] = d /\ (Fed(Now, x, d)' <=> Fed(Now, x, d))
      BY <1>2, <1>3, <1>4, <1>7 DEF Fed
    <2>3. d # c => Knows(x, d)
      BY <2>2 DEF Sight
    <2>4. CASE d # c
      BY <1>2, <1>3, <2>2, <2>3, <2>4 DEF Knows, Viewed, Heard, Attached
    <2>5. CASE d = c
      BY <2>1, <2>5 DEF Knows, Viewed, Heard
    <2> QED BY <2>4, <2>5
  <1> QED BY <1>4, <1>6, <1>7 DEF Sight

\* What a game makes of a packet is what the packet says.
LEMMA HandleLearns ==
  ASSUME Records, NEW g \in Game, NEW p \in Packet, Handle(g, p)
  PROVE  /\ \A x \in Game \ {g} : online'[x] = online[x] /\ deployed'[x] = deployed[x]
         /\ \A h \in Game : h \in online'[g] <=>
              IF Mentions(p, h) THEN Shows(p, h) ELSE h \in online[g]
         /\ deployed'[g] <=> deployed[g] \/ Informs(p)
  <1>1. CASE p.type = "setGameIDAck" /\ OnSetGameIDAck(g, p)
    <2>1. /\ online' = [online EXCEPT ![g] = p.online]
          /\ deployed' = [deployed EXCEPT ![g] = deployed[g] \/ p.ready]
      BY <1>1 DEF OnSetGameIDAck, Learned
    <2>2. \A h : Mentions(p, h) /\ (Shows(p, h) <=> h \in p.online)
      BY <1>1 DEF Mentions, Shows
    <2>3. Informs(p) <=> p.ready
      BY <1>1 DEF Informs
    <2> QED BY <2>1, <2>2, <2>3 DEF Records
  <1>2. CASE p.type = "ready" /\ OnNotifyDeploymentReady(g)
    <2>1. UNCHANGED online /\ deployed' = [deployed EXCEPT ![g] = TRUE]
      BY <1>2 DEF OnNotifyDeploymentReady
    <2> QED BY <1>2, <2>1 DEF Mentions, Informs, Records
  <1>3. CASE \/ p.type = "create" /\ OnCreateEntitySomewhere(g, p.entity)
             \/ p.type = "load" /\ OnLoadEntitySomewhere(g, p.entity)
             \/ p.type = "call" /\ OnCall(g, p)
             \/ p.type = "freezeAck" /\ OnStartFreezeGameAck(g)
    <2>1. UNCHANGED <<online, deployed>>
      BY <1>3 DEF OnCreateEntitySomewhere, OnLoadEntitySomewhere, OnCall, OnStartFreezeGameAck
    <2> QED BY <1>3, <2>1 DEF Mentions, Informs
  <1>4. CASE p.type = "gameUp" /\ OnGameConnected(g, p.game)
    <2>1. UNCHANGED deployed /\ online' = [online EXCEPT ![g] = @ \cup {p.game}]
      BY <1>4 DEF OnGameConnected
    <2>2. \A h : (Mentions(p, h) <=> h = p.game) /\ Shows(p, h)
      BY <1>4 DEF Mentions, Shows
    <2> QED BY <1>4, <2>1, <2>2 DEF Informs, Records
  <1>5. CASE p.type = "gameDown" /\ OnGameDisconnected(g, p.games)
    <2>1. UNCHANGED deployed /\ online' = [online EXCEPT ![g] = @ \ p.games]
      BY <1>5 DEF OnGameDisconnected
    <2>2. \A h : (Mentions(p, h) <=> h \in p.games) /\ ~ Shows(p, h)
      BY <1>5 DEF Mentions, Shows
    <2> QED BY <1>5, <2>1, <2>2 DEF Informs, Records
  <1> QED BY <1>1, <1>2, <1>3, <1>4, <1>5 DEF Handle

\* Reading a packet moves what it says from the connection to the game.
LEMMA HandleSight ==
  ASSUME Peers, Records, Sight, NEW g \in Game, HandlePacket(g)
  PROVE  Sight'
  <1>1. PICK c \in Conn : c = cur[g]
    BY DEF HandlePacket, Peers
  <1> DEFINE p == Head(wire[c])
  <1>2. /\ wire[c] # <<>> /\ wire' = [wire EXCEPT ![c] = Tail(wire[c])] /\ Handle(g, p)
        /\ UNCHANGED <<edi, gdi, link, ready, cur>>
    BY <1>1 DEF HandlePacket, Read
  <1>3. Peers' /\ [Next]_vars /\ p \in Packet /\ wire[c] \in Seq(Packet)
        /\ wire \in [Conn -> Seq(Packet)]
    BY <1>1, HandlePeers, ReadPeers, NowTyped DEF HandlePacket, Peers
  <1>4. wire'[c] = Tail(wire[c]) /\ \A d \in Conn : d # c => wire'[d] = wire[d]
    BY <1>2, <1>3
  <1>5. /\ \A x \in Game \ {g} : online'[x] = online[x] /\ deployed'[x] = deployed[x]
        /\ \A h \in Game : h \in online'[g] <=>
             IF Mentions(p, h) THEN Shows(p, h) ELSE h \in online[g]
        /\ deployed'[g] <=> deployed[g] \/ Informs(p)
    BY <1>2, <1>3, HandleLearns
  <1>6. /\ Now.edi = edi /\ Now.gdi = gdi /\ Now.wire = wire
        /\ Now'.edi = edi' /\ Now'.gdi = gdi' /\ Now'.wire = wire'
    BY DEF Now
  <1>7. \A x \in Game, d \in Conn : Fed(Now, x, d)' <=> Fed(Now, x, d)
    BY <1>2, <1>6 DEF Fed
  <1>8. \A x \in Game : Attached(Now, x)' <=> Attached(Now, x)
    BY <1>2, <1>6 DEF Attached
  <1>9. Linked' /\ Letters(Now)'
    <2>1. Linked'
      BY <1>2, <1>3, LinkedStep DEF Sight
    <2>2. Letters(Now)'
      BY <1>2, <1>6 DEF Sight, Letters
    <2> QED BY <2>1, <2>2
  <1>10. Knows(g, c)'
    <2>1. Knows(g, c)
      BY <1>1 DEF Sight
    <2>2. \A h \in Game : Seen(wire'[c], h, h \in online'[g]) <=> Seen(wire[c], h, h \in online[g])
      <3> TAKE h \in Game
      <3> DEFINE v == h \in online[g]
                 w == IF Mentions(p, h) THEN Shows(p, h) ELSE v
      <3>1. Seen(wire[c], h, v) <=> Seen(Tail(wire[c]), h, w)
        BY <1>2, <1>3, SeenTail
      <3>2. h \in online'[g] <=> w
        BY <1>5
      <3> HIDE DEF w
      <3>3. Seen(Tail(wire[c]), h, h \in online'[g]) <=> Seen(Tail(wire[c]), h, w)
        BY <3>2 DEF Seen
      <3> QED BY <1>4, <3>1, <3>3
    <2>3. Informed(wire[c], deployed[g]) => Informed(wire'[c], deployed'[g])
      <3> SUFFICES ASSUME Informed(wire[c], deployed[g]) PROVE Informed(wire'[c], deployed'[g])
        OBVIOUS
      <3>1. Informed(Tail(wire[c]), deployed[g] \/ Informs(p))
        BY <1>2, <1>3, InformedTail
      <3> QED BY <1>4, <1>5, <3>1 DEF Informed
    <2> HIDE DEF p
    <2> QED BY <1>2, <1>6, <1>7, <1>8, <2>1, <2>2, <2>3 DEF Knows, Viewed, Heard
  <1>11. ASSUME NEW x \in Game, NEW d \in Conn, cur'[x] = d, x # g
         PROVE  Knows(x, d)'
    <2>1. cur[x] = d /\ d # c
      BY <1>1, <1>2, <1>11, NoneAssumption DEF Sight, Linked
    <2>2. Knows(x, d)
      BY <2>1 DEF Sight
    <2>3. wire'[d] = wire[d] /\ online'[x] = online[x] /\ deployed'[x] = deployed[x]
      BY <1>4, <1>5, <1>11, <2>1
    <2> QED BY <1>2, <1>6, <1>7, <1>8, <2>2, <2>3 DEF Knows, Viewed, Heard
  <1>12. \A x \in Game, d \in Conn : cur'[x] = d => Knows(x, d)'
    BY <1>1, <1>2, <1>10, <1>11
  <1> QED BY <1>9, <1>12 DEF Sight

\* Nothing a game does on its own changes what it knows.
LEMMA AloneSight ==
  ASSUME Peers, Records, Sight, Peers', UNCHANGED <<vars, cur, online, deployed>>
  PROVE  Sight'
  <1>1. Stays
    BY StutterStays DEF Sight
  <1> QED BY <1>1, SightStays

LEMMA SightStep ==
  ASSUME SightInv, GameQueueMax # 0, [CNext]_cvars
  PROVE  SightInv'
  <1>1. Peers /\ Records /\ Sight /\ Inv /\ Letters(Now)
    BY DEF SightInv, Peers, Sight
  <1>2. Peers' /\ [Next]_vars /\ Records'
    BY <1>1, ClusterStep, RecordsStep
  <1>3. ASSUME Stays, UNCHANGED gameVars PROVE Sight'
    BY <1>1, <1>2, <1>3, SightStays DEF gameVars
  <1>4. ASSUME UNCHANGED <<vars, cur, online, deployed>> PROVE Sight'
    BY <1>1, <1>2, <1>4, AloneSight
  <1>5. ASSUME NEW c \in Conn, Serve(c) PROVE Sight'
    BY <1>1, <1>3, <1>5, ServeStays DEF Serve
  <1>6. ASSUME NEW c \in Conn, Disconnected(c) PROVE Sight'
    BY <1>1, <1>3, <1>6, DisconnectStays DEF Disconnected
  <1>7. ASSUME NEW e \in Entity, EntityTimeout(e) PROVE Sight'
    BY <1>1, <1>3, <1>7, QuietStays DEF EntityTimeout
  <1>8. ASSUME NEW g \in Game, GameTimeout(g) PROVE Sight'
    BY <1>1, <1>3, <1>8, QuietStays DEF GameTimeout
  <1>9. ASSUME NEW g \in Game, Connect(g) PROVE Sight'
    BY <1>1, <1>9, ConnectSight
  <1>10. ASSUME NEW g \in Game, Start(g) PROVE Sight'
    BY <1>1, <1>10, StartSight
  <1>11. ASSUME NEW g \in Game, Crash(g) \/ DoFreeze(g) \/ BreakConn(g) PROVE Sight'
    BY <1>1, <1>11, StopSight
  <1>12. ASSUME NEW g \in Game, HandlePacket(g) PROVE Sight'
    BY <1>1, <1>12, HandleSight
  <1>13. ASSUME NEW g \in Game,
                TakeSnapshot(g) \/ Register(g) \/ StartFreeze(g) \/ FreezeFails(g)
         PROVE  Sight'
    BY <1>4, <1>13 DEF TakeSnapshot, Register, StartFreeze, FreezeFails, Ask, gameVars
  <1>14. ASSUME NEW g \in Game, NEW e \in Entity,
                \/ CreateEntity(g, e) \/ CreateEntitySomewhere(g, e) \/ DestroyEntity(g, e)
                \/ LoadEntityAnywhere(g, e) \/ Loaded(g, e) \/ LoadFailed(g, e)
                \/ Call(g, e)
         PROVE  Sight'
    BY <1>4, <1>14 DEF CreateEntity, CreateEntitySomewhere, DestroyEntity, LoadEntityAnywhere,
       Loaded, LoadFailed, Call, Ask, gameVars
  <1>15. ASSUME UNCHANGED cvars PROVE Sight'
    BY <1>4, <1>15 DEF cvars, gameVars
  <1>16. Sight'
    BY <1>5, <1>6, <1>7, <1>8, <1>9, <1>10, <1>11, <1>12, <1>13, <1>14, <1>15 DEF CNext
  <1> QED BY <1>2, <1>16 DEF SightInv

LEMMA SightInit == CInit => SightInv
  <1> SUFFICES ASSUME CInit PROVE SightInv
    OBVIOUS
  <1>1. Peers /\ Records
    BY ClusterInit DEF ClusterInv
  <1>2. Letters(Now)
    <2>1. <<>> \in Seq(Plain) /\ Now.edi = edi
      BY DEF Now
    <2>2. \A e \in Entity : edi[e].pending = <<>>
      BY DEF CInit, Init, NoEntityInfo
    <2> QED BY <2>1, <2>2 DEF Letters
  <1>3. (\A g \in Game : cur[g] = None) /\ \A g \in Game : gdi[g].clientProxy = None
    BY DEF CInit, Init, NoGameInfo
  <1>4. Linked
    BY <1>3 DEF Linked
  <1>5. \A g \in Game, c \in Conn : cur[g] # c
    BY <1>3, NoneAssumption
  <1> QED BY <1>1, <1>2, <1>4, <1>5 DEF Sight, SightInv

\* Once everything is read, what a game will know is what it knows.
LEMMA SightView == SightInv => ClusterView
  <1> SUFFICES ASSUME SightInv, NEW g \in Game, UpToDate(g)
               PROVE  /\ {h \in Game : gdi[h].clientProxy # None} \subseteq online[g]
                      /\ online[g] \subseteq
                           {h \in Game : gdi[h].clientProxy # None \/ gdi[h].isBlocked}
                      /\ ready => deployed[g]
    BY DEF ClusterView, OnlineView, ReadyView
  <1>1. Now.gdi = gdi /\ Now.wire = wire
    BY DEF Now
  <1>2. PICK c \in Conn : c = cur[g]
    BY DEF UpToDate, SightInv, Peers
  <1>3. Knows(g, c) /\ Fed(Now, g, c) /\ wire[c] = <<>>
    BY <1>1, <1>2 DEF UpToDate, SightInv, Sight, Fed
  <1>4. \A h \in Game : Seen(wire[c], h, h \in online[g]) <=> h \in online[g]
    BY <1>3 DEF Seen, Silent
  <1>5. Informed(wire[c], deployed[g]) => deployed[g]
    BY <1>3 DEF Informed
  <1>6. online[g] \subseteq Game
    BY DEF SightInv, Records
  <1>7. \A h \in Game : /\ gdi[h].clientProxy # None => h \in online[g]
                        /\ h \in online[g] => gdi[h].clientProxy # None \/ gdi[h].isBlocked
    BY <1>1, <1>3, <1>4 DEF Knows, Viewed, Attached
  <1>8. ready => deployed[g]
    BY <1>1, <1>3, <1>5 DEF Knows, Heard
  <1> QED BY <1>6, <1>7, <1>8

-----------------------------------------------------------------------------
(* One copy of an entity                                                    *)

\* A game that announces itself lists e.
Lists(m, e) == m.type = "setGameID" /\ e \in ToSet(m.entities)

\* What the dispatcher has yet to read from the process of g, unless it counts as late,
\* and what g has yet to read.
Sent(g) == IF cur[g] # None /\ link[cur[g]] # "gone" THEN inbox[cur[g]] ELSE <<>>
Got(g) == IF cur[g] # None THEN wire[cur[g]] ELSE <<>>
Wait(g) == gdi[g].pending

\* What makes g the game of e: e lives there, or will once it is loaded from the storage,
\* the load or creation is on its way or held, its end has not been reported yet; or its
\* coming has not, with the list of SET_GAME_ID or one by one.
Has(g, e) == e \in live[g] \cup dump[g]
Loads(g, e) == loading[g][e] > 0
Listed(g, e) == \/ reg[g] = "listed" /\ e \in snap[g]
                \/ \E i \in 1 .. Len(Sent(g)) : Lists(Sent(g)[i], e)
Coming(g, e) == Loads(g, e) \/ Bids(Got(g), e) # {} \/ Bids(Wait(g), e) # {}
Claims(g, e) == \/ Has(g, e) \/ Coming(g, e) \/ Ends(Sent(g), e) # {}
                \/ Notes(Sent(g), e) # {} \/ Listed(g, e)
Noted(e) == \E c \in Conn : Notes(inbox[c], e) # {}
Made(e) == \E c \in Conn : Makes(inbox[c], e) # {}

\* The dispatcher does not speak to the process of g.
Away(g) == cur[g] = None \/ gdi[g].clientProxy # cur[g]

\* No two games have a claim to e, and none has two, but for reports of what it has.
Apart == \A g, h \in Game, e \in Entity : Claims(g, e) /\ Claims(h, e) => g = h
Alone(g, e) ==
  /\ loading[g][e] <= 1
  /\ One(Bids(Got(g), e)) /\ One(Bids(Wait(g), e)) /\ One(Ends(Sent(g), e))
  /\ Has(g, e) => ~ Coming(g, e) /\ Ends(Sent(g), e) = {}
  /\ Loads(g, e) => Bids(Got(g), e) = {} /\ Bids(Wait(g), e) = {} /\ Ends(Sent(g), e) = {}
  /\ Bids(Got(g), e) # {} => Bids(Wait(g), e) = {} /\ Ends(Sent(g), e) = {}
  /\ Bids(Wait(g), e) # {} => Ends(Sent(g), e) = {}

\* The dispatcher knows the game that has a claim, or will hear of it.
Found(g, e) ==
  /\ Coming(g, e) => edi[e].gameid = g
  /\ Claims(g, e) => edi[e].gameid = g \/ (edi[e].gameid = None /\ Noted(e))

\* What a game reports of an entity is in order.
InOrder(g, e) ==
  /\ \A i \in Notes(Sent(g), e), j \in Ends(Sent(g), e) : i < j
  /\ Listed(g, e) => Notes(Sent(g), e) = {}

\* A game the dispatcher does not speak to loads nothing; unless it is frozen, what it has
\* it will report.
Absent(g, e) ==
  Away(g) =>
    /\ ~ Loads(g, e) /\ Bids(Got(g), e) = {}
    /\ \/ HeldBack(gdi[g])
       \/ /\ ~ Listed(g, e)
          /\ Has(g, e) \/ Ends(Sent(g), e) # {} => Notes(Sent(g), e) # {}

\* An entity that is still to be made is nowhere, and is made once.
Unborn(e) ==
  /\ \A c, d \in Conn : \A i \in Makes(inbox[c], e), j \in Makes(inbox[d], e) : c = d /\ i = j
  /\ e \notin used \/ Made(e) => edi[e].gameid = None /\ \A g \in Game : ~ Claims(g, e)
  /\ e \notin used => \A c \in Conn : At(inbox[c], {"notify", "destroy", "create", "load"}, e) = {}

\* A game that freezes, or will when it has read its acknowledgement, is held back.
Freezes(g) ==
  /\ proc[g] \in {"freezing", "frozen"} \/ Acks(Got(g)) # {} =>
       HeldBack(gdi[g]) /\ cur[g] # None /\ id[cur[g]] = g
  /\ Acks(Wait(g)) = {}

\* What a process that is down, starting or running has.
Lives(g) ==
  /\ proc[g] \in {"down", "frozen"} =>
       /\ live[g] = {} /\ reg[g] = "off" /\ \A e \in Entity : loading[g][e] = 0
       /\ cur[g] # None => link[cur[g]] \in {"closed", "gone"} /\ wire[cur[g]] = <<>>
  /\ proc[g] = "starting" =>
       /\ reg[g] \in {"off", "connected", "listed"} /\ \A e \in Entity : loading[g][e] = 0
       /\ (reg[g] = "off" <=> cur[g] = None)
       /\ cur[g] # None => /\ link[cur[g]] = "open" /\ id[cur[g]] = None
                           /\ inbox[cur[g]] = <<>> /\ wire[cur[g]] = <<>>
  /\ Running(g) => reg[g] = "registered" /\ cur[g] # None /\ link[cur[g]] = "open"
  /\ proc[g] # "frozen" => dump[g] = {}
  /\ reg[g] = "listed" => snap[g] = live[g]

\* A game announces itself first, and is announced then.
First(g) ==
  cur[g] # None =>
    /\ \A i \in 1 .. Len(inbox[cur[g]]) : inbox[cur[g]][i].type = "setGameID" =>
         i = 1 /\ id[cur[g]] = None
    /\ id[cur[g]] \in {g, None}
    /\ id[cur[g]] = g => gdi[g].clientProxy = cur[g] \/ link[cur[g]] = "gone"
    /\ id[cur[g]] = None =>
         /\ gdi[g].clientProxy # cur[g]
         /\ inbox[cur[g]] # <<>> =>
              inbox[cur[g]][1].type = "setGameID" /\ inbox[cur[g]][1].game = g
         /\ Running(g) => inbox[cur[g]] # <<>>

\* Nothing came over a connection that was not accepted, nothing comes over any but what
\* games without migration send, and what is held for entities is calls.
Said == {"setGameID", "notify", "destroy", "load", "create", "call", "freeze"}
Lines ==
  /\ Linked
  /\ \A c \in Conn : link[c] = "unused" => inbox[c] = <<>> /\ wire[c] = <<>> /\ id[c] = None
  /\ \A c \in Conn : \A i \in 1 .. Len(inbox[c]) : inbox[c][i].type \in Said
  /\ \A e \in Entity : edi[e].pending \in Seq(Light)

Calm ==
  /\ Apart
  /\ \A g \in Game, e \in Entity : Alone(g, e) /\ Found(g, e) /\ InOrder(g, e) /\ Absent(g, e)
  /\ \A e \in Entity : Unborn(e)
  /\ \A g \in Game : Freezes(g) /\ Lives(g) /\ First(g)
  /\ Lines

CopyInv == Peers /\ Records /\ (~ misled => Calm)

-----------------------------------------------------------------------------
(* What a step leaves of the claims to an entity                            *)

LEMMA QueuesTyped ==
  ASSUME Peers, Peers', NEW g \in Game
  PROVE  /\ Sent(g) \in Seq(Request) /\ Got(g) \in Seq(Packet) /\ Wait(g) \in Seq(Packet)
         /\ Sent(g)' \in Seq(Request) /\ Got(g)' \in Seq(Packet) /\ Wait(g)' \in Seq(Packet)
         /\ \A c \in Conn : /\ inbox[c] \in Seq(Request) /\ inbox'[c] \in Seq(Request)
                            /\ wire[c] \in Seq(Packet) /\ wire'[c] \in Seq(Packet)
  <1>1. <<>> \in Seq(Request) /\ <<>> \in Seq(Packet)
    OBVIOUS
  <1>2. /\ wire \in [Conn -> Seq(Packet)] /\ gdi \in [Game -> GameInfo]
        /\ cur \in [Game -> Conn \cup {None}] /\ inbox \in [Conn -> Seq(Request)]
    BY NowTyped DEF Peers
  <1>3. /\ wire' \in [Conn -> Seq(Packet)] /\ gdi' \in [Game -> GameInfo]
        /\ cur' \in [Game -> Conn \cup {None}] /\ inbox' \in [Conn -> Seq(Request)]
    BY DEF Peers, Inv, Good, Snapshot, Now
  <1>4. gdi[g].pending \in Seq(Packet) /\ gdi'[g].pending \in Seq(Packet)
    BY <1>2, <1>3 DEF GameInfo
  <1>5. Sent(g) \in Seq(Request) /\ Got(g) \in Seq(Packet)
    BY <1>1, <1>2 DEF Sent, Got
  <1>6. Sent(g)' \in Seq(Request) /\ Got(g)' \in Seq(Packet)
    BY <1>1, <1>3 DEF Sent, Got
  <1> QED BY <1>2, <1>3, <1>4, <1>5, <1>6 DEF Wait

\* What g has of e, and what is on the way, gets no more.
Fewer(g, e) ==
  /\ Has(g, e)' => Has(g, e)
  /\ loading'[g][e] <= loading[g][e]
  /\ Below(Bids(Got(g), e)', Bids(Got(g), e))
  /\ Below(Bids(Wait(g), e)', Bids(Wait(g), e))
  /\ Below(Ends(Sent(g), e)', Ends(Sent(g), e))
Lean(g, e) ==
  /\ Fewer(g, e)
  /\ Notes(Sent(g), e)' # {} => Notes(Sent(g), e) # {}
  /\ Listed(g, e)' => Listed(g, e)

LEMMA FewerAlone ==
  ASSUME Records, Records', NEW g \in Game, NEW e \in Entity, Alone(g, e), Fewer(g, e)
  PROVE  Alone(g, e)' /\ (Coming(g, e)' => Coming(g, e))
  <1>1. loading[g][e] \in Nat /\ loading'[g][e] \in Nat /\ loading'[g][e] <= loading[g][e]
    BY DEF Records, Fewer
  <1>2. Loads(g, e)' => Loads(g, e)
    BY <1>1 DEF Loads
  <1>3. loading'[g][e] <= 1
    BY <1>1 DEF Alone
  <1>4. Coming(g, e)' => Coming(g, e)
    BY <1>2 DEF Coming, Fewer, Below
  <1>5. /\ One(Bids(Got(g), e))' /\ One(Bids(Wait(g), e))' /\ One(Ends(Sent(g), e))'
    BY DEF Alone, Fewer, Below
  <1> QED BY <1>2, <1>3, <1>4, <1>5 DEF Alone, Fewer, Below

LEMMA LeanClaims ==
  ASSUME Records, Records', NEW g \in Game, NEW e \in Entity, Alone(g, e), Lean(g, e)
  PROVE  Alone(g, e)' /\ (Coming(g, e)' => Coming(g, e)) /\ (Claims(g, e)' => Claims(g, e))
  <1>1. Alone(g, e)' /\ (Coming(g, e)' => Coming(g, e))
    BY FewerAlone DEF Lean
  <1> QED BY <1>1 DEF Claims, Lean, Fewer, Below

LEMMA ApartStays ==
  ASSUME Apart,
         \A g \in Game, e \in Entity :
           Claims(g, e)' => Claims(g, e) \/ \A h \in Game : Claims(h, e)' => h = g
  PROVE  Apart'
  BY DEF Apart

LEMMA FoundStays ==
  ASSUME NEW g \in Game, NEW e \in Entity, Found(g, e),
         Coming(g, e)' => Coming(g, e), Claims(g, e)' => Claims(g, e), Noted(e) => Noted(e)',
         \/ edi'[e].gameid = edi[e].gameid
         \/ /\ edi'[e].gameid = None
            /\ edi[e].gameid = g => ~ Coming(g, e)' /\ (Claims(g, e)' => Noted(e)')
  PROVE  Found(g, e)'
  BY DEF Found, Claims

\* The step neither concerns g nor its connection.
Untouched(g) ==
  /\ proc'[g] = proc[g] /\ live'[g] = live[g] /\ dump'[g] = dump[g] /\ loading'[g] = loading[g]
  /\ cur'[g] = cur[g] /\ reg'[g] = reg[g] /\ snap'[g] = snap[g] /\ gdi'[g] = gdi[g]
  /\ cur[g] # None => /\ inbox'[cur[g]] = inbox[cur[g]] /\ wire'[cur[g]] = wire[cur[g]]
                      /\ link'[cur[g]] = link[cur[g]] /\ id'[cur[g]] = id[cur[g]]

LEMMA UntouchedQueues ==
  ASSUME NEW g \in Game, Untouched(g)
  PROVE  Sent(g)' = Sent(g) /\ Got(g)' = Got(g) /\ Wait(g)' = Wait(g)
  BY DEF Untouched, Sent, Got, Wait

LEMMA UntouchedSame ==
  ASSUME NEW g \in Game, NEW e \in Entity, Untouched(g)
  PROVE  /\ Alone(g, e) => Alone(g, e)'
         /\ InOrder(g, e) => InOrder(g, e)'
         /\ Absent(g, e) => Absent(g, e)'
         /\ Claims(g, e)' <=> Claims(g, e)
         /\ Coming(g, e)' <=> Coming(g, e)
  <1>1. /\ Sent(g)' = Sent(g) /\ Got(g)' = Got(g) /\ Wait(g)' = Wait(g)
        /\ loading'[g] = loading[g] /\ gdi'[g] = gdi[g]
    BY UntouchedQueues DEF Untouched
  <1>2. /\ Has(g, e)' <=> Has(g, e)
        /\ Loads(g, e)' <=> Loads(g, e)
        /\ Bids(Got(g), e)' = Bids(Got(g), e) /\ Bids(Wait(g), e)' = Bids(Wait(g), e)
        /\ Notes(Sent(g), e)' = Notes(Sent(g), e) /\ Ends(Sent(g), e)' = Ends(Sent(g), e)
    BY <1>1 DEF Has, Loads, Bids, Notes, Ends, Untouched
  <1>3. Listed(g, e)' <=> Listed(g, e)
    BY <1>1 DEF Listed, Untouched
  <1>4. Coming(g, e)' <=> Coming(g, e)
    BY <1>2 DEF Coming
  <1>5. Claims(g, e)' <=> Claims(g, e)
    BY <1>2, <1>3, <1>4 DEF Claims
  <1>6. /\ HeldBack(gdi[g])' <=> HeldBack(gdi[g])
        /\ Away(g)' <=> Away(g)
    BY <1>1 DEF HeldBack, Away, Untouched
  <1>7. Alone(g, e) => Alone(g, e)'
    BY <1>1, <1>2, <1>4 DEF Alone
  <1>8. InOrder(g, e) => InOrder(g, e)'
    BY <1>2, <1>3 DEF InOrder
  <1>9. Absent(g, e) => Absent(g, e)'
    BY <1>2, <1>3, <1>6 DEF Absent
  <1> QED BY <1>4, <1>5, <1>7, <1>8, <1>9

LEMMA UntouchedGame ==
  ASSUME NEW g \in Game, Untouched(g), Freezes(g), Lives(g), First(g)
  PROVE  Freezes(g)' /\ Lives(g)' /\ First(g)'
  <1>1. /\ Got(g)' = Got(g) /\ Wait(g)' = Wait(g)
        /\ proc'[g] = proc[g] /\ cur'[g] = cur[g] /\ gdi'[g] = gdi[g]
    BY UntouchedQueues DEF Untouched
  <1>2. /\ Acks(Got(g))' = Acks(Got(g)) /\ Acks(Wait(g))' = Acks(Wait(g))
        /\ HeldBack(gdi[g])' <=> HeldBack(gdi[g])
        /\ Running(g)' <=> Running(g)
    BY <1>1 DEF Acks, HeldBack, Running
  <1>3. Freezes(g)'
    BY <1>1, <1>2 DEF Freezes, Untouched
  <1>4. Lives(g)'
    BY <1>1, <1>2 DEF Lives, Untouched
  <1>5. First(g)'
    BY <1>1, <1>2 DEF First, Untouched
  <1> QED BY <1>3, <1>4, <1>5

-----------------------------------------------------------------------------
(* The dispatcher takes a message                                           *)

\* The oldest message of c is taken; what it was sent by, and whether it is late.
Taking(c) ==
  /\ inbox[c] # <<>> /\ inbox' = [inbox EXCEPT ![c] = Tail(@)]
  /\ UNCHANGED <<gameVars, used>>
  /\ \A d \in Conn : link'[d] = "gone" <=> link[d] = "gone"
Mine(g, c) == cur[g] = c /\ link[c] # "gone"
Says(c, k, e) == Head(inbox[c]).type = k /\ Head(inbox[c]).entity = e

LEMMA TakingQueue ==
  ASSUME Peers, Peers', NEW c \in Conn, Taking(c), NEW g \in Game
  PROVE  /\ Mine(g, c) => Sent(g) = inbox[c] /\ Sent(g)' = Tail(inbox[c])
         /\ ~ Mine(g, c) => Sent(g)' = Sent(g)
         /\ inbox[c] \in Seq(Request) /\ inbox'[c] = Tail(inbox[c])
         /\ \A d \in Conn \ {c} : inbox'[d] = inbox[d]
         /\ UNCHANGED <<cur, live, dump, loading, reg, snap, proc>>
  <1>1. /\ inbox \in [Conn -> Seq(Request)] /\ cur' = cur /\ cur[g] \in Conn \cup {None}
        /\ UNCHANGED <<cur, live, dump, loading, reg, snap, proc>>
    BY DEF Peers, Taking, gameVars
  <1>2. /\ inbox'[c] = Tail(inbox[c])
        /\ \A d \in Conn \ {c} : inbox'[d] = inbox[d]
    BY <1>1 DEF Taking
  <1>3. cur[g] # None => (link'[cur[g]] = "gone" <=> link[cur[g]] = "gone")
    BY <1>1 DEF Taking
  <1>4. c # None
    BY NoneAssumption
  <1> QED BY <1>1, <1>2, <1>3, <1>4 DEF Sent, Mine

\* What is left of what c says of e.
LEMMA TakingAt ==
  ASSUME Peers, Peers', NEW c \in Conn, Taking(c), NEW K, NEW e
  PROVE  /\ Below(At(inbox[c], K, e)', At(inbox[c], K, e))
         /\ \A i \in At(inbox[c], K, e)' : i + 1 \in At(inbox[c], K, e) /\ i > 0
         /\ (\A k \in K : ~ Says(c, k, e)) /\ At(inbox[c], K, e) # {} => At(inbox[c], K, e)' # {}
         /\ (\E k \in K : Says(c, k, e)) => 1 \in At(inbox[c], K, e)
         /\ (\E k \in K : Says(c, k, e)) /\ One(At(inbox[c], K, e)) => At(inbox[c], K, e)' = {}
  <1>1. inbox[c] \in Seq(Request) /\ inbox[c] # <<>> /\ inbox'[c] = Tail(inbox[c])
    BY DEF Peers, Taking
  <1>2. PICK q \in Seq(Request) : q = inbox[c]
    BY <1>1
  <1>3. At(inbox[c], K, e)' = At(Tail(q), K, e) /\ At(inbox[c], K, e) = At(q, K, e)
    BY <1>1, <1>2 DEF At
  <1>4. q # <<>>
    BY <1>1, <1>2
  <1>5. /\ Below(At(Tail(q), K, e), At(q, K, e))
        /\ One(At(q, K, e)) /\ Head(q).type \in K /\ Head(q).entity = e => At(Tail(q), K, e) = {}
    BY <1>4, TailBelow
  <1>6. /\ \A i \in At(Tail(q), K, e) : i + 1 \in At(q, K, e) /\ i > 0
        /\ \A i \in At(q, K, e) : i = 1 \/ i - 1 \in At(Tail(q), K, e)
        /\ 1 \in At(q, K, e) <=> Head(q).type \in K /\ Head(q).entity = e
    BY <1>4, AtTail
  <1>7. (\E k \in K : Says(c, k, e)) <=> Head(q).type \in K /\ Head(q).entity = e
    BY <1>2 DEF Says
  <1> QED BY <1>3, <1>5, <1>6, <1>7

\* What is left of what g has said.
LEMMA TakingSent ==
  ASSUME Peers, Peers', NEW c \in Conn, Taking(c), NEW g \in Game, NEW e \in Entity
  PROVE  /\ Below(Ends(Sent(g), e)', Ends(Sent(g), e))
         /\ Notes(Sent(g), e)' # {} => Notes(Sent(g), e) # {}
         /\ Mine(g, c) /\ Says(c, "destroy", e) /\ One(Ends(Sent(g), e)) => Ends(Sent(g), e)' = {}
         /\ ~ (Mine(g, c) /\ Says(c, "destroy", e)) /\ Ends(Sent(g), e) # {} => Ends(Sent(g), e)' # {}
         /\ ~ (Mine(g, c) /\ Says(c, "notify", e)) /\ Notes(Sent(g), e) # {} => Notes(Sent(g), e)' # {}
         /\ Mine(g, c) /\ Says(c, "notify", e) => Notes(Sent(g), e) # {}
         /\ Mine(g, c) /\ Says(c, "destroy", e) => Ends(Sent(g), e) # {}
         /\ Listed(g, e)' => Listed(g, e)
         /\ Mine(g, c) /\ Lists(Head(inbox[c]), e) => Listed(g, e)
         /\ InOrder(g, e) => InOrder(g, e)'
         /\ Has(g, e)' <=> Has(g, e)
         /\ Loads(g, e)' <=> Loads(g, e)
  <1>1. /\ Mine(g, c) => Sent(g) = inbox[c] /\ Sent(g)' = Tail(inbox[c])
        /\ ~ Mine(g, c) => Sent(g)' = Sent(g)
        /\ inbox[c] \in Seq(Request) /\ inbox'[c] = Tail(inbox[c])
        /\ UNCHANGED <<cur, live, dump, loading, reg, snap, proc>>
    BY TakingQueue
  <1>2. /\ Has(g, e)' <=> Has(g, e)
        /\ Loads(g, e)' <=> Loads(g, e)
    BY <1>1 DEF Has, Loads
  <1>3. CASE ~ Mine(g, c)
    <2>1. /\ Notes(Sent(g), e)' = Notes(Sent(g), e) /\ Ends(Sent(g), e)' = Ends(Sent(g), e)
          /\ Listed(g, e)' <=> Listed(g, e)
      BY <1>1, <1>3 DEF Notes, Ends, Listed
    <2> QED BY <1>2, <1>3, <2>1 DEF Below, InOrder
  <1>4. CASE Mine(g, c)
    <2> DEFINE N == {"notify"}
               E == {"destroy"}
    <2>1. /\ Notes(Sent(g), e)' = At(inbox[c], N, e)' /\ Ends(Sent(g), e)' = At(inbox[c], E, e)'
          /\ Notes(Sent(g), e) = At(inbox[c], N, e) /\ Ends(Sent(g), e) = At(inbox[c], E, e)
      BY <1>1, <1>4 DEF Notes, Ends
    <2>2. /\ \A k \in N : k = "notify"
          /\ \A k \in E : k = "destroy"
          /\ "notify" \in N /\ "destroy" \in E
      OBVIOUS
    <2> HIDE DEF N, E
    <2>3. \A K \in {N, E} :
            /\ Below(At(inbox[c], K, e)', At(inbox[c], K, e))
            /\ \A i \in At(inbox[c], K, e)' : i + 1 \in At(inbox[c], K, e) /\ i > 0
            /\ (\A k \in K : ~ Says(c, k, e)) /\ At(inbox[c], K, e) # {} => At(inbox[c], K, e)' # {}
            /\ (\E k \in K : Says(c, k, e)) => 1 \in At(inbox[c], K, e)
            /\ (\E k \in K : Says(c, k, e)) /\ One(At(inbox[c], K, e)) => At(inbox[c], K, e)' = {}
      BY TakingAt
    <2>4. PICK q \in Seq(Request) : q = inbox[c]
      BY <1>1
    <2>5. /\ q # <<>> /\ Tail(q) \in Seq(Request) /\ Len(q) \in Nat \ {0} /\ q[1] = Head(q)
          /\ \A i \in 1 .. Len(Tail(q)) : i + 1 \in 1 .. Len(q) /\ Tail(q)[i] = q[i + 1]
      BY <2>4 DEF Taking
    <2>6. Listed(g, e)' => Listed(g, e)
      <3>1. Sent(g) = q /\ Sent(g)' = Tail(q)
        BY <1>1, <1>4, <2>4
      <3> QED BY <1>1, <2>5, <3>1 DEF Listed
    <2>7. Lists(Head(inbox[c]), e) => Listed(g, e)
      <3>1. Sent(g) = q /\ 1 \in 1 .. Len(q)
        BY <1>1, <1>4, <2>4, <2>5
      <3> QED BY <2>4, <2>5, <3>1 DEF Listed
    <2>8. Notes(Sent(g), e)' # {} => Notes(Sent(g), e) # {}
      BY <2>1, <2>3 DEF Below
    <2>9. InOrder(g, e) => InOrder(g, e)'
      <3> SUFFICES ASSUME InOrder(g, e) PROVE InOrder(g, e)'
        OBVIOUS
      <3>1. ASSUME NEW i \in Notes(Sent(g), e)', NEW j \in Ends(Sent(g), e)' PROVE i < j
        <4>1. i + 1 \in Notes(Sent(g), e) /\ j + 1 \in Ends(Sent(g), e)
          BY <2>1, <2>3, <3>1
        <4>2. i \in Nat /\ j \in Nat
          BY DEF Notes, Ends, At
        <4>3. i + 1 < j + 1
          BY <4>1 DEF InOrder
        <4> QED BY <4>2, <4>3
      <3>2. Listed(g, e)' => Notes(Sent(g), e)' = {}
        BY <2>6, <2>8 DEF InOrder
      <3> QED BY <3>1, <3>2 DEF InOrder
    <2>10. Below(Ends(Sent(g), e)', Ends(Sent(g), e))
      BY <2>1, <2>3
    <2> QED BY <1>2, <1>4, <2>1, <2>2, <2>3, <2>6, <2>7, <2>8, <2>9, <2>10
  <1> QED BY <1>3, <1>4

LEMMA TakingNoted ==
  ASSUME Peers, Peers', NEW c \in Conn, Taking(c), NEW e \in Entity
  PROVE  /\ Noted(e) /\ ~ Says(c, "notify", e) => Noted(e)'
         /\ Made(e)' => Made(e)
         /\ \A d \in Conn : \A K : At(inbox[d], K, e) = {} => At(inbox[d], K, e)' = {}
  <1>1. \A d \in Conn \ {c} : inbox'[d] = inbox[d]
    BY DEF Taking, Peers
  <1>2. \A d \in Conn \ {c} : \A K : At(inbox[d], K, e)' = At(inbox[d], K, e)
    BY <1>1 DEF At
  <1>3. \A K : /\ At(inbox[c], K, e) = {} => At(inbox[c], K, e)' = {}
               /\ (\A k \in K : ~ Says(c, k, e)) /\ At(inbox[c], K, e) # {} => At(inbox[c], K, e)' # {}
    BY TakingAt DEF Below
  <1>4. \A d \in Conn : \A K : At(inbox[d], K, e) = {} => At(inbox[d], K, e)' = {}
    BY <1>2, <1>3
  <1>5. Made(e)' => Made(e)
    BY <1>4 DEF Made, Makes
  <1>6. Noted(e) /\ ~ Says(c, "notify", e) => Noted(e)'
    <2> SUFFICES ASSUME ~ Says(c, "notify", e), NEW d \in Conn, Notes(inbox[d], e) # {}
                 PROVE  Notes(inbox[d], e)' # {}
      BY DEF Noted
    <2> QED BY <1>2, <1>3 DEF Notes
  <1> QED BY <1>4, <1>5, <1>6

\* What c says makes at most one e, once.
LEMMA TakingMade ==
  ASSUME Peers, Peers', NEW c \in Conn, Taking(c), NEW e \in Entity, Unborn(e)
  PROVE  /\ \A d, f \in Conn : \A i \in Makes(inbox[d], e)', j \in Makes(inbox[f], e)' : d = f /\ i = j
         /\ Says(c, "create", e) => Made(e) /\ ~ Made(e)'
         /\ \A k \in {"notify", "destroy", "create", "load"} : Says(c, k, e) => e \in used
         /\ e \notin used => \A d \in Conn :
              At(inbox[d], {"notify", "destroy", "create", "load"}, e)' = {}
  <1> DEFINE K == {"create"}
  <1>0. /\ \A d \in Conn : /\ Makes(inbox[d], e) = At(inbox[d], K, e)
                           /\ Makes(inbox[d], e)' = At(inbox[d], K, e)'
    BY DEF Makes
  <1>1. \A d \in Conn \ {c} : inbox'[d] = inbox[d]
    BY DEF Taking, Peers
  <1>2. \A d \in Conn \ {c} : Makes(inbox[d], e)' = Makes(inbox[d], e)
    BY <1>1 DEF At, Makes
  <1>3. /\ Below(At(inbox[c], K, e)', At(inbox[c], K, e))
        /\ \A i \in At(inbox[c], K, e)' : i + 1 \in At(inbox[c], K, e) /\ i > 0
        /\ (\E k \in K : Says(c, k, e)) => 1 \in At(inbox[c], K, e)
        /\ (\E k \in K : Says(c, k, e)) /\ One(At(inbox[c], K, e)) => At(inbox[c], K, e)' = {}
    BY TakingAt
  <1>4. "create" \in K
    OBVIOUS
  <1> HIDE DEF K
  <1>5. One(Makes(inbox[c], e))
    BY DEF Unborn, One
  <1>6. One(Makes(inbox[c], e)')
    BY <1>0, <1>3, <1>5 DEF Below
  <1>7. Makes(inbox[c], e)' # {} => Makes(inbox[c], e) # {}
    BY <1>0, <1>3 DEF Below
  <1>8. ASSUME NEW d \in Conn, NEW f \in Conn, NEW i \in Makes(inbox[d], e)', NEW j \in Makes(inbox[f], e)'
        PROVE  d = f /\ i = j
    <2>1. \E x \in Makes(inbox[d], e) : TRUE
      BY <1>2, <1>7, <1>8
    <2>2. \E x \in Makes(inbox[f], e) : TRUE
      BY <1>2, <1>7, <1>8
    <2>3. d = f
      BY <2>1, <2>2 DEF Unborn
    <2>4. i = j
      BY <1>2, <1>6, <1>8, <2>3 DEF One, Unborn
    <2> QED BY <2>3, <2>4
  <1>9. ASSUME Says(c, "create", e) PROVE Made(e) /\ ~ Made(e)'
    <2>1. 1 \in Makes(inbox[c], e) /\ Makes(inbox[c], e)' = {}
      BY <1>0, <1>3, <1>4, <1>5, <1>9
    <2>2. ASSUME NEW d \in Conn, d # c PROVE Makes(inbox[d], e)' = {}
      BY <1>2, <2>1, <2>2 DEF Unborn
    <2> QED BY <2>1, <2>2 DEF Made
  <1>10. ASSUME NEW k \in {"notify", "destroy", "create", "load"}, Says(c, k, e), e \notin used
         PROVE  FALSE
    <2> DEFINE F == {"notify", "destroy", "create", "load"}
    <2>1. k \in F
      OBVIOUS
    <2>2. At(inbox[c], F, e) = {}
      BY <1>10 DEF Unborn
    <2> HIDE DEF F
    <2>3. 1 \in At(inbox[c], F, e)
      BY <1>10, <2>1, TakingAt
    <2> QED BY <2>2, <2>3
  <1>11. ASSUME e \notin used, NEW d \in Conn
         PROVE  At(inbox[d], {"notify", "destroy", "create", "load"}, e)' = {}
    <2> DEFINE F == {"notify", "destroy", "create", "load"}
    <2>1. At(inbox[d], F, e) = {}
      BY <1>11 DEF Unborn
    <2> HIDE DEF F
    <2>2. At(inbox[d], F, e)' = {}
      BY <2>1, TakingNoted
    <2> QED BY <2>2 DEF F
  <1> QED BY <1>8, <1>9, <1>10, <1>11

\* All of Calm, for the prover to take apart.
LEMMA CalmParts ==
  ASSUME Calm
  PROVE  /\ Apart
         /\ \A g \in Game, e \in Entity : Alone(g, e) /\ Found(g, e) /\ InOrder(g, e) /\ Absent(g, e)
         /\ \A e \in Entity : Unborn(e)
         /\ \A g \in Game : Freezes(g) /\ Lives(g) /\ First(g)
         /\ Linked
         /\ \A c \in Conn : link[c] = "unused" => inbox[c] = <<>> /\ wire[c] = <<>> /\ id[c] = None
         /\ \A c \in Conn : \A i \in 1 .. Len(inbox[c]) : inbox[c][i].type \in Said
         /\ Tame(Now)
  BY DEF Calm, Lines, Tame, Now

LEMMA CalmFrom ==
  ASSUME Apart',
         \A g \in Game, e \in Entity : Alone(g, e)' /\ Found(g, e)' /\ InOrder(g, e)' /\ Absent(g, e)',
         \A e \in Entity : Unborn(e)',
         \A g \in Game : Freezes(g)' /\ Lives(g)' /\ First(g)',
         Lines'
  PROVE  Calm'
  BY DEF Calm

\* A game the dispatcher does not speak to has its SET_GAME_ID under way, if anything.
LEMMA AwaySilent ==
  ASSUME Peers, NEW c \in Conn, NEW g \in Game, First(g), Away(g), Mine(g, c), inbox[c] # <<>>
  PROVE  Head(inbox[c]).type = "setGameID" /\ id[c] = None
  <1>1. inbox[c] \in Seq(Request) /\ inbox[c] # <<>>
    BY DEF Peers
  <1>2. Head(inbox[c]) = inbox[c][1]
    BY <1>1
  <1>3. cur[g] = c /\ c # None
    BY NoneAssumption DEF Mine
  <1>4. id[c] = None
    BY <1>3 DEF First, Away, Mine
  <1> QED BY <1>1, <1>2, <1>3, <1>4 DEF First

\* The dispatcher takes a message other than SET_GAME_ID, and speaks to whom it spoke.
Steady(c) ==
  /\ Taking(c) /\ Head(inbox[c]).type # "setGameID"
  /\ id' = id /\ link' = link
  /\ \A g \in Game : gdi'[g].clientProxy = gdi[g].clientProxy
  /\ \A g \in Game : HeldBack(gdi[g]) => HeldBack(gdi[g])'
  /\ \A d \in Conn : wire'[d] # wire[d] => link[d] = "open" /\ id[d] # None
  /\ Tame(Now)'

LEMMA SteadyLines ==
  ASSUME Peers, Peers', [Next]_vars, Calm, NEW c \in Conn, Steady(c)
  PROVE  Lines'
  <1>1. /\ Linked
        /\ \A d \in Conn : link[d] = "unused" => inbox[d] = <<>> /\ wire[d] = <<>> /\ id[d] = None
        /\ \A d \in Conn : \A i \in 1 .. Len(inbox[d]) : inbox[d][i].type \in Said
    BY CalmParts
  <1>2. inbox[c] \in Seq(Request) /\ inbox[c] # <<>> /\ inbox'[c] = Tail(inbox[c])
        /\ \A d \in Conn \ {c} : inbox'[d] = inbox[d]
    BY DEF Steady, Taking, Peers
  <1>3. Linked'
    <2>1. cur' = cur
      BY DEF Steady, Taking, gameVars
    <2> QED BY <1>1, <2>1, LinkedStep
  <1>4. ASSUME NEW d \in Conn, link'[d] = "unused"
        PROVE  inbox'[d] = <<>> /\ wire'[d] = <<>> /\ id'[d] = None
    <2>1. link[d] = "unused" /\ d # c
      BY <1>1, <1>2, <1>4 DEF Steady
    <2>2. wire'[d] = wire[d] /\ id'[d] = id[d]
      BY <2>1 DEF Steady
    <2> QED BY <1>1, <1>2, <2>1, <2>2
  <1>5. ASSUME NEW d \in Conn, NEW i \in 1 .. Len(inbox'[d]) PROVE inbox'[d][i].type \in Said
    <2>1. CASE d # c
      BY <1>1, <1>2, <1>5, <2>1
    <2>2. CASE d = c
      <3>1. PICK q \in Seq(Request) : q = inbox[c]
        BY <1>2
      <3>2. q # <<>> /\ inbox'[d] = Tail(q)
        BY <1>2, <2>2, <3>1
      <3>3. \A j \in 1 .. Len(Tail(q)) : Tail(q)[j] = q[j + 1] /\ j + 1 \in 1 .. Len(q)
        BY <3>2
      <3>4. i \in 1 .. Len(Tail(q))
        BY <1>5, <3>2
      <3> QED BY <1>1, <2>2, <3>1, <3>2, <3>3, <3>4
    <2> QED BY <2>1, <2>2
  <1>6. \A e \in Entity : edi'[e].pending \in Seq(Light)
    BY DEF Steady, Tame, Now
  <1> QED BY <1>3, <1>4, <1>5, <1>6 DEF Lines

LEMMA SteadyGame ==
  ASSUME Peers, Peers', Calm, NEW c \in Conn, Steady(c), NEW g \in Game
  PROVE  /\ Lives(g)' /\ First(g)'
         /\ Away(g)' <=> Away(g)
         /\ Away(g) => Sent(g)' = Sent(g)
  <1>1. Lives(g) /\ First(g)
    BY CalmParts
  <1>2. Taking(c) /\ Head(inbox[c]).type # "setGameID"
    BY DEF Steady
  <1>3. /\ ~ Mine(g, c) => Sent(g)' = Sent(g)
        /\ inbox[c] \in Seq(Request) /\ inbox'[c] = Tail(inbox[c])
        /\ \A d \in Conn \ {c} : inbox'[d] = inbox[d]
        /\ UNCHANGED <<cur, live, dump, loading, reg, snap, proc>>
    BY <1>2, TakingQueue
  <1>4. Away(g)' <=> Away(g)
    BY <1>3 DEF Away, Steady
  <1>5. Away(g) => ~ Mine(g, c)
    BY <1>1, <1>2, AwaySilent DEF Taking
  <1>6. id' = id /\ link' = link /\ gdi'[g].clientProxy = gdi[g].clientProxy
    BY DEF Steady
  <1>7. /\ inbox[c] # <<>> /\ cur[g] \in Conn \cup {None}
        /\ \A d \in Conn : wire'[d] # wire[d] => link[d] = "open" /\ id[d] # None
    BY <1>2 DEF Steady, Taking, Peers
  <1>8. Lives(g)'
    <2>1. cur[g] # None /\ inbox[cur[g]] = <<>> => inbox'[cur[g]] = <<>>
      BY <1>3, <1>7
    <2>2. cur[g] # None /\ (link[cur[g]] # "open" \/ id[cur[g]] = None) => wire'[cur[g]] = wire[cur[g]]
      BY <1>7
    <2>3. Running(g)' <=> Running(g)
      BY <1>3 DEF Running
    <2> QED BY <1>1, <1>3, <1>6, <2>1, <2>2, <2>3 DEF Lives
  <1>9. First(g)'
    <2> SUFFICES ASSUME cur[g] # None PROVE First(g)'
      BY <1>3 DEF First
    <2>1. cur[g] \in Conn
      BY <1>7
    <2>2. CASE cur[g] # c
      <3>1. inbox'[cur[g]] = inbox[cur[g]]
        BY <1>3, <2>1, <2>2
      <3>2. Running(g)' <=> Running(g)
        BY <1>3 DEF Running
      <3> QED BY <1>1, <1>3, <1>6, <3>1, <3>2 DEF First
    <2>3. CASE cur[g] = c
      <3>1. PICK q \in Seq(Request) : q = inbox[c]
        BY <1>3
      <3>2. /\ q # <<>> /\ Head(q) = q[1] /\ Len(q) \in Nat
            /\ \A i \in 1 .. Len(Tail(q)) : Tail(q)[i] = q[i + 1] /\ i + 1 \in 1 .. Len(q) /\ i + 1 # 1
        BY <1>7, <3>1
      <3>3. id[c] # None
        BY <1>1, <1>2, <1>7, <2>3, <3>1, <3>2 DEF First
      <3>4. \A i \in 1 .. Len(q) : q[i].type = "setGameID" => i = 1
        BY <1>1, <2>3, <3>1 DEF First
      <3>5. \A i \in 1 .. Len(inbox'[c]) : inbox'[c][i].type # "setGameID"
        BY <1>3, <3>1, <3>2, <3>4
      <3> QED BY <1>1, <1>3, <1>6, <2>3, <3>3, <3>5 DEF First
    <2> QED BY <2>2, <2>3
  <1> QED BY <1>3, <1>4, <1>5, <1>8, <1>9

LEMMA SteadyAbsent ==
  ASSUME Peers, Peers', Calm, NEW c \in Conn, Steady(c), NEW g \in Game, NEW e \in Entity,
         Away(g) /\ Bids(Got(g), e) = {} => Bids(Got(g), e)' = {}
  PROVE  Absent(g, e)' /\ InOrder(g, e)'
  <1>1. Absent(g, e) /\ InOrder(g, e)
    BY CalmParts
  <1>2. /\ Away(g)' <=> Away(g)
        /\ Away(g) => Sent(g)' = Sent(g)
    BY SteadyGame
  <1>3. Taking(c)
    BY DEF Steady
  <1>4. InOrder(g, e)' /\ (Has(g, e)' <=> Has(g, e)) /\ (Loads(g, e)' <=> Loads(g, e))
    BY <1>1, <1>3, TakingSent
  <1>5. Absent(g, e)'
    <2> SUFFICES ASSUME Away(g) PROVE Absent(g, e)'
      BY <1>2 DEF Absent
    <2>1. Sent(g)' = Sent(g) /\ reg' = reg /\ snap' = snap
      BY <1>2, <1>3 DEF Taking, gameVars
    <2>2. /\ Notes(Sent(g), e)' = Notes(Sent(g), e) /\ Ends(Sent(g), e)' = Ends(Sent(g), e)
          /\ Listed(g, e)' <=> Listed(g, e)
      BY <2>1 DEF Notes, Ends, Listed
    <2>3. HeldBack(gdi[g]) => HeldBack(gdi[g])'
      BY DEF Steady
    <2> QED BY <1>1, <1>4, <2>2, <2>3 DEF Absent
  <1> QED BY <1>4, <1>5

\* From s, which has the games and connections as they are, what happens is mild.
Mildly(s) == s.gdi = gdi /\ s.wire = wire /\ s.id = id /\ Mild(s, Now')

LEMMA MildSteady ==
  ASSUME NEW c \in Conn, Taking(c), Head(inbox[c]).type # "setGameID", NEW s, Mildly(s), link' = link
  PROVE  Steady(c)
  <1>1. /\ id' = id /\ \A g \in Game : gdi'[g].clientProxy = gdi[g].clientProxy
        /\ \A g \in Game : HeldBack(gdi[g])' <=> HeldBack(gdi[g])
        /\ \A d \in Conn : wire'[d] # wire[d] => link[d] = "open" /\ id[d] # None
        /\ Tame(Now)'
    BY DEF Mildly, Mild, Now, HeldBack, Tame
  <1> QED BY <1>1 DEF Steady

LEMMA MildLean ==
  ASSUME Peers, Peers', Records, Records', NEW c \in Conn, Taking(c), NEW s, Mildly(s), NEW g \in Game, NEW e \in Entity
  PROVE  /\ Lean(g, e)
         /\ Bids(Got(g), e)' = Bids(Got(g), e)
         /\ Bids(Wait(g), e)' \subseteq Bids(Wait(g), e)
  <1>1. UNCHANGED <<cur, live, dump, loading, reg, snap, proc>> /\ cur[g] \in Conn \cup {None}
    BY TakingQueue DEF Peers
  <1>2. Bids(Wait(g), e)' \subseteq Bids(Wait(g), e)
    BY DEF Mildly, Mild, Now, Wait, Bids, At
  <1>3. Bids(Got(g), e)' = Bids(Got(g), e)
    <2>1. CASE cur[g] = None
      <3>1. Got(g) = <<>> /\ Got(g)' = <<>>
        BY <1>1, <2>1 DEF Got
      <3> QED BY <3>1 DEF Bids, At
    <2>2. CASE cur[g] # None
      <3>1. Got(g) = wire[cur[g]] /\ Got(g)' = wire'[cur[g]] /\ cur[g] \in Conn
        BY <1>1, <2>2 DEF Got
      <3>2. \A d \in Conn : Bids(wire'[d], e) = Bids(wire[d], e)
        BY DEF Mildly, Mild, Now
      <3> QED BY <3>1, <3>2 DEF Bids, At
    <2> QED BY <2>1, <2>2
  <1>4. /\ Below(Ends(Sent(g), e)', Ends(Sent(g), e))
        /\ Notes(Sent(g), e)' # {} => Notes(Sent(g), e) # {}
        /\ Listed(g, e)' => Listed(g, e)
        /\ Has(g, e)' <=> Has(g, e)
    BY TakingSent
  <1>5. Below(Bids(Got(g), e)', Bids(Got(g), e)) /\ Below(Bids(Wait(g), e)', Bids(Wait(g), e))
    BY <1>2, <1>3, SubsetBelow DEF Below, One
  <1>6. loading'[g][e] <= loading[g][e]
    BY <1>1 DEF Records
  <1> QED BY <1>2, <1>3, <1>4, <1>5, <1>6 DEF Lean, Fewer

LEMMA MildAcks ==
  ASSUME Peers, Peers', NEW c \in Conn, Taking(c), NEW s, Mildly(s), NEW g \in Game
  PROVE  Acks(Got(g))' = Acks(Got(g)) /\ Acks(Wait(g))' \subseteq Acks(Wait(g))
  <1>1. cur' = cur /\ cur[g] \in Conn \cup {None}
    BY TakingQueue DEF Peers
  <1>2. /\ Acks(gdi'[g].pending) \subseteq Acks(gdi[g].pending)
        /\ \A d \in Conn : Acks(wire'[d]) = Acks(wire[d])
    BY DEF Mildly, Mild, Now
  <1>3. Acks(Wait(g))' \subseteq Acks(Wait(g))
    BY <1>2 DEF Wait, Acks
  <1>4. CASE cur[g] = None
    <2>1. Got(g) = <<>> /\ Got(g)' = <<>>
      BY <1>1, <1>4 DEF Got
    <2> QED BY <1>3, <2>1 DEF Acks
  <1>5. CASE cur[g] # None
    <2>1. Got(g) = wire[cur[g]] /\ Got(g)' = wire'[cur[g]] /\ cur[g] \in Conn
      BY <1>1, <1>5 DEF Got
    <2>2. Acks(wire'[cur[g]]) = Acks(wire[cur[g]])
      BY <1>2, <2>1
    <2> QED BY <1>3, <2>1, <2>2 DEF Acks
  <1> QED BY <1>4, <1>5

LEMMA MildFreezes ==
  ASSUME Peers, Peers', Calm, NEW c \in Conn, Steady(c), NEW s, Mildly(s), NEW g \in Game
  PROVE  Freezes(g)'
  <1>1. Freezes(g)
    BY CalmParts
  <1>2. Acks(Got(g))' = Acks(Got(g)) /\ Acks(Wait(g))' \subseteq Acks(Wait(g))
    BY MildAcks DEF Steady
  <1>3. UNCHANGED <<cur, id, proc>>
    BY TakingQueue DEF Steady
  <1>4. HeldBack(gdi[g]) => HeldBack(gdi[g])'
    BY DEF Steady
  <1> QED BY <1>1, <1>2, <1>3, <1>4 DEF Freezes

\* The rest of Calm, where no claim is new.
LEMMA LeanServed ==
  ASSUME Peers, Peers', Records, Records', [Next]_vars, Calm, NEW c \in Conn, Steady(c),
         \A g \in Game, e \in Entity : Lean(g, e) /\ Found(g, e)',
         \A g \in Game, e \in Entity : Away(g) /\ Bids(Got(g), e) = {} => Bids(Got(g), e)' = {},
         \A g \in Game : Freezes(g)',
         \A e \in Entity : edi[e].gameid = None => edi'[e].gameid = None \/ (e \in used /\ ~ Made(e))
  PROVE  Calm'
  <1>1. \A g \in Game, e \in Entity : Alone(g, e)' /\ (Claims(g, e)' => Claims(g, e))
    BY LeanClaims, CalmParts
  <1>2. Apart'
    BY <1>1, ApartStays, CalmParts
  <1>3. \A g \in Game, e \in Entity : Absent(g, e)' /\ InOrder(g, e)'
    BY SteadyAbsent
  <1>4. \A g \in Game : Lives(g)' /\ First(g)'
    BY SteadyGame
  <1>5. Lines'
    BY SteadyLines
  <1>6. ASSUME NEW e \in Entity PROVE Unborn(e)'
    <2>1. Unborn(e) /\ Taking(c) /\ used' = used
      BY CalmParts DEF Steady, Taking
    <2>2. /\ \A d, f \in Conn : \A i \in Makes(inbox[d], e)', j \in Makes(inbox[f], e)' : d = f /\ i = j
          /\ e \notin used => \A d \in Conn :
               At(inbox[d], {"notify", "destroy", "create", "load"}, e)' = {}
          /\ Made(e)' => Made(e)
      BY <2>1, TakingMade, TakingNoted
    <2>3. e \notin used \/ Made(e)' => edi'[e].gameid = None /\ \A g \in Game : ~ Claims(g, e)'
      BY <1>1, <2>1, <2>2 DEF Unborn
    <2> QED BY <2>1, <2>2, <2>3 DEF Unborn
  <1> QED BY <1>1, <1>2, <1>3, <1>4, <1>5, <1>6, CalmFrom

\* A route that is not changed is right, or gone with its game.
LEMMA MildFound ==
  ASSUME Peers, Peers', Records, Records', Calm, NEW c \in Conn, Steady(c), NEW s, Mildly(s),
         NEW g \in Game, NEW e \in Entity, s.edi[e].gameid = edi[e].gameid, ~ Says(c, "notify", e)
  PROVE  Found(g, e)'
  <1>1. Alone(g, e) /\ Found(g, e) /\ Absent(g, e)
    BY CalmParts
  <1>2. Taking(c)
    BY DEF Steady
  <1>3. (Coming(g, e)' => Coming(g, e)) /\ (Claims(g, e)' => Claims(g, e))
    BY <1>1, <1>2, MildLean, LeanClaims
  <1>4. Noted(e) => Noted(e)'
    BY <1>2, TakingNoted
  <1>5. \/ edi'[e].gameid = edi[e].gameid
        \/ edi'[e].gameid = None /\ Fallen(s, Now', edi[e].gameid)
    BY DEF Mildly, Mild, Now
  <1>6. ASSUME Fallen(s, Now', g)
        PROVE  ~ Coming(g, e)' /\ (Claims(g, e)' => Noted(e)')
    <2>1. gdi[g].clientProxy = None /\ ~ HeldBack(gdi[g]) /\ Bids(Wait(g), e)' = {}
      BY <1>6 DEF Fallen, Mildly, Now, Wait, Bids, At
    <2>2. Away(g)
      BY <2>1 DEF Away
    <2>3. Sent(g)' = Sent(g) /\ UNCHANGED <<cur, loading, live, dump, reg, snap>>
      BY <1>2, <2>2, SteadyGame, TakingQueue
    <2>4. /\ ~ Loads(g, e) /\ Bids(Got(g), e) = {} /\ ~ Listed(g, e)
          /\ Has(g, e) \/ Ends(Sent(g), e) # {} => Notes(Sent(g), e) # {}
      BY <1>1, <2>1, <2>2 DEF Absent
    <2>5. Bids(Got(g), e)' = {}
      BY <1>2, <2>4, MildLean
    <2>6. ~ Loads(g, e)' /\ ~ Coming(g, e)'
      BY <2>1, <2>3, <2>4, <2>5 DEF Loads, Coming
    <2>7. /\ Notes(Sent(g), e)' = Notes(Sent(g), e) /\ Ends(Sent(g), e)' = Ends(Sent(g), e)
          /\ Listed(g, e)' <=> Listed(g, e)
          /\ Has(g, e)' <=> Has(g, e)
      BY <2>3 DEF Notes, Ends, Listed, Has
    <2>8. Claims(g, e)' => Notes(Sent(g), e) # {}
      BY <2>4, <2>6, <2>7 DEF Claims
    <2>9. Notes(Sent(g), e) # {} => Noted(e)
      <3> SUFFICES ASSUME Notes(Sent(g), e) # {} PROVE Noted(e)
        OBVIOUS
      <3>1. (cur[g] # None /\ Sent(g) = inbox[cur[g]]) \/ Sent(g) = <<>>
        BY DEF Sent
      <3>2. Sent(g) # <<>>
        BY AtEmpty DEF Notes
      <3>3. cur[g] \in Conn
        BY <3>1, <3>2 DEF Peers
      <3> QED BY <3>1, <3>2, <3>3 DEF Noted
    <2> QED BY <1>4, <2>6, <2>8, <2>9
  <1>7. \/ edi'[e].gameid = edi[e].gameid
        \/ /\ edi'[e].gameid = None
           /\ edi[e].gameid = g => ~ Coming(g, e)' /\ (Claims(g, e)' => Noted(e)')
    BY <1>5, <1>6
  <1> QED BY <1>1, <1>3, <1>4, <1>7, FoundStays

\* A call, and whatever is refused.
LEMMA MildServed ==
  ASSUME Peers, Peers', Records, Records', [Next]_vars, Calm, NEW c \in Conn, Taking(c),
         Head(inbox[c]).type \notin {"setGameID", "notify"}, link' = link,
         NEW s, Mildly(s), \A e \in Entity : s.edi[e].gameid = edi[e].gameid
  PROVE  Calm'
  <1>1. Steady(c)
    BY MildSteady
  <1>2. ASSUME NEW g \in Game, NEW e \in Entity PROVE Lean(g, e) /\ Found(g, e)'
    <2>1. ~ Says(c, "notify", e)
      BY DEF Says
    <2> QED BY <1>1, <2>1, MildFound, MildLean
  <1>3. \A g \in Game, e \in Entity : Away(g) /\ Bids(Got(g), e) = {} => Bids(Got(g), e)' = {}
    BY MildLean
  <1>4. \A g \in Game : Freezes(g)'
    BY <1>1, MildFreezes
  <1>5. \A e \in Entity : edi[e].gameid = None => edi'[e].gameid = None
    BY NoneAssumption DEF Mildly, Mild, Now, Fallen
  <1> QED BY <1>1, <1>2, <1>3, <1>4, <1>5, LeanServed

-----------------------------------------------------------------------------
(* The dispatcher hears of entities                                         *)

LEMMA NowTame ==
  ASSUME Peers, Calm
  PROVE  Good(Now) /\ Tame(Now) /\ Now.gdi = gdi /\ Now.wire = wire /\ Now.id = id /\ Now.edi = edi
  BY CalmParts, NowTyped DEF Peers, Inv

LEMMA CallCalm ==
  ASSUME Peers, Peers', Records, Records', [Next]_vars, Calm, NEW c \in Conn, Taking(c),
         Head(inbox[c]).type = "call", NEW e \in Entity, HandleCallEntityMethod(c, e)
  PROVE  Calm'
  <1>1. PICK p \in Light : p = [type |-> "call", entity |-> e, no |-> msgs']
    <2>1. msgs' \in Nat
      BY HandlingMsgs DEF HandleCallEntityMethod, Peers
    <2>2. [type |-> "call", entity |-> e, no |-> msgs'] \in Light
      BY <2>1 DEF Light, Packet
    <2> QED BY <2>2
  <1>2. PICK s : s = Now
    OBVIOUS
  <1>3. Good(s) /\ Tame(s) /\ s.gdi = gdi /\ s.wire = wire /\ s.id = id /\ s.edi = edi
    BY <1>2, NowTame
  <1>4. \E t : Mild(s, t) /\ Commit(t)
    <2>1. CASE edi[e].known
      <3>1. Commit(DispatchToEntity(s, e, p))
        BY <1>1, <1>2, <2>1 DEF HandleCallEntityMethod
      <3> QED BY <1>3, <3>1, DispatchToEntityMild
    <2>2. CASE ~ edi[e].known
      <3>1. Commit(s)
        BY <1>2, <2>2 DEF HandleCallEntityMethod
      <3> QED BY <1>3, <3>1, MildSame
    <2> QED BY <2>1, <2>2
  <1>5. Mildly(s)
    BY <1>3, <1>4, CommitMild DEF Mildly
  <1>6. link' = link
    BY DEF HandleCallEntityMethod
  <1> QED BY <1>3, <1>5, <1>6, MildServed

\* What comes in time comes from the current connection of a game, which announced it.
LEMMA InTime ==
  ASSUME Peers, Calm, NEW c \in Conn, inbox[c] # <<>>, ~ Late(c),
         Head(inbox[c]).type \in {"notify", "destroy"}
  PROVE  \E g \in Game : Mine(g, c) /\ ~ Away(g) /\ id[c] = g /\ gdi[g].clientProxy = c
  <1>1. link[c] # "gone" /\ \E g \in Game : cur[g] = c
    BY DEF Late
  <1>2. PICK g \in Game : cur[g] = c
    BY <1>1
  <1>3. Mine(g, c) /\ First(g) /\ c # None
    BY <1>1, <1>2, CalmParts, NoneAssumption DEF Mine
  <1>4. ~ Away(g)
    BY <1>3, AwaySilent
  <1>5. gdi[g].clientProxy = c
    BY <1>2, <1>4 DEF Away
  <1>6. id[c] = g
    BY <1>2, <1>3, <1>5 DEF First
  <1> QED BY <1>3, <1>4, <1>5, <1>6

\* The list of a game that is yet to be adopted only.
LEMMA ListedAway ==
  ASSUME Peers, Records, NEW g \in Game, NEW e, Lives(g), First(g), Listed(g, e)
  PROVE  Away(g)
  <1>1. CASE reg[g] = "listed"
    <2>1. proc[g] = "starting"
      BY <1>1 DEF Lives, Running, Peers, ProcState
    <2>2. cur[g] # None => id[cur[g]] = None
      BY <2>1 DEF Lives
    <2> QED BY <2>2 DEF Away, First
  <1>2. CASE \E i \in 1 .. Len(Sent(g)) : Lists(Sent(g)[i], e)
    <2>1. PICK i \in 1 .. Len(Sent(g)) : Sent(g)[i].type = "setGameID"
      BY <1>2 DEF Lists
    <2>2. CASE cur[g] # None /\ link[cur[g]] # "gone"
      <3>1. Sent(g) = inbox[cur[g]]
        BY <2>2 DEF Sent
      <3> QED BY <2>1, <2>2, <3>1 DEF First, Away
    <2>3. CASE ~ (cur[g] # None /\ link[cur[g]] # "gone")
      <3>1. Sent(g) = <<>>
        BY <2>3 DEF Sent
      <3> QED BY <2>1, <3>1
    <2> QED BY <2>2, <2>3
  <1> QED BY <1>1, <1>2 DEF Listed

LEMMA NotifyCalm ==
  ASSUME Peers, Peers', Records, Records', [Next]_vars, Calm, NEW c \in Conn, Taking(c), ~ Late(c),
         NEW e \in Entity, Says(c, "notify", e), HandleNotifyCreateEntity(c, e)
  PROVE  Calm'
  <1>0. inbox[c] # <<>> /\ Head(inbox[c]).type = "notify" /\ Head(inbox[c]).type # "setGameID"
    BY DEF Taking, Says
  <1>1. PICK g \in Game : Mine(g, c) /\ ~ Away(g) /\ id[c] = g /\ gdi[g].clientProxy = c
    BY <1>0, InTime
  <1>2. GameOf(c) = g
    BY <1>1 DEF GameOf
  <1> DEFINE w == ForWrite(Now, e)
             r == [w EXCEPT !.edi[e].gameid = g]
  <1>3. Commit(Unblock(r, e)) /\ link' = link
    BY <1>2 DEF HandleNotifyCreateEntity
  <1>4. /\ Good(Now) /\ Tame(Now) /\ Now.gdi = gdi /\ Now.wire = wire /\ Now.id = id
        /\ Now.edi = edi
    BY NowTame
  <1>5. /\ Good(w) /\ Mild(Now, w) /\ w.wire = wire /\ w.gdi = gdi /\ w.id = id
        /\ w.edi[e].known
    BY <1>4, ForWriteGood, ForWriteMild
  <1>6. \A x \in Entity : w.edi[x].gameid = edi[x].gameid
    <2>1. w.edi = [edi EXCEPT ![e].known = TRUE]
      BY <1>4 DEF ForWrite, Now
    <2> QED BY <2>1, NowTyped DEF Peers, EntityInfo
  <1> HIDE DEF w
  <1>7. /\ Good(r) /\ Tame(r) /\ r.wire = wire /\ r.gdi = gdi /\ r.id = id
        /\ \A x \in Entity : r.edi[x].gameid = IF x = e THEN g ELSE edi[x].gameid
    <2>1. Tame(w)
      BY <1>5 DEF Mild
    <2>2. LET t == [w EXCEPT !.edi[e].gameid = g]
          IN Good(t) /\ t.id = w.id /\ t.gdi = w.gdi
      BY <1>5, RouteGood
    <2>3. LET t == [w EXCEPT !.edi[e].gameid = g]
          IN /\ Tame(t) /\ t.id = w.id /\ t.wire = w.wire /\ t.gdi = w.gdi
             /\ \A f \in Entity : t.edi[f].gameid = IF f = e THEN g ELSE w.edi[f].gameid
      BY <1>5, <2>1, RouteTame
    <2> QED BY <1>5, <1>6, <2>2, <2>3
  <1> HIDE DEF r
  <1>8. PICK s : s = r
    OBVIOUS
  <1>9. Mildly(s)
    <2>1. Mild(s, Unblock(s, e)) /\ Commit(Unblock(s, e))
      BY <1>3, <1>7, <1>8, UnblockMild
    <2> QED BY <1>7, <1>8, <2>1, CommitMild DEF Mildly
  <1>10. Steady(c)
    BY <1>0, <1>3, <1>9, MildSteady
  <1>11. Notes(Sent(g), e) # {} /\ Claims(g, e)
    <2>1. Notes(Sent(g), e) # {}
      BY <1>1, TakingSent
    <2> QED BY <2>1 DEF Claims
  <1>12. \A h \in Game, x \in Entity : Lean(h, x)
    BY <1>9, MildLean
  <1>13. ASSUME NEW h \in Game, NEW x \in Entity PROVE Found(h, x)'
    <2>1. CASE x # e
      <3>1. s.edi[x].gameid = edi[x].gameid /\ ~ Says(c, "notify", x)
        BY <1>7, <1>8, <2>1 DEF Says
      <3> QED BY <1>9, <1>10, <3>1, MildFound
    <2>2. CASE x = e
      <3>1. (Coming(h, e)' => Coming(h, e)) /\ (Claims(h, e)' => Claims(h, e))
        BY <1>12, LeanClaims, CalmParts
      <3>2. Claims(h, e)' => h = g
        BY <1>11, <3>1, CalmParts DEF Apart
      <3>3. edi'[e].gameid = g
        <4>1. \/ edi'[e].gameid = g
              \/ edi'[e].gameid = None /\ Fallen(s, Now', g)
          BY <1>7, <1>8, <1>9 DEF Mildly, Mild, Now
        <4>2. ~ Fallen(s, Now', g)
          BY <1>1, <1>7, <1>8, NoneAssumption DEF Fallen
        <4> QED BY <4>1, <4>2
      <3>4. Coming(h, e)' => Claims(h, e)'
        BY DEF Claims
      <3> QED BY <2>2, <3>2, <3>3, <3>4 DEF Found
    <2> QED BY <2>1, <2>2
  <1>14. \A h \in Game, x \in Entity : Away(h) /\ Bids(Got(h), x) = {} => Bids(Got(h), x)' = {}
    BY <1>9, MildLean
  <1>15. \A h \in Game : Freezes(h)'
    BY <1>9, <1>10, MildFreezes
  <1>16. ASSUME NEW x \in Entity, edi[x].gameid = None
         PROVE  edi'[x].gameid = None \/ (x \in used /\ ~ Made(x))
    <2>1. CASE x # e
      <3>1. s.edi[x].gameid = None
        BY <1>7, <1>8, <1>16, <2>1
      <3> QED BY <1>9, <3>1, NoneAssumption DEF Mildly, Mild, Now, Fallen
    <2>2. CASE x = e
      <3>1. Unborn(e)
        BY CalmParts
      <3>2. e \in used
        BY <3>1, TakingMade
      <3>3. ~ Made(e)
        BY <1>11, <3>1 DEF Unborn
      <3> QED BY <2>2, <3>2, <3>3
    <2> QED BY <2>1, <2>2
  <1> QED BY <1>10, <1>12, <1>13, <1>14, <1>15, <1>16, LeanServed

LEMMA DestroyCalm ==
  ASSUME Peers, Peers', Records, Records', [Next]_vars, Calm, NEW c \in Conn, Taking(c), ~ Late(c),
         NEW e \in Entity, Says(c, "destroy", e), HandleNotifyDestroyEntity(c, e)
  PROVE  Calm'
  <1>0. inbox[c] # <<>> /\ Head(inbox[c]).type = "destroy" /\ Head(inbox[c]).type # "setGameID"
    BY DEF Taking, Says
  <1>1. PICK g \in Game : Mine(g, c) /\ ~ Away(g) /\ id[c] = g /\ gdi[g].clientProxy = c
    BY <1>0, InTime
  <1>2. /\ edi' = [edi EXCEPT ![e] = NoEntityInfo]
        /\ gdi' = gdi /\ id' = id /\ wire' = wire /\ link' = link
    BY DEF HandleNotifyDestroyEntity
  <1>3. /\ Tame(Now) /\ edi \in [Entity -> EntityInfo]
    BY NowTame, NowTyped DEF Peers
  <1>4. PICK s : s = Now'
    OBVIOUS
  <1>5. /\ s.edi = edi' /\ s.gdi = gdi /\ s.wire = wire /\ s.id = id
        /\ \A x \in Entity : edi'[x] = IF x = e THEN NoEntityInfo ELSE edi[x]
    BY <1>2, <1>3, <1>4 DEF Now
  <1>6. Tame(s)
    <2>1. NoEntityInfo.pending = <<>> /\ <<>> \in Seq(Light)
      BY DEF NoEntityInfo
    <2> QED BY <1>3, <1>5, <2>1 DEF Tame, Now
  <1>7. Mildly(s)
    <2>1. Mild(s, s)
      BY <1>6, MildSame
    <2> QED BY <1>4, <1>5, <2>1 DEF Mildly
  <1>8. Steady(c)
    BY <1>0, <1>2, <1>7, MildSteady
  <1>9. \A h \in Game, x \in Entity : Lean(h, x)
    BY <1>7, MildLean
  <1>10. ASSUME NEW h \in Game PROVE ~ Claims(h, e)'
    <2>1. Ends(Sent(g), e) # {} /\ Claims(g, e)
      <3>1. Ends(Sent(g), e) # {}
        BY <1>1, TakingSent
      <3> QED BY <3>1 DEF Claims
    <2>2. Claims(h, e)' => Claims(h, e)
      BY <1>9, LeanClaims, CalmParts
    <2>3. h # g => ~ Claims(h, e)'
      BY <2>1, <2>2, CalmParts DEF Apart
    <2>4. Alone(g, e) /\ InOrder(g, e) /\ Lives(g) /\ First(g)
      BY CalmParts
    <2>5. Alone(g, e)' /\ (Coming(g, e)' => Coming(g, e))
      BY <1>9, <2>4, LeanClaims
    <2>6. ~ Has(g, e) /\ ~ Loads(g, e) /\ ~ Coming(g, e)
      BY <2>1, <2>4 DEF Alone, Coming
    <2>7. Ends(Sent(g), e)' = {} /\ ~ Has(g, e)'
      BY <1>1, <2>4, <2>6, TakingSent DEF Alone
    <2>8. Notes(Sent(g), e) = {}
      <3> DEFINE E == {"destroy"}
      <3>1. \E k \in E : Says(c, k, e)
        OBVIOUS
      <3> HIDE DEF E
      <3>2. 1 \in At(inbox[c], E, e)
        BY <3>1, TakingAt
      <3>3. 1 \in Ends(Sent(g), e)
        BY <1>1, <3>2, TakingQueue DEF Ends, E
      <3>4. \A i \in Notes(Sent(g), e) : i < 1 /\ i \in 1 .. Len(Sent(g))
        BY <2>4, <3>3 DEF InOrder, Notes, At
      <3> QED BY <3>4
    <2>9. Notes(Sent(g), e)' = {}
      BY <2>8, TakingSent
    <2>10. ~ Listed(g, e)
      BY <1>1, <2>4, ListedAway
    <2>11. ~ Listed(g, e)'
      BY <2>10, TakingSent
    <2> QED BY <2>3, <2>5, <2>6, <2>7, <2>9, <2>11 DEF Claims
  <1>11. ASSUME NEW h \in Game, NEW x \in Entity PROVE Found(h, x)'
    <2>1. CASE x # e
      <3>1. s.edi[x].gameid = edi[x].gameid /\ ~ Says(c, "notify", x)
        BY <1>5, <2>1, <1>0 DEF Says
      <3> QED BY <1>7, <1>8, <3>1, MildFound
    <2>2. CASE x = e
      BY <1>10, <2>2 DEF Found, Claims
    <2> QED BY <2>1, <2>2
  <1>12. \A h \in Game, x \in Entity : Away(h) /\ Bids(Got(h), x) = {} => Bids(Got(h), x)' = {}
    BY <1>7, MildLean
  <1>13. \A h \in Game : Freezes(h)'
    BY <1>7, <1>8, MildFreezes
  <1>14. \A x \in Entity : edi[x].gameid = None => edi'[x].gameid = None
    BY <1>5 DEF NoEntityInfo
  <1> QED BY <1>8, <1>9, <1>11, <1>12, <1>13, <1>14, LeanServed

\* g, which is not down, is given p: no notice comes of it.
Gives(s, t, g, p) ==
  /\ t.id = s.id /\ \A e \in Entity : t.edi[e] = s.edi[e]
  /\ \A h \in Game \ {g} : t.gdi[h] = s.gdi[h]
  /\ t.gdi[g].clientProxy = s.gdi[g].clientProxy
  /\ HeldBack(t.gdi[g]) <=> HeldBack(s.gdi[g])
  /\ \/ /\ \A c \in Conn : t.wire[c] = s.wire[c]
        /\ t.gdi[g].pending \in {s.gdi[g].pending, Hold(s.gdi[g].pending, <<p>>, GameQueueMax)}
     \/ /\ t.gdi[g].pending = s.gdi[g].pending
        /\ \E c \in Conn : /\ c = s.gdi[g].clientProxy /\ link[c] = "open" /\ s.id[c] = g
                           /\ t.wire[c] = s.wire[c] \o <<p>>
                           /\ \A d \in Conn \ {c} : t.wire[d] = s.wire[d]

LEMMA GiveOne ==
  ASSUME NEW s, NEW g \in Game, NEW p \in Packet, Good(s), s.gdi[g].known
  PROVE  IF LapsedDead(s.gdi[g]) THEN ~ Dispatch(s, To(g, <<p>>)).gdi[g].isBlocked
         ELSE Gives(s, Dispatch(s, To(g, <<p>>)), g, p)
  <1> DEFINE out     == To(g, <<p>>)
             base    == {h \in Game : s.gdi[h].known /\ out[h] # <<>>}
             spread  == {} # {} \/ \E h \in base : LapsedDead(s.gdi[h])
             down    == IF spread THEN {} \cup {h \in Game : LapsedDead(s.gdi[h])}
                        ELSE {}
             reached == IF spread THEN {h \in Game : s.gdi[h].known} ELSE base
             notice  == IF spread THEN <<[type |-> "gameDown", games |-> down]>> ELSE <<>>
             queue   == [h \in Game |-> IF h \in reached THEN notice \o out[h] ELSE <<>>]
             after   == [h \in Game |-> Arrive(h, s.gdi[h], down, reached, queue[h])]
             direct  == {h \in Game : ~after[h].isBlocked /\ after[h].clientProxy # None}
             t       == Dispatch(s, out)
  <1>1. /\ out \in [Game -> Seq(Packet)] /\ \A h \in Game : out[h] = IF h = g THEN <<p>> ELSE <<>>
        /\ <<p>> # <<>>
    BY ToTyped DEF To
  <1>2. base = {g}
    BY <1>1
  <1>3. spread <=> LapsedDead(s.gdi[g])
    BY <1>2
  <1>4. g \in reached
    BY <1>2
  <1>5. \A h \in Game : after[h] = Arrive(h, s.gdi[h], down, reached, queue[h])
    BY DEF after
  <1>6. t.gdi = after /\ t.id = s.id
    BY DEF Dispatch, DispatchDown
  <1>7. t.wire = [x \in Conn |->
                    IF /\ link[x] = "open" /\ s.id[x] \in direct
                       /\ after[s.id[x]].clientProxy = x
                    THEN s.wire[x] \o queue[s.id[x]] ELSE s.wire[x]]
    BY DEF Dispatch, DispatchDown
  <1>8. \A e \in Entity : t.edi[e] = IF s.edi[e].known /\ s.edi[e].gameid \in down
                                     THEN NoEntityInfo ELSE s.edi[e]
    BY DEF Dispatch, DispatchDown
  <1>9. ~ spread => /\ down = {} /\ reached = {g}
                    /\ queue[g] = <<p>> /\ \A h \in Game \ {g} : queue[h] = <<>>
    BY <1>1, <1>2
  <1>10. \A h \in Game : s.gdi[h] \in GameInfo
    BY DEF Good, Snapshot
  <1>11. direct = {h \in Game : ~after[h].isBlocked /\ after[h].clientProxy # None}
    OBVIOUS
  <1> HIDE DEF base, down, reached, notice, queue, after, direct, t, spread
  <1>12. LapsedDead(s.gdi[g]) => ~ after[g].isBlocked
    <2>1. after[g].isBlocked = (s.gdi[g].isBlocked /\ ~(g \in reached /\ Lapsed(s.gdi[g])))
      BY <1>5, <1>10, ZenonT(40) DEF Arrive, GameInfo
    <2> QED BY <1>4, <2>1 DEF LapsedDead
  <1>13. ASSUME ~ spread PROVE Gives(s, t, g, p)
    <2>1. /\ down = {} /\ reached = {g}
          /\ queue[g] = <<p>> /\ \A h \in Game \ {g} : queue[h] = <<>>
      BY <1>9, <1>13
    <2>2. \A e \in Entity : t.edi[e] = s.edi[e]
      BY <1>8, <2>1
    <2>3. ASSUME NEW h \in Game, h # g PROVE t.gdi[h] = s.gdi[h]
      <3>1. PICK i \in GameInfo : i = s.gdi[h]
        BY <1>10
      <3>2. i.pending \in Seq(Packet) /\ i.isBlocked \in BOOLEAN
        BY DEF GameInfo
      <3>3. Hold(i.pending, <<>>, GameQueueMax) = i.pending
        BY <3>2, HoldNothing, BoundAssumption
      <3>4. Arrive(h, i, {}, {g}, <<>>) = [i EXCEPT !.isBlocked = i.isBlocked, !.pending = i.pending]
        <4>1. (i.isBlocked /\ ~(h \in {g} /\ Lapsed(i))) = i.isBlocked
          BY <2>3, <3>2
        <4>2. (IF ~ i.isBlocked /\ i.clientProxy # None THEN i.pending
               ELSE Hold(IF h \in {} THEN <<>> ELSE i.pending, <<>>, GameQueueMax)) = i.pending
          BY <3>3
        <4> QED BY <4>1, <4>2 DEF Arrive
      <3>5. Arrive(h, i, {}, {g}, <<>>) = i
        BY <3>4 DEF GameInfo
      <3> QED BY <1>5, <1>6, <2>1, <2>3, <3>1, <3>5
    <2>4. /\ after[g].clientProxy = s.gdi[g].clientProxy
          /\ after[g].blockUntil = s.gdi[g].blockUntil
          /\ after[g].isBlocked = (s.gdi[g].isBlocked /\ ~(g \in reached /\ Lapsed(s.gdi[g])))
          /\ after[g].pending = IF ~ after[g].isBlocked /\ s.gdi[g].clientProxy # None
                                THEN s.gdi[g].pending
                                ELSE Hold(s.gdi[g].pending, <<p>>, GameQueueMax)
      <3>1. /\ after[g].clientProxy = s.gdi[g].clientProxy
            /\ after[g].blockUntil = s.gdi[g].blockUntil
            /\ after[g].isBlocked = (s.gdi[g].isBlocked /\ ~(g \in reached /\ Lapsed(s.gdi[g])))
            /\ after[g].pending = IF ~ after[g].isBlocked /\ s.gdi[g].clientProxy # None
                                  THEN s.gdi[g].pending
                                  ELSE Hold(IF g \in down THEN <<>> ELSE s.gdi[g].pending,
                                            queue[g], GameQueueMax)
        <4>1. PICK i \in GameInfo : i = s.gdi[g]
          BY <1>10
        <4>2. after[g] = Arrive(g, i, down, reached, queue[g])
          BY <1>5, <4>1
        <4>3. /\ after[g].clientProxy = i.clientProxy
              /\ after[g].blockUntil = i.blockUntil
              /\ after[g].isBlocked = (i.isBlocked /\ ~(g \in reached /\ Lapsed(i)))
          BY <4>2 DEF Arrive, GameInfo
        <4>4. after[g].pending = IF ~ (i.isBlocked /\ ~(g \in reached /\ Lapsed(i))) /\ i.clientProxy # None
                                 THEN i.pending
                                 ELSE Hold(IF g \in down THEN <<>> ELSE i.pending, queue[g], GameQueueMax)
          BY <4>2 DEF Arrive, GameInfo
        <4> QED BY <4>1, <4>3, <4>4
      <3>2. (IF g \in down THEN <<>> ELSE s.gdi[g].pending) = s.gdi[g].pending /\ queue[g] = <<p>>
        BY <2>1
      <3> QED BY <3>1, <3>2
    <2>5. HeldBack(after[g]) <=> HeldBack(s.gdi[g])
      BY <2>4 DEF HeldBack, Lapsed
    <2>6. ASSUME NEW c \in Conn
          PROVE  t.wire[c] = IF link[c] = "open" /\ s.id[c] = g /\ g \in direct /\ s.gdi[g].clientProxy = c
                             THEN s.wire[c] \o <<p>> ELSE s.wire[c]
      <3>1. CASE s.id[c] = g
        BY <1>7, <2>1, <2>4, <3>1
      <3>2. CASE s.id[c] # g
        <4>1. s.wire[c] \o <<>> = s.wire[c]
          BY DEF Good, Snapshot
        <4>2. s.id[c] \in direct => queue[s.id[c]] = <<>>
          BY <1>11, <2>1, <3>2
        <4> QED BY <1>7, <3>2, <4>1, <4>2, ZenonT(40)
      <3> QED BY <3>1, <3>2
    <2>7. s.gdi[g].clientProxy # None => s.gdi[g].clientProxy \in Conn
      BY <1>10 DEF GameInfo
    <2>8. CASE \E c \in Conn : link[c] = "open" /\ s.id[c] = g /\ g \in direct /\ s.gdi[g].clientProxy = c
      <3>1. PICK c \in Conn : link[c] = "open" /\ s.id[c] = g /\ g \in direct /\ s.gdi[g].clientProxy = c
        BY <2>8
      <3>2. t.wire[c] = s.wire[c] \o <<p>> /\ \A d \in Conn \ {c} : t.wire[d] = s.wire[d]
        BY <2>6, <3>1
      <3>3. after[g].pending = s.gdi[g].pending
        BY <1>11, <2>4, <3>1
      <3> QED BY <1>6, <2>2, <2>3, <2>4, <2>5, <3>1, <3>2, <3>3 DEF Gives
    <2>9. CASE ~ \E c \in Conn : link[c] = "open" /\ s.id[c] = g /\ g \in direct /\ s.gdi[g].clientProxy = c
      <3>1. \A c \in Conn : t.wire[c] = s.wire[c]
        BY <2>6, <2>9
      <3> QED BY <1>6, <2>2, <2>3, <2>4, <2>5, <3>1 DEF Gives
    <2> QED BY <2>8, <2>9
  <1> QED BY <1>3, <1>6, <1>12, <1>13 DEF t

\* A copy more where there was none.
LEMMA OneMore ==
  ASSUME NEW q \in Seq(Packet), NEW p \in Packet, NEW e, Bids(q, e) = {}
  PROVE  One(Bids(q \o <<p>>, e))
  <1>0. <<p>> \in Seq(Packet)
    OBVIOUS
  <1>1. \A i \in Bids(q \o <<p>>, e) : i - Len(q) \in Bids(<<p>>, e)
    BY <1>0, AtConcat DEF Bids
  <1>2. \A i \in Bids(<<p>>, e) : i = 1
    BY DEF Bids, At
  <1>3. \A i \in Bids(q \o <<p>>, e) : i \in Nat
    BY DEF Bids, At
  <1>4. Len(q) \in Nat
    OBVIOUS
  <1>5. \A i \in Bids(q \o <<p>>, e) : i = Len(q) + 1
    BY <1>1, <1>2, <1>3, <1>4
  <1> QED BY <1>5 DEF One

LEMMA OneHeld ==
  ASSUME NEW q \in Seq(Packet), NEW p \in Packet, NEW e, NEW max \in Nat, Bids(q, e) = {}
  PROVE  One(Bids(Hold(q, <<p>>, max), e))
  <1>0. q \o <<p>> \in Seq(Packet)
    OBVIOUS
  <1>1. PICK y \in Seq(Packet) : y = q \o <<p>>
    BY <1>0
  <1>2. One(Bids(y, e))
    BY <1>1, OneMore
  <1>3. Len(q) \in Nat /\ Len(y) \in Nat /\ Len(y) = Len(q) + 1
    BY <1>1
  <1>4. CASE Len(y) <= max
    BY <1>1, <1>2, <1>4 DEF Hold
  <1>5. CASE ~ (Len(y) <= max)
    <2>1. PICK n \in 0 .. Len(y) : n = IF Len(q) > max THEN Len(q) ELSE max
      BY <1>3, <1>5
    <2>2. Hold(q, <<p>>, max) = SubSeq(y, 1, n)
      BY <1>1, <1>5, <2>1 DEF Hold
    <2>3. Below(At(SubSeq(y, 1, n), {"load", "create"}, e), At(y, {"load", "create"}, e))
      BY PrefixBelow
    <2> QED BY <1>2, <2>2, <2>3 DEF Bids, Below
  <1> QED BY <1>4, <1>5

\* What comes of a copy that is given to g.
LEMMA GivenViews ==
  ASSUME Peers, Peers', Calm, NEW c \in Conn, Taking(c), Head(inbox[c]).type # "setGameID", link' = link,
         NEW s, Good(s), Tame(s), s.gdi = gdi, s.wire = wire, s.id = id,
         NEW g \in Game, gdi[g].known, ~ LapsedDead(gdi[g]),
         NEW e \in Entity, NEW p \in Packet, p.type \in {"load", "create"}, p.entity = e,
         Commit(Dispatch(s, To(g, <<p>>)))
  PROVE  /\ Steady(c) /\ \A x \in Entity : edi'[x] = s.edi[x]
         /\ \A h \in Game, x \in Entity : h # g \/ x # e =>
              Bids(Got(h), x)' = Bids(Got(h), x) /\ Bids(Wait(h), x)' \subseteq Bids(Wait(h), x)
         /\ Bids(Got(g), e) = {} /\ Bids(Wait(g), e) = {} =>
              /\ One(Bids(Got(g), e)') /\ One(Bids(Wait(g), e)')
              /\ Bids(Got(g), e)' = {} \/ Bids(Wait(g), e)' = {}
         /\ Away(g) => Bids(Got(g), e)' = Bids(Got(g), e)
         /\ \A h \in Game : /\ Acks(Got(h))' = Acks(Got(h))
                            /\ Acks(Wait(h))' \subseteq Acks(Wait(h))
  <1>1. PICK t : t = Dispatch(s, To(g, <<p>>))
    OBVIOUS
  <1>2. edi' = t.edi /\ gdi' = t.gdi /\ id' = t.id /\ wire' = t.wire
    BY <1>1 DEF Commit
  <1>3. /\ id' = id /\ \A x \in Entity : edi'[x] = s.edi[x]
        /\ \A h \in Game \ {g} : gdi'[h] = gdi[h]
        /\ gdi'[g].clientProxy = gdi[g].clientProxy
        /\ HeldBack(gdi'[g]) <=> HeldBack(gdi[g])
        /\ \/ /\ \A d \in Conn : wire'[d] = wire[d]
              /\ gdi'[g].pending \in {gdi[g].pending, Hold(gdi[g].pending, <<p>>, GameQueueMax)}
           \/ /\ gdi'[g].pending = gdi[g].pending
              /\ \E d \in Conn : /\ d = gdi[g].clientProxy /\ link[d] = "open" /\ id[d] = g
                                 /\ wire'[d] = wire[d] \o <<p>>
                                 /\ \A f \in Conn \ {d} : wire'[f] = wire[f]
    <2>1. Gives(s, t, g, p)
      BY <1>1, GiveOne
    <2> QED BY <1>2, <2>1 DEF Gives
  <1>4. /\ cur' = cur /\ \A h \in Game : cur[h] \in Conn \cup {None}
        /\ \A h \in Game : gdi[h].pending \in Seq(Packet)
        /\ \A d \in Conn : wire[d] \in Seq(Packet)
    <2>1. \A h \in Game : Wait(h) \in Seq(Packet)
      BY QueuesTyped
    <2>2. cur' = cur
      BY DEF Taking, gameVars
    <2> QED BY <2>1, <2>2, NowTyped DEF Peers, Wait
  <1>5. /\ <<p>> \in Seq(Packet) /\ Acks(<<p>>) = {} /\ \A x : x # e => Bids(<<p>>, x) = {}
    BY DEF Acks, Bids, At
  <1>6. GameQueueMax \in Nat
    BY BoundAssumption
  <1>7. \A h \in Game, d \in Conn : cur[h] = d /\ id[d] = g => h = g
    <2> SUFFICES ASSUME NEW h \in Game, NEW d \in Conn, cur[h] = d, id[d] = g PROVE h = g
      OBVIOUS
    <2>1. First(h) /\ cur[h] # None
      BY CalmParts, NoneAssumption
    <2> QED BY <2>1, NoneAssumption DEF First
  <1>8. Steady(c)
    <2>1. \A h \in Game : gdi'[h].clientProxy = gdi[h].clientProxy /\ (HeldBack(gdi[h]) => HeldBack(gdi'[h]))
      BY <1>3
    <2>2. \A d \in Conn : wire'[d] # wire[d] => link[d] = "open" /\ id[d] # None
      BY <1>3, NoneAssumption
    <2>3. Tame(Now)'
      BY <1>3 DEF Tame, Now
    <2> QED BY <1>3, <2>1, <2>2, <2>3 DEF Steady, HeldBack
  <1>9. CASE /\ \A d \in Conn : wire'[d] = wire[d]
             /\ gdi'[g].pending \in {gdi[g].pending, Hold(gdi[g].pending, <<p>>, GameQueueMax)}
    <2>1. ASSUME NEW h \in Game PROVE Got(h)' = Got(h)
      BY <1>4, <1>9 DEF Got
    <2>2. \A h \in Game : Acks(Got(h))' = Acks(Got(h)) /\ \A x : Bids(Got(h), x)' = Bids(Got(h), x)
      BY <2>1 DEF Acks, Bids, At
    <2>3. ASSUME NEW h \in Game, h # g
          PROVE  Acks(Wait(h))' = Acks(Wait(h)) /\ \A x : Bids(Wait(h), x)' = Bids(Wait(h), x)
      BY <1>3, <2>3 DEF Acks, Bids, At, Wait
    <2>4. PICK q \in Seq(Packet) : q = gdi[g].pending
      BY <1>4
    <2>5. PICK r : r = gdi'[g].pending
      OBVIOUS
    <2>6. Wait(g) = q /\ Acks(Wait(g))' = Acks(r) /\ \A x : Bids(Wait(g), x)' = Bids(r, x)
      BY <2>4, <2>5 DEF Wait, Acks, Bids, At
    <2>7. r \in {q, Hold(q, <<p>>, GameQueueMax)}
      BY <1>9, <2>4, <2>5
    <2>8. /\ Acks(r) \subseteq Acks(q)
          /\ \A x : x # e => Bids(r, x) \subseteq Bids(q, x)
      <3>1. Acks(Hold(q, <<p>>, GameQueueMax)) \subseteq Acks(q)
        <4>1. \E x : Bids(<<p>>, x) = {}
          <5>1. None # e
            BY NoneAssumption
          <5> QED BY <1>5, <5>1
        <4> QED BY <1>5, <1>6, <4>1, LightHeld
      <3>2. \A x : x # e => Bids(Hold(q, <<p>>, GameQueueMax), x) \subseteq Bids(q, x)
        BY <1>5, <1>6, LightHeld
      <3> QED BY <2>7, <3>1, <3>2
    <2>9. Bids(q, e) = {} => One(Bids(r, e))
      BY <1>6, <2>7, OneHeld, AtEmpty
    <2>10. Bids(Got(g), e) = {} => One(Bids(Got(g), e)')
      BY <2>2, AtEmpty
    <2> QED BY <1>3, <1>8, <2>2, <2>3, <2>6, <2>8, <2>9, <2>10
  <1>10. CASE /\ gdi'[g].pending = gdi[g].pending
              /\ \E d \in Conn : /\ d = gdi[g].clientProxy /\ link[d] = "open" /\ id[d] = g
                                 /\ wire'[d] = wire[d] \o <<p>>
                                 /\ \A f \in Conn \ {d} : wire'[f] = wire[f]
    <2>1. PICK d \in Conn : /\ d = gdi[g].clientProxy /\ link[d] = "open" /\ id[d] = g
                            /\ wire'[d] = wire[d] \o <<p>>
                            /\ \A f \in Conn \ {d} : wire'[f] = wire[f]
      BY <1>10
    <2>2. ASSUME NEW h \in Game
          PROVE  Acks(Wait(h))' = Acks(Wait(h)) /\ \A x : Bids(Wait(h), x)' = Bids(Wait(h), x)
      <3>1. gdi'[h].pending = gdi[h].pending
        BY <1>3, <1>10
      <3> QED BY <3>1 DEF Acks, Bids, At, Wait
    <2>3. ASSUME NEW h \in Game, cur[h] # d
          PROVE  Acks(Got(h))' = Acks(Got(h)) /\ \A x : Bids(Got(h), x)' = Bids(Got(h), x)
      <3>1. Got(h)' = Got(h)
        BY <1>4, <2>1, <2>3 DEF Got
      <3> QED BY <3>1 DEF Acks, Bids, At
    <2>4. ASSUME NEW h \in Game, cur[h] = d
          PROVE  /\ h = g /\ Acks(Got(h))' = Acks(Got(h))
                 /\ \A x : x # e => Bids(Got(h), x)' = Bids(Got(h), x)
                 /\ Bids(Got(h), e) = {} => One(Bids(Got(h), e)')
      <3>1. h = g
        BY <1>7, <2>1, <2>4
      <3>2. PICK q \in Seq(Packet) : q = wire[d]
        BY <1>4
      <3>3. Got(h) = q /\ Got(h)' = q \o <<p>>
        BY <1>4, <2>1, <2>4, <3>2, NoneAssumption DEF Got
      <3>4. /\ Acks(Got(h)) = Acks(q) /\ Acks(Got(h))' = Acks(q \o <<p>>)
            /\ \A x : Bids(Got(h), x) = Bids(q, x) /\ Bids(Got(h), x)' = Bids(q \o <<p>>, x)
        BY <3>3 DEF Acks, Bids, At
      <3>5. Acks(q \o <<p>>) = Acks(q) /\ \A x : x # e => Bids(q \o <<p>>, x) = Bids(q, x)
        <4>1. Acks(q \o <<p>>) = Acks(q)
          BY <1>5, AtNothing
        <4>2. ASSUME NEW x, x # e PROVE Bids(q \o <<p>>, x) = Bids(q, x)
          <5> DEFINE K == {"load", "create"}
          <5>1. PICK r \in Seq(Packet) : r = <<p>>
            BY <1>5
          <5>2. At(r, K, x) = {}
            BY <1>5, <4>2, <5>1 DEF Bids
          <5> HIDE DEF K
          <5>3. At(q \o r, K, x) = At(q, K, x)
            BY <5>2, AtNothing
          <5> QED BY <5>1, <5>3 DEF Bids, K
        <4> QED BY <4>1, <4>2
      <3>6. Bids(q, e) = {} => One(Bids(q \o <<p>>, e))
        BY OneMore
      <3> QED BY <3>1, <3>4, <3>5, <3>6
    <2>5. Away(g) => cur[g] # d
      BY <2>1, NoneAssumption DEF Away
    <2>6. Bids(Got(g), e) = {} => One(Bids(Got(g), e)')
      BY <2>3, <2>4, AtEmpty
    <2>7. Bids(Wait(g), e) = {} => One(Bids(Wait(g), e)')
      BY <2>2, AtEmpty
    <2>8. \A h \in Game : /\ Acks(Got(h))' = Acks(Got(h))
                          /\ Acks(Wait(h))' \subseteq Acks(Wait(h))
      BY <2>2, <2>3, <2>4
    <2>9. \A h \in Game, x \in Entity : h # g \/ x # e =>
              Bids(Got(h), x)' = Bids(Got(h), x) /\ Bids(Wait(h), x)' \subseteq Bids(Wait(h), x)
      BY <2>2, <2>3, <2>4
    <2>10. Away(g) => Bids(Got(g), e)' = Bids(Got(g), e)
      BY <2>3, <2>5
    <2> QED BY <1>3, <1>8, <2>2, <2>6, <2>7, <2>8, <2>9, <2>10
  <1> QED BY <1>3, <1>9, <1>10

\* A copy of an entity that is nowhere is given to g, and the route with it.
LEMMA GivenCalm ==
  ASSUME Peers, Peers', Records, Records', [Next]_vars, Calm, NEW c \in Conn, Taking(c), link' = link,
         NEW s, Good(s), Tame(s), s.gdi = gdi, s.wire = wire, s.id = id,
         NEW g \in Game, gdi[g].known, ~ LapsedDead(gdi[g]),
         NEW e \in Entity, NEW p \in Packet, p.type \in {"load", "create"}, p.entity = e,
         Says(c, "load", e) \/ Says(c, "create", e),
         \A x \in Entity : s.edi[x].gameid = IF x = e THEN g ELSE edi[x].gameid,
         Commit(Dispatch(s, To(g, <<p>>))),
         e \in used, ~ Made(e)', \A h \in Game : ~ Claims(h, e)
  PROVE  Calm'
  <1>0. /\ Head(inbox[c]).type # "setGameID"
        /\ \A x \in Entity : ~ Says(c, "notify", x)
    BY DEF Says
  <1>1. /\ Steady(c) /\ \A x \in Entity : edi'[x] = s.edi[x]
        /\ \A h \in Game, x \in Entity : h # g \/ x # e =>
             Bids(Got(h), x)' = Bids(Got(h), x) /\ Bids(Wait(h), x)' \subseteq Bids(Wait(h), x)
        /\ Bids(Got(g), e) = {} /\ Bids(Wait(g), e) = {} =>
             /\ One(Bids(Got(g), e)') /\ One(Bids(Wait(g), e)')
             /\ Bids(Got(g), e)' = {} \/ Bids(Wait(g), e)' = {}
        /\ Away(g) => Bids(Got(g), e)' = Bids(Got(g), e)
        /\ \A h \in Game : /\ Acks(Got(h))' = Acks(Got(h))
                           /\ Acks(Wait(h))' \subseteq Acks(Wait(h))
    BY <1>0, GivenViews
  <1>2. UNCHANGED <<cur, live, dump, loading, reg, snap, proc>> /\ used' = used
    BY TakingQueue DEF Taking
  <1>3. ASSUME NEW h \in Game, NEW x \in Entity, h # g \/ x # e PROVE Lean(h, x)
    <2>1. Bids(Got(h), x)' = Bids(Got(h), x) /\ Bids(Wait(h), x)' \subseteq Bids(Wait(h), x)
      BY <1>1, <1>3
    <2>2. /\ Below(Ends(Sent(h), x)', Ends(Sent(h), x))
          /\ Notes(Sent(h), x)' # {} => Notes(Sent(h), x) # {}
          /\ Listed(h, x)' => Listed(h, x)
          /\ Has(h, x)' <=> Has(h, x)
      BY TakingSent
    <2>3. Below(Bids(Got(h), x)', Bids(Got(h), x)) /\ Below(Bids(Wait(h), x)', Bids(Wait(h), x))
      BY <2>1, SubsetBelow DEF Below, One
    <2>4. loading'[h][x] <= loading[h][x]
      BY <1>2 DEF Records
    <2> QED BY <2>2, <2>3, <2>4 DEF Lean, Fewer
  <1>4. ASSUME NEW h \in Game, NEW x \in Entity, h # g \/ x # e
        PROVE  Alone(h, x)' /\ (Claims(h, x)' => Claims(h, x)) /\ (Coming(h, x)' => Coming(h, x))
    BY <1>3, <1>4, LeanClaims, CalmParts
  <1>5. /\ ~ Has(g, e) /\ ~ Loads(g, e) /\ Bids(Got(g), e) = {} /\ Bids(Wait(g), e) = {}
        /\ Ends(Sent(g), e) = {} /\ Notes(Sent(g), e) = {} /\ ~ Listed(g, e)
    BY DEF Claims, Coming
  <1>6. /\ ~ Has(g, e)' /\ ~ Loads(g, e)'
        /\ Ends(Sent(g), e)' = {} /\ Notes(Sent(g), e)' = {} /\ ~ Listed(g, e)'
    BY <1>5, TakingSent DEF Below
  <1>7. Alone(g, e)'
    <2>1. loading'[g][e] <= 1
      BY <1>2, CalmParts DEF Alone
    <2>2. One(Ends(Sent(g), e))'
      BY <1>6 DEF One
    <2> QED BY <1>1, <1>5, <1>6, <2>1, <2>2 DEF Alone
  <1>8. Apart'
    <2>1. \A h \in Game : Claims(h, e)' => h = g
      BY <1>4
    <2>2. \A h \in Game, x \in Entity : x # e => (Claims(h, x)' => Claims(h, x))
      BY <1>4
    <2> QED BY <2>1, <2>2, ApartStays, CalmParts
  <1>9. ASSUME NEW h \in Game, NEW x \in Entity PROVE Found(h, x)'
    <2>1. CASE x # e
      <3>1. edi'[x].gameid = edi[x].gameid
        BY <1>1, <2>1
      <3>2. Noted(x) => Noted(x)'
        BY <1>0, TakingNoted
      <3> QED BY <1>4, <2>1, <3>1, <3>2, FoundStays, CalmParts
    <2>2. CASE x = e /\ h # g
      <3>1. ~ Claims(h, e)'
        BY <1>4, <2>2
      <3> QED BY <2>2, <3>1 DEF Found, Claims
    <2>3. CASE x = e /\ h = g
      BY <1>1, <2>3 DEF Found
    <2> QED BY <2>1, <2>2, <2>3
  <1>10. ASSUME NEW h \in Game, NEW x \in Entity PROVE Absent(h, x)' /\ InOrder(h, x)'
    <2>1. Away(h) /\ Bids(Got(h), x) = {} => Bids(Got(h), x)' = {}
      BY <1>1
    <2> QED BY <1>1, <2>1, SteadyAbsent
  <1>11. ASSUME NEW x \in Entity PROVE Unborn(x)'
    <2>1. Unborn(x)
      BY CalmParts
    <2>2. /\ \A d, f \in Conn : \A i \in Makes(inbox[d], x)', j \in Makes(inbox[f], x)' : d = f /\ i = j
          /\ x \notin used => \A d \in Conn :
               At(inbox[d], {"notify", "destroy", "create", "load"}, x)' = {}
          /\ Made(x)' => Made(x)
      BY <2>1, TakingMade, TakingNoted
    <2>3. x \notin used \/ Made(x)' => edi'[x].gameid = None /\ \A h \in Game : ~ Claims(h, x)'
      <3>1. CASE x = e
        BY <3>1
      <3>2. CASE x # e
        BY <1>1, <1>4, <2>1, <2>2, <3>2 DEF Unborn
      <3> QED BY <3>1, <3>2
    <2> QED BY <1>2, <2>1, <2>2, <2>3 DEF Unborn
  <1>12. ASSUME NEW h \in Game PROVE Freezes(h)' /\ Lives(h)' /\ First(h)'
    <2>1. Freezes(h)
      BY CalmParts
    <2>2. HeldBack(gdi[h]) => HeldBack(gdi[h])'
      BY <1>1 DEF Steady
    <2>3. id' = id
      BY <1>1 DEF Steady
    <2>4. Freezes(h)'
      BY <1>1, <1>2, <2>1, <2>2, <2>3 DEF Freezes
    <2> QED BY <1>1, <2>4, SteadyGame
  <1>13. Lines'
    BY <1>1, SteadyLines
  <1>14. \A h \in Game, x \in Entity : Alone(h, x)'
    BY <1>4, <1>7
  <1> QED BY <1>8, <1>9, <1>10, <1>11, <1>12, <1>13, <1>14, CalmFrom

\* A new route of e.
LEMMA RouteNow ==
  ASSUME Peers, Calm, NEW e \in Entity, NEW g \in Game
  PROVE  LET r == [ForWrite(Now, e) EXCEPT !.edi[e].gameid = g]
         IN /\ Good(r) /\ Tame(r) /\ r.gdi = gdi /\ r.wire = wire /\ r.id = id
            /\ \A x \in Entity : r.edi[x].gameid = IF x = e THEN g ELSE edi[x].gameid
  <1> DEFINE w == ForWrite(Now, e)
             r == [w EXCEPT !.edi[e].gameid = g]
  <1>1. /\ Good(Now) /\ Tame(Now) /\ Now.gdi = gdi /\ Now.wire = wire /\ Now.id = id
        /\ Now.edi = edi
    BY NowTame
  <1>2. /\ Good(w) /\ Mild(Now, w) /\ w.wire = wire /\ w.gdi = gdi /\ w.id = id
        /\ w.edi[e].known
    BY <1>1, ForWriteGood, ForWriteMild
  <1>3. \A x \in Entity : w.edi[x].gameid = edi[x].gameid
    <2>1. w.edi = [edi EXCEPT ![e].known = TRUE]
      BY <1>1 DEF ForWrite, Now
    <2> QED BY <2>1, NowTyped DEF Peers, EntityInfo
  <1> HIDE DEF w
  <1>4. Tame(w)
    BY <1>2 DEF Mild
  <1>5. LET t == [w EXCEPT !.edi[e].gameid = g]
        IN Good(t) /\ t.id = w.id /\ t.gdi = w.gdi
    BY <1>2, RouteGood
  <1>6. LET t == [w EXCEPT !.edi[e].gameid = g]
        IN /\ Tame(t) /\ t.id = w.id /\ t.wire = w.wire /\ t.gdi = w.gdi
           /\ \A f \in Entity : t.edi[f].gameid = IF f = e THEN g ELSE w.edi[f].gameid
    BY <1>2, <1>4, RouteTame, ZenonT(40)
  <1>7. /\ Good(r) /\ Tame(r) /\ r.gdi = gdi /\ r.wire = wire /\ r.id = id
        /\ \A x \in Entity : r.edi[x].gameid = IF x = e THEN g ELSE edi[x].gameid
    BY <1>2, <1>3, <1>5, <1>6
  <1> QED BY <1>7 DEF w

\* Who is given a copy that is not lost is not down.
LEMMA NotLost ==
  ASSUME NEW c \in Conn, Head(inbox[c]).type \in {"load", "create"}, ~ Lost(c),
         NEW s, Good(s), s.gdi = gdi, NEW g \in Game, gdi[g].known, NEW p \in Packet,
         Commit(Dispatch(s, To(g, <<p>>)))
  PROVE  ~ LapsedDead(gdi[g])
  <1>1. LapsedDead(s.gdi[g]) => ~ Dispatch(s, To(g, <<p>>)).gdi[g].isBlocked
    BY GiveOne
  <1>2. gdi' = Dispatch(s, To(g, <<p>>)).gdi
    BY DEF Commit
  <1> QED BY <1>1, <1>2 DEF Lost

LEMMA LoadCalm ==
  ASSUME Peers, Peers', Records, Records', [Next]_vars, Calm, NEW c \in Conn, Taking(c), ~ Early(c), ~ Lost(c),
         NEW e \in Entity, Says(c, "load", e), HandleLoadEntitySomewhere(c, e, None)
  PROVE  Calm'
  <1>0. inbox[c] # <<>> /\ Head(inbox[c]).type = "load" /\ Head(inbox[c]).entity = e /\ link' = link
    BY DEF Taking, Says, HandleLoadEntitySomewhere
  <1> DEFINE w == ForWrite(Now, e)
             r(g) == [w EXCEPT !.edi[e].gameid = g]
             b(g) == BlockRPC(r(g), e)
             p == [type |-> "load", entity |-> e]
  <1>1. \/ Unrouted(e) /\ \E g \in Game : gdi[g].known /\ Commit(Dispatch(b(g), To(g, <<p>>)))
        \/ Commit(w)
    BY DEF HandleLoadEntitySomewhere, Candidates
  <1>2. p \in Packet /\ p.type \in {"load", "create"} /\ p.entity = e
    BY DEF Packet
  <1> HIDE DEF w, b, r, p
  <1>3. CASE Commit(w)
    <2>1. PICK s : s = Now
      OBVIOUS
    <2>2. Good(s) /\ Tame(s) /\ s.gdi = gdi /\ s.wire = wire /\ s.id = id /\ s.edi = edi
      BY <2>1, NowTame
    <2>3. Mild(s, w)
      BY <2>1, <2>2, ForWriteMild DEF w
    <2>4. Mildly(s)
      BY <1>3, <2>2, <2>3, CommitMild DEF Mildly
    <2> QED BY <1>0, <2>2, <2>4, MildServed
  <1>4. CASE Unrouted(e) /\ \E g \in Game : gdi[g].known /\ Commit(Dispatch(b(g), To(g, <<p>>)))
    <2>1. PICK g \in Game : gdi[g].known /\ Commit(Dispatch(b(g), To(g, <<p>>)))
      BY <1>4
    <2>2. /\ Good(r(g)) /\ Tame(r(g)) /\ r(g).gdi = gdi /\ r(g).wire = wire /\ r(g).id = id
          /\ \A x \in Entity : r(g).edi[x].gameid = IF x = e THEN g ELSE edi[x].gameid
      BY RouteNow DEF r, w
    <2>3. PICK q : q = r(g)
      OBVIOUS
    <2>4. PICK s : s = BlockRPC(q, e)
      OBVIOUS
    <2>5. Good(q) /\ Tame(q)
      BY <2>2, <2>3
    <2>6. Good(s) /\ s.id = q.id /\ s.gdi = q.gdi /\ Mild(q, s) /\ s.wire = q.wire
      BY <2>4, <2>5, BlockRPCGood, BlockRPCMild
    <2>7. \A x \in Entity : s.edi[x].gameid = q.edi[x].gameid
      <3>1. s.edi = [q.edi EXCEPT ![e].blockUntil = "future"] /\ q.edi \in [Entity -> EntityInfo]
        BY <2>4, <2>5 DEF BlockRPC, Good, Snapshot
      <3> QED BY <3>1 DEF EntityInfo
    <2>8. /\ s.gdi = gdi /\ s.wire = wire /\ s.id = id /\ Tame(s)
          /\ \A x \in Entity : s.edi[x].gameid = IF x = e THEN g ELSE edi[x].gameid
      BY <2>2, <2>3, <2>6, <2>7 DEF Mild
    <2>9. Commit(Dispatch(s, To(g, <<p>>)))
      BY <2>1, <2>3, <2>4 DEF b
    <2>10. ~ LapsedDead(gdi[g])
      BY <1>0, <1>2, <2>1, <2>6, <2>8, <2>9, NotLost
    <2>11. \A d \in Conn : \A n \in ToSet(inbox[d]) : ~ (n.type \in {"notify", "create"} /\ n.entity = e)
      BY <1>0, <1>4 DEF Early
    <2>12. \A d \in Conn : Notes(inbox[d], e) = {} /\ Makes(inbox[d], e) = {}
      <3> SUFFICES ASSUME NEW d \in Conn PROVE Notes(inbox[d], e) = {} /\ Makes(inbox[d], e) = {}
        OBVIOUS
      <3>1. \A i \in 1 .. Len(inbox[d]) : inbox[d][i] \in ToSet(inbox[d])
        <4>1. inbox[d] \in Seq(Request)
          BY DEF Peers
        <4> QED BY <4>1 DEF ToSet
      <3> QED BY <2>11, <3>1 DEF Notes, Makes, At
    <2>13. ~ Noted(e) /\ ~ Made(e)
      BY <2>12 DEF Noted, Made
    <2>14. \A h \in Game : ~ Claims(h, e)
      <3> SUFFICES ASSUME NEW h \in Game, Claims(h, e) PROVE FALSE
        OBVIOUS
      <3>1. edi[e].gameid = h
        BY <2>13, CalmParts DEF Found
      <3> QED BY <1>4, <3>1, NoneAssumption DEF Unrouted
    <2>15. e \in used /\ ~ Made(e)'
      <3>1. Unborn(e)
        BY CalmParts
      <3> QED BY <2>13, <3>1, TakingMade, TakingNoted
    <2> QED BY <1>0, <1>2, <2>1, <2>6, <2>8, <2>9, <2>10, <2>14, <2>15, GivenCalm
  <1> QED BY <1>1, <1>3, <1>4

LEMMA CreateCalm ==
  ASSUME Peers, Peers', Records, Records', [Next]_vars, Calm, NEW c \in Conn, Taking(c), ~ Lost(c),
         NEW e \in Entity, Says(c, "create", e), HandleCreateEntitySomewhere(c, e, None)
  PROVE  Calm'
  <1>0. inbox[c] # <<>> /\ Head(inbox[c]).type = "create" /\ Head(inbox[c]).entity = e /\ link' = link
    BY DEF Taking, Says, HandleCreateEntitySomewhere
  <1> DEFINE r(g) == [ForWrite(Now, e) EXCEPT !.edi[e].gameid = g]
             p == [type |-> "create", entity |-> e]
  <1>1. \/ \E g \in Game : gdi[g].known /\ Commit(Dispatch(r(g), To(g, <<p>>)))
        \/ Commit(Now)
    BY DEF HandleCreateEntitySomewhere, Candidates
  <1>2. p \in Packet /\ p.type \in {"load", "create"} /\ p.entity = e
    BY DEF Packet
  <1> HIDE DEF r, p
  <1>3. CASE Commit(Now)
    <2>1. PICK s : s = Now
      OBVIOUS
    <2>2. Good(s) /\ Tame(s) /\ s.gdi = gdi /\ s.wire = wire /\ s.id = id /\ s.edi = edi
      BY <2>1, NowTame
    <2>3. Mild(s, s)
      BY <2>2, MildSame
    <2>4. Mildly(s)
      BY <1>3, <2>1, <2>2, <2>3, CommitMild DEF Mildly
    <2> QED BY <1>0, <2>2, <2>4, MildServed
  <1>4. CASE \E g \in Game : gdi[g].known /\ Commit(Dispatch(r(g), To(g, <<p>>)))
    <2>1. PICK g \in Game : gdi[g].known /\ Commit(Dispatch(r(g), To(g, <<p>>)))
      BY <1>4
    <2>2. /\ Good(r(g)) /\ Tame(r(g)) /\ r(g).gdi = gdi /\ r(g).wire = wire /\ r(g).id = id
          /\ \A x \in Entity : r(g).edi[x].gameid = IF x = e THEN g ELSE edi[x].gameid
      BY RouteNow DEF r
    <2>3. PICK s : s = r(g)
      OBVIOUS
    <2>4. ~ LapsedDead(gdi[g])
      BY <1>0, <1>2, <2>1, <2>2, NotLost
    <2>5. Unborn(e)
      BY CalmParts
    <2>6. Made(e) /\ ~ Made(e)' /\ e \in used
      BY <2>5, TakingMade
    <2>7. \A h \in Game : ~ Claims(h, e)
      BY <2>5, <2>6 DEF Unborn
    <2>8. Commit(Dispatch(s, To(g, <<p>>)))
      BY <2>1, <2>3
    <2> QED BY <1>0, <1>2, <2>1, <2>2, <2>3, <2>4, <2>6, <2>7, <2>8, GivenCalm
  <1> QED BY <1>1, <1>3, <1>4

\* A game is held back, and told so.
LEMMA FreezeCalm ==
  ASSUME Peers, Peers', Records, Records', [Next]_vars, Calm, NEW c \in Conn, Taking(c),
         Head(inbox[c]).type = "freeze", HandleStartFreezeGame(c)
  PROVE  Calm'
  <1> DEFINE g == id[c]
             i == [gdi[g] EXCEPT !.isBlocked = TRUE, !.blockUntil = "future"]
             r == [Now EXCEPT !.gdi[g] = i]
             p == [type |-> "freezeAck"]
  <1>2. p \in Packet /\ <<p>> \in Seq(Packet) /\ \A x : Bids(<<p>>, x) = {}
    BY DEF Packet, Bids, At
  <1>3. /\ Good(Now) /\ Tame(Now) /\ Now.gdi = gdi /\ Now.wire = wire /\ Now.id = id /\ Now.edi = edi
    BY NowTame
  <1>1. link' = link /\ Commit(IF g \notin Game THEN Now ELSE SendPacket(r, c, <<p>>))
    BY <1>3 DEF HandleStartFreezeGame
  <1>4. \A x \in Entity : ~ Says(c, "notify", x)
    BY DEF Says
  <1>5. CASE g \notin Game
    <2>1. PICK s : s = Now
      OBVIOUS
    <2>2. Mild(s, s)
      BY <1>3, <2>1, MildSame
    <2>3. Mildly(s)
      BY <1>1, <1>3, <1>5, <2>1, <2>2, CommitMild DEF Mildly
    <2> QED BY <1>1, <1>3, <2>1, <2>3, MildServed
  <1>6. CASE g \in Game
    <2>1. gdi[g] \in GameInfo
      BY <1>6, NowTyped DEF Peers
    <2>2. /\ i \in GameInfo /\ i.clientProxy = gdi[g].clientProxy
          /\ i.known = gdi[g].known /\ i.isBlocked /\ i.blockUntil = "future"
          /\ i.pending = gdi[g].pending
      BY <2>1 DEF GameInfo, BlockTime
    <2>3. i.clientProxy # None => i.known /\ id[i.clientProxy] = g
      BY <1>3, <1>6, <2>2 DEF Good, Identified
    <2>4. Queue(i)
      BY <2>2 DEF Queue
    <2>5. c # None /\ id[c] # None
      BY <1>6, NoneAssumption
    <2> HIDE DEF i, g
    <2>6. /\ Good(r) /\ r.gdi[g] = i /\ r.id = id /\ r.edi = edi
          /\ \A h \in Game \ {g} : r.gdi[h] = gdi[h]
      BY <1>3, <1>6, <2>2, <2>3, <2>4, GameUpdate
    <2>7. r.wire = wire
      BY DEF Now
    <2> HIDE DEF r, p
    <2>8. PICK t : t = SendPacket(r, c, <<p>>)
      OBVIOUS
    <2>9. /\ t.gdi = r.gdi /\ t.edi = edi /\ t.id = id
          /\ \A x \in Conn : t.wire[x] = IF x = c /\ link[c] = "open" THEN wire[x] \o <<p>> ELSE wire[x]
      <3>1. LET u == SendPacket(r, c, <<p>>) IN Good(u) /\ u.id = r.id /\ u.edi = r.edi /\ u.gdi = r.gdi
        BY <1>2, <2>6, SendPacketGood
      <3>2. LET u == SendPacket(r, c, <<p>>)
            IN /\ u.gdi = r.gdi /\ u.edi = r.edi
               /\ \A x \in Conn : u.wire[x] = IF x = c /\ link[c] = "open" THEN r.wire[x] \o <<p>> ELSE r.wire[x]
        BY <1>2, <2>6, SendPacketWire
      <3> QED BY <2>6, <2>7, <2>8, <3>1, <3>2
    <2>10. /\ edi' = edi /\ id' = id /\ gdi'[g] = i /\ \A h \in Game \ {g} : gdi'[h] = gdi[h]
           /\ \A x \in Conn : wire'[x] = IF x = c /\ link[c] = "open" THEN wire[x] \o <<p>> ELSE wire[x]
      BY <1>1, <1>6, <2>6, <2>8, <2>9 DEF Commit
    <2>11. Steady(c)
      <3>1. \A h \in Game : gdi'[h].clientProxy = gdi[h].clientProxy /\ (HeldBack(gdi[h]) => HeldBack(gdi'[h]))
        BY <2>2, <2>10 DEF HeldBack
      <3>2. \A d \in Conn : wire'[d] # wire[d] => link[d] = "open" /\ id[d] # None
        BY <2>5, <2>10
      <3>3. Tame(Now)'
        BY <1>3, <2>10 DEF Tame, Now
      <3> QED BY <1>1, <2>10, <3>1, <3>2, <3>3 DEF Steady, HeldBack
    <2>12. UNCHANGED <<cur, live, dump, loading, reg, snap, proc>>
      BY TakingQueue, <1>6 DEF g
    <2>13. ASSUME NEW h \in Game, cur[h] = c PROVE h = g
      <3>1. First(h)
        BY CalmParts
      <3> QED BY <2>5, <2>13, <3>1 DEF First, g
    <2>14. ASSUME NEW h \in Game
           PROVE  /\ \A x \in Entity : Bids(Got(h), x)' = Bids(Got(h), x) /\ Bids(Wait(h), x)' = Bids(Wait(h), x)
                  /\ h # g => Acks(Got(h))' = Acks(Got(h))
                  /\ Acks(Got(h))' = Acks(Got(h)) \/ cur[h] = c
                  /\ Acks(Wait(h))' = Acks(Wait(h))
      <3>1. Wait(h)' = Wait(h)
        BY <2>2, <2>10 DEF Wait
      <3>2. CASE cur[h] # c
        <4>1. Got(h)' = Got(h)
          BY <2>10, <2>12, <3>2 DEF Got, Peers
        <4> QED BY <3>1, <3>2, <4>1 DEF Acks, Bids, At
      <3>3. CASE cur[h] = c
        <4>1. h = g
          BY <2>13, <3>3
        <4>2. PICK q \in Seq(Packet) : q = wire[c]
          BY NowTyped DEF Peers
        <4>3. Got(h) = q /\ Got(h)' \in {q, q \o <<p>>}
          BY <2>5, <2>10, <2>12, <3>3, <4>2 DEF Got
        <4>4. ASSUME NEW x PROVE Bids(q \o <<p>>, x) = Bids(q, x)
          <5> DEFINE K == {"load", "create"}
          <5>1. PICK y \in Seq(Packet) : y = <<p>>
            BY <1>2
          <5>2. At(y, K, x) = {}
            BY <1>2, <5>1 DEF Bids
          <5> HIDE DEF K
          <5>3. At(q \o y, K, x) = At(q, K, x)
            BY <5>2, AtNothing
          <5> QED BY <5>1, <5>3 DEF Bids, K
        <4>5. \A x : Bids(Got(h), x)' = Bids(Got(h), x)
          <5>1. PICK y : y = Got(h)'
            OBVIOUS
          <5>2. \A x : Bids(Got(h), x) = Bids(q, x) /\ Bids(Got(h), x)' = Bids(y, x)
            BY <4>3, <5>1 DEF Bids, At
          <5> QED BY <4>3, <4>4, <5>1, <5>2
        <4> QED BY <3>1, <3>3, <4>1, <4>5, ZenonT(40) DEF Acks, Bids, At
      <3> QED BY <3>2, <3>3
    <2>15. ASSUME NEW h \in Game, NEW x \in Entity PROVE Lean(h, x)
      <3>1. /\ Below(Ends(Sent(h), x)', Ends(Sent(h), x))
            /\ Notes(Sent(h), x)' # {} => Notes(Sent(h), x) # {}
            /\ Listed(h, x)' => Listed(h, x)
            /\ Has(h, x)' <=> Has(h, x)
        BY TakingSent
      <3>2. Below(Bids(Got(h), x)', Bids(Got(h), x)) /\ Below(Bids(Wait(h), x)', Bids(Wait(h), x))
        BY <2>14 DEF Below, One
      <3>3. loading'[h][x] <= loading[h][x]
        BY <2>12 DEF Records
      <3> QED BY <3>1, <3>2, <3>3 DEF Lean, Fewer
    <2>16. ASSUME NEW h \in Game, NEW x \in Entity PROVE Found(h, x)'
      <3>1. (Coming(h, x)' => Coming(h, x)) /\ (Claims(h, x)' => Claims(h, x))
        BY <2>15, LeanClaims, CalmParts
      <3>2. Noted(x) => Noted(x)'
        BY <1>4, TakingNoted
      <3> QED BY <2>10, <3>1, <3>2, FoundStays, CalmParts
    <2>17. ASSUME NEW h \in Game PROVE Freezes(h)'
      <3>1. Freezes(h)
        BY CalmParts
      <3>2. HeldBack(gdi[h]) => HeldBack(gdi[h])'
        BY <2>11 DEF Steady
      <3>3. cur[h] = c => HeldBack(gdi[h])' /\ cur'[h] # None /\ id'[cur'[h]] = h
        BY <2>2, <2>5, <2>10, <2>12, <2>13 DEF HeldBack, g
      <3> QED BY <2>10, <2>12, <2>14, <3>1, <3>2, <3>3 DEF Freezes
    <2> QED BY <2>10, <2>11, <2>14, <2>15, <2>16, <2>17, LeanServed
  <1> QED BY <1>5, <1>6

-----------------------------------------------------------------------------
(* The dispatcher hears of a game                                           *)

\* How the dispatcher takes note of g on c: it cuts the connection g had, gives up what it
\* finds down (Mild), adopts c, and tells the games.
Took(C, F, R, c, g, listed) ==
  /\ C.edi = edi /\ C.wire = wire /\ C.id = [id EXCEPT ![c] = g]
  /\ \A h \in Game : /\ C.gdi[h].clientProxy = IF h = g THEN None ELSE gdi[h].clientProxy
                     /\ HeldBack(C.gdi[h]) <=> HeldBack(gdi[h])
                     /\ C.gdi[h].pending = gdi[h].pending
  /\ Mild(C, F) /\ Good(F)
  /\ Adopts(F, R, c, g, listed)
  /\ Mild(R, Now')

LEMMA SetGameIDSteps ==
  ASSUME Peers, Calm, NEW c \in Conn, NEW g \in Game, NEW eids \in Seq(Entity),
         HandleSetGameID(c, g, eids)
  PROVE  /\ \E C, F, R : Took(C, F, R, c, g, ToSet(eids))
         /\ id[c] = None /\ link' = Closed(gdi[g].clientProxy)
  <1> DEFINE old    == gdi[g].clientProxy
             named  == Named(c, g)
             freed  == IF old = None THEN named ELSE GameDisconnected(named, old)
             taken  == AdoptProxy(freed, c, g)
             routed == AdoptEntities(taken, g, eids)
             ack    == [type |-> "setGameIDAck", ready |-> ready,
                        online |-> {h \in Game : routed.gdi[h].clientProxy # None},
                        reject |-> Rejected(taken, g, eids)]
  <1>1. /\ id[c] = None /\ link' = Closed(old)
        /\ CommitAndCheckReady(Dispatch(SendPacket(routed, c, <<ack>>),
                                        ToAllExcept(g, <<[type |-> "gameUp", game |-> g]>>)), gates)
    BY DEF HandleSetGameID
  <1>2. ack \in Light
    <2>1. ready \in BOOLEAN
      BY DEF Peers, Inv
    <2>2. Rejected(taken, g, eids) \in SUBSET Entity
      <3> HIDE DEF taken
      <3> QED BY DEF Rejected, ToSet
    <2>3. {h \in Game : routed.gdi[h].clientProxy # None} \in SUBSET Game
      OBVIOUS
    <2> HIDE DEF taken, routed
    <2> QED BY <2>1, <2>2, <2>3 DEF Light, Packet
  <1> HIDE DEF named, freed, taken, routed
  <1>3. /\ Good(named) /\ named.id = [id EXCEPT ![c] = g] /\ named.gdi = gdi
        /\ old # None => named.id[old] = g
        /\ named.edi = edi /\ named.wire = wire /\ named.id[c] = g
    <2>1. Inv /\ g \in Game \cup Gate
      BY DEF Peers
    <2>2. LET s == Named(c, g)
          IN /\ Good(s) /\ s.id = [id EXCEPT ![c] = g] /\ s.gdi = gdi
             /\ s.id[c] = g
             /\ \A t \in Gate : gates[t] # None => gates[t] # c /\ s.id[gates[t]] = t
             /\ \A x \in Game : gdi[x].clientProxy # None =>
                  gdi[x].clientProxy # c /\ s.id[gdi[x].clientProxy] = x
      BY <1>1, <2>1, NamedGood
    <2>3. named.edi = edi /\ named.wire = wire
      BY DEF named, Named, Now
    <2> QED BY <2>2, <2>3 DEF named
  <1>4. Tame(named)
    <2>1. Tame(Now) /\ Now.edi = edi
      BY NowTame
    <2> QED BY <1>3, <2>1 DEF Tame
  <1>5. old # None => old \in Conn
    BY NowTyped DEF GameInfo, Peers
  <1>6. /\ \E C : Cut(named, C, g) /\ Mild(C, freed)
        /\ Good(freed)
    <2>1. CASE old = None
      <3>1. freed = named /\ Mild(named, named)
        BY <1>4, <2>1, MildSame DEF freed
      <3>2. Cut(named, named, g)
        BY <1>3, <1>4, <2>1 DEF Cut
      <3> QED BY <1>3, <3>1, <3>2
    <2>2. CASE old # None
      <3>1. freed = GameDisconnected(named, old) /\ named.id[old] = g /\ old \in Conn
            /\ named.gdi[g].clientProxy = old
        BY <1>3, <1>5, <2>2 DEF freed
      <3> HIDE DEF old
      <3>2. \E C : Cut(named, C, g) /\ Mild(C, freed)
        BY <1>3, <1>4, <3>1, GameDisconnectedMild
      <3>3. Good(freed)
        BY <1>3, <3>1, GameDisconnectedGood
      <3> QED BY <3>2, <3>3
    <2> QED BY <2>1, <2>2
  <1>7. PICK C : Cut(named, C, g) /\ Mild(C, freed)
    BY <1>6
  <1>8. /\ C.edi = edi /\ C.wire = wire /\ C.id = [id EXCEPT ![c] = g]
        /\ \A h \in Game : /\ C.gdi[h].clientProxy = IF h = g THEN None ELSE gdi[h].clientProxy
                           /\ HeldBack(C.gdi[h]) <=> HeldBack(gdi[h])
                           /\ C.gdi[h].pending = gdi[h].pending
    BY <1>3, <1>7 DEF Cut
  <1>9. freed.id[c] = g /\ Tame(freed)
    BY <1>3, <1>7 DEF Cut, Mild
  <1>10. Good(taken) /\ taken.edi = freed.edi /\ Adopts(freed, taken, c, g, {})
    BY <1>6, <1>9, AdoptProxyMild DEF taken
  <1>11. PICK R : /\ Adopts(freed, R, c, g, ToSet(eids)) /\ Mild(R, routed)
                  /\ Good(routed)
    BY <1>10, AdoptEntitiesMild DEF routed
  <1>12. Tame(routed) /\ routed.id[c] # None
    BY <1>9, <1>11, NoneAssumption DEF Adopts, Mild
  <1>13. Mild(routed, Now')
    <2> HIDE DEF ack
    <2> QED BY <1>1, <1>2, <1>11, <1>12, AnswerMild
  <1>14. Mild(R, Now')
    BY <1>11, <1>13, MildTrans
  <1>15. Took(C, freed, R, c, g, ToSet(eids))
    BY <1>6, <1>7, <1>8, <1>11, <1>14 DEF Took
  <1> QED BY <1>1, <1>15

LEMMA JoinedBelow ==
  ASSUME NEW w \in Seq(Packet), NEW p \in Seq(Packet), NEW x, Bids(w, x) = {}
  PROVE  Below(Bids(w \o p, x), Bids(p, x))
  <1> DEFINE K == {"load", "create"}
  <1>1. \A i \in At(w \o p, K, x) :
           i \in At(w, K, x) \/ (i - Len(w) \in At(p, K, x) /\ i > Len(w))
    <2> HIDE DEF K
    <2> QED BY AtConcat
  <1>2. \A i \in At(w \o p, K, x) : i \in Int
    BY DEF At
  <1>3. At(w, K, x) = {}
    BY DEF Bids
  <1> HIDE DEF K
  <1>4. \A i \in At(w \o p, K, x) : i \in Int /\ i - Len(w) \in At(p, K, x)
    BY <1>1, <1>2, <1>3
  <1>5. Len(w) \in Nat
    OBVIOUS
  <1>6. ASSUME One(At(p, K, x)), NEW i \in At(w \o p, K, x), NEW j \in At(w \o p, K, x) PROVE i = j
    <2>1. i - Len(w) = j - Len(w) /\ i \in Int /\ j \in Int
      BY <1>4, <1>6 DEF One
    <2> QED BY <1>5, <2>1
  <1>7. Below(At(w \o p, K, x), At(p, K, x))
    BY <1>4, <1>6 DEF Below, One
  <1> QED BY <1>7 DEF Bids, K

\* Of what is held for a game that is adopted, all goes to it or nothing.
LEMMA AdoptedAcks ==
  ASSUME NEW w \in Seq(Packet), NEW p \in Seq(Packet), NEW w1, NEW p1,
         \/ p1 = p /\ w1 = w
         \/ p1 = <<>> /\ (w1 = w \/ w1 = w \o p),
         Acks(w) = {}, Acks(p) = {}
  PROVE  Acks(w1) = {} /\ Acks(p1) = {}
  <1>1. \A i \in Acks(w \o p) : i \in Acks(w) \/ i - Len(w) \in Acks(p)
    BY AtConcat
  <1>2. Acks(<<>>) = {}
    BY AtEmpty
  <1> QED BY <1>1, <1>2

\* Who speaks to whom then.
LEMMA TookFrame ==
  ASSUME Peers, Peers', NEW c \in Conn, NEW g \in Game, NEW listed, NEW C, NEW F, NEW R,
         Took(C, F, R, c, g, listed)
  PROVE  /\ Tame(Now)' /\ id' = [id EXCEPT ![c] = g]
         /\ \A h \in Game : gdi'[h].clientProxy = IF h = g THEN c ELSE gdi[h].clientProxy
         /\ \A h \in Game \ {g} : HeldBack(gdi[h])' <=> HeldBack(gdi[h])
         /\ ~ HeldBack(gdi[g])'
         /\ \A d \in Conn : wire'[d] # wire[d] => link[d] = "open" /\ id'[d] # None
  <1>1. PICK u : u = Now'
    OBVIOUS
  <1>2. u.gdi = gdi' /\ u.wire = wire' /\ u.id = id'
    BY <1>1 DEF Now
  <1>3. Mild(C, F) /\ Adopts(F, R, c, g, listed) /\ Mild(R, u)
    BY <1>1 DEF Took
  <1>4. id' = [id EXCEPT ![c] = g]
    BY <1>2, <1>3 DEF Took, Mild, Adopts
  <1>5. \A h \in Game : gdi'[h].clientProxy = IF h = g THEN c ELSE gdi[h].clientProxy
    <2>1. ASSUME NEW h \in Game PROVE gdi'[h].clientProxy = R.gdi[h].clientProxy
      BY <1>2, <1>3 DEF Mild
    <2>2. R.gdi[g].clientProxy = c /\ \A h \in Game \ {g} : R.gdi[h] = F.gdi[h]
      BY <1>3 DEF Adopts
    <2>3. ASSUME NEW h \in Game, h # g PROVE F.gdi[h].clientProxy = gdi[h].clientProxy
      BY <1>3, <2>3 DEF Took, Mild
    <2> QED BY <2>1, <2>2, <2>3
  <1>6. \A h \in Game \ {g} : HeldBack(gdi'[h]) <=> HeldBack(gdi[h])
    BY <1>2, <1>3 DEF Took, Mild, Adopts
  <1>7. ~ HeldBack(gdi'[g])
    BY <1>2, <1>3 DEF Mild, Adopts
  <1>8. ASSUME NEW d \in Conn, wire'[d] # wire[d] PROVE link[d] = "open" /\ id'[d] # None
    <2>1. C.wire = wire /\ F.id = C.id /\ R.id = F.id /\ u.id = R.id /\ u.wire = wire' /\ u.id = id'
      BY <1>2, <1>3 DEF Took, Mild, Adopts
    <2>2. CASE F.wire[d] # C.wire[d]
      BY <1>3, <2>1, <2>2 DEF Mild
    <2>3. CASE R.wire[d] # F.wire[d]
      <3>1. d = c /\ link[c] = "open"
        BY <1>3, <2>3 DEF Adopts
      <3>2. id'[c] = g
        BY <1>4, NowTyped DEF Peers
      <3> QED BY <3>1, <3>2, NoneAssumption
    <2>4. CASE u.wire[d] # R.wire[d]
      BY <1>3, <2>1, <2>4 DEF Mild
    <2> QED BY <1>8, <2>1, <2>2, <2>3, <2>4
  <1>9. Tame(u)
    BY <1>3 DEF Mild
  <1> QED BY <1>1, <1>4, <1>5, <1>6, <1>7, <1>8, <1>9 DEF HeldBack

\* What the other games get.
LEMMA TookOthers ==
  ASSUME Peers, Peers', cur' = cur, NEW c \in Conn, NEW g \in Game, NEW listed, NEW C, NEW F, NEW R,
         Took(C, F, R, c, g, listed), NEW h \in Game, h # g, cur[h] # c
  PROVE  /\ \A x \in Entity : /\ Bids(Got(h), x)' = Bids(Got(h), x)
                              /\ Bids(Wait(h), x)' \subseteq Bids(Wait(h), x)
                              /\ Bids(Wait(h), x)' \subseteq Bids(F.gdi[h].pending, x)
         /\ Acks(Got(h))' = Acks(Got(h)) /\ Acks(Wait(h))' \subseteq Acks(Wait(h))
  <1>1. PICK u : u = Now'
    OBVIOUS
  <1>2. u.gdi = gdi' /\ u.wire = wire'
    BY <1>1 DEF Now
  <1>3. Mild(C, F) /\ Adopts(F, R, c, g, listed) /\ Mild(R, u)
    BY <1>1 DEF Took
  <1>4. /\ Acks(gdi'[h].pending) \subseteq Acks(gdi[h].pending)
        /\ \A x \in Entity : Bids(gdi'[h].pending, x) \subseteq Bids(gdi[h].pending, x)
        /\ \A x \in Entity : Bids(gdi'[h].pending, x) \subseteq Bids(F.gdi[h].pending, x)
    <2>1. R.gdi[h] = F.gdi[h] /\ C.gdi[h].pending = gdi[h].pending
      BY <1>3 DEF Adopts, Took
    <2> QED BY <1>2, <1>3, <2>1 DEF Mild
  <1>5. PICK q : q = gdi'[h].pending
    OBVIOUS
  <1>6. Acks(Wait(h))' = Acks(q) /\ \A x : Bids(Wait(h), x)' = Bids(q, x)
    BY <1>5 DEF Wait, Acks, Bids, At
  <1>7. ASSUME NEW d \in Conn, d # c
        PROVE  Acks(wire'[d]) = Acks(wire[d]) /\ \A x \in Entity : Bids(wire'[d], x) = Bids(wire[d], x)
    <2>1. R.wire[d] = F.wire[d] /\ C.wire[d] = wire[d]
      BY <1>3, <1>7 DEF Adopts, Took
    <2> QED BY <1>2, <1>3, <2>1 DEF Mild
  <1>8. Acks(Got(h))' = Acks(Got(h)) /\ \A x \in Entity : Bids(Got(h), x)' = Bids(Got(h), x)
    <2>1. CASE cur[h] = None
      <3>1. Got(h)' = Got(h)
        BY <2>1 DEF Got
      <3> QED BY <3>1 DEF Acks, Bids, At
    <2>2. CASE cur[h] # None
      <3>1. cur[h] \in Conn
        BY <2>2 DEF Peers
      <3>2. PICK r : r = wire'[cur[h]]
        OBVIOUS
      <3>3. Got(h)' = r /\ Got(h) = wire[cur[h]]
        BY <2>2, <3>2 DEF Got
      <3>4. Acks(Got(h))' = Acks(r) /\ \A x : Bids(Got(h), x)' = Bids(r, x)
        BY <3>3 DEF Acks, Bids, At
      <3>5. Acks(r) = Acks(wire[cur[h]]) /\ \A x \in Entity : Bids(r, x) = Bids(wire[cur[h]], x)
        BY <1>7, <3>1, <3>2
      <3> QED BY <3>3, <3>4, <3>5
    <2> QED BY <2>1, <2>2
  <1> QED BY <1>4, <1>5, <1>6, <1>8 DEF Wait

\* What g gets: what was held for it when it was taken, if anything.
LEMMA TookOwn ==
  ASSUME Peers, Peers', cur' = cur, NEW c \in Conn, NEW g \in Game, NEW listed, NEW C, NEW F, NEW R,
         Took(C, F, R, c, g, listed), cur[g] = c
  PROVE  /\ \A x \in Entity : Bids(Got(g), x) = {} =>
              \/ Bids(Got(g), x)' = {} /\ Bids(Wait(g), x)' \subseteq Bids(F.gdi[g].pending, x)
              \/ Bids(Wait(g), x)' = {} /\ Below(Bids(Got(g), x)', Bids(F.gdi[g].pending, x))
         /\ \A x \in Entity : Bids(F.gdi[g].pending, x) \subseteq Bids(Wait(g), x)
         /\ Acks(Got(g)) = {} /\ Acks(Wait(g)) = {} => Acks(Got(g))' = {} /\ Acks(Wait(g))' = {}
  <1>1. PICK u : u = Now'
    OBVIOUS
  <1>2. u.gdi = gdi' /\ u.wire = wire'
    BY <1>1 DEF Now
  <1>3. Mild(C, F) /\ Adopts(F, R, c, g, listed) /\ Mild(R, u)
    BY <1>1 DEF Took
  <1>4. F.wire[c] \in Seq(Packet) /\ F.gdi[g].pending \in Seq(Packet)
    BY DEF Took, Good, Snapshot, GameInfo
  <1>5. PICK w \in Seq(Packet), p \in Seq(Packet) : w = F.wire[c] /\ p = F.gdi[g].pending
    BY <1>4
  <1>6. PICK w1, p1 : w1 = R.wire[c] /\ p1 = R.gdi[g].pending
    OBVIOUS
  <1>7. PICK w2, p2 : w2 = u.wire[c] /\ p2 = u.gdi[g].pending
    OBVIOUS
  <1>8. \/ p1 = p /\ w1 = w
        \/ p1 = <<>> /\ (w1 = w \/ w1 = w \o p)
    BY <1>3, <1>5, <1>6 DEF Adopts
  <1>9. /\ \A x \in Entity : Bids(w2, x) = Bids(w1, x) /\ Bids(p2, x) \subseteq Bids(p1, x)
        /\ Acks(w2) = Acks(w1) /\ Acks(p2) \subseteq Acks(p1)
    BY <1>3, <1>6, <1>7 DEF Mild
  <1>10. /\ \A x \in Entity : Bids(w, x) = Bids(Got(g), x) /\ Bids(p, x) \subseteq Bids(Wait(g), x)
         /\ Acks(w) = Acks(Got(g)) /\ Acks(p) \subseteq Acks(Wait(g))
    <2>1. Got(g) = wire[c] /\ Wait(g) = gdi[g].pending
      BY NoneAssumption DEF Got, Wait
    <2>2. C.wire = wire /\ C.gdi[g].pending = gdi[g].pending
      BY DEF Took
    <2> QED BY <1>3, <1>5, <2>1, <2>2, ZenonT(40) DEF Mild
  <1>11. /\ \A x : Bids(w2, x) = Bids(Got(g), x)' /\ Bids(p2, x) = Bids(Wait(g), x)'
         /\ Acks(w2) = Acks(Got(g))' /\ Acks(p2) = Acks(Wait(g))'
    <2>1. w2 = Got(g)' /\ p2 = Wait(g)'
      BY <1>2, <1>7, NoneAssumption DEF Got, Wait
    <2> QED BY <2>1 DEF Acks, Bids, At
  <1>12. ASSUME NEW x \in Entity, Bids(w, x) = {}
         PROVE  \/ Bids(w2, x) = {} /\ Bids(p2, x) \subseteq Bids(p, x)
                \/ Bids(p2, x) = {} /\ Below(Bids(w2, x), Bids(p, x))
    <2>1. Bids(w2, x) = Bids(w1, x) /\ Bids(p2, x) \subseteq Bids(p1, x)
      BY <1>9
    <2>2. Bids(<<>>, x) = {}
      <3> DEFINE K == {"load", "create"}
      <3> HIDE DEF K
      <3>1. At(<<>>, K, x) = {}
        BY AtEmpty
      <3> QED BY <3>1 DEF Bids, K
    <2>3. Below(Bids(w \o p, x), Bids(p, x)) /\ Below({}, Bids(p, x))
      BY <1>12, JoinedBelow DEF Below, One
    <2>4. CASE p1 = p /\ w1 = w
      BY <1>12, <2>1, <2>4
    <2>5. CASE p1 = <<>> /\ w1 = w
      BY <1>12, <2>1, <2>2, <2>3, <2>5
    <2>6. CASE p1 = <<>> /\ w1 = w \o p
      BY <2>1, <2>2, <2>3, <2>6
    <2> QED BY <1>8, <2>4, <2>5, <2>6
  <1>13. Acks(w) = {} /\ Acks(p) = {} => Acks(w2) = {} /\ Acks(p2) = {}
    BY <1>8, <1>9, AdoptedAcks
  <1> QED BY <1>5, <1>10, <1>11, <1>12, <1>13

\* A game that is given up: there is nothing for it then.
Dropped(h, x) ==
  /\ h \in Game /\ Away(h) /\ ~ HeldBack(gdi[h])
  /\ Bids(Got(h), x)' = {} /\ Bids(Wait(h), x)' = {}

\* The route of x: kept; to g, if x is listed; or given up with its game.
LEMMA TookRoutes ==
  ASSUME Peers, Peers', Calm, cur' = cur, NEW c \in Conn, NEW g \in Game, NEW listed, NEW C, NEW F, NEW R,
         Took(C, F, R, c, g, listed), cur[g] = c, id[c] = None, NEW x \in Entity
  PROVE  \/ edi'[x].gameid = IF x \in listed /\ edi[x].gameid \in {g, None} THEN g ELSE edi[x].gameid
         \/ x \in listed /\ edi'[x].gameid = g
         \/ /\ edi'[x].gameid = None /\ (x \in listed => edi[x].gameid \notin {g, None})
            /\ Dropped(edi[x].gameid, x)
  <1>1. PICK u : u = Now'
    OBVIOUS
  <1>2. u.gdi = gdi' /\ u.wire = wire' /\ u.edi = edi'
    BY <1>1 DEF Now
  <1>3. Mild(C, F) /\ Adopts(F, R, c, g, listed) /\ Mild(R, u)
    BY <1>1 DEF Took
  <1>4. Away(g) /\ c # None
    BY CalmParts, NoneAssumption DEF First, Away
  <1>5. \A h \in Game : Away(h) => Bids(Got(h), x) = {}
    BY CalmParts DEF Absent
  <1>6. \A h \in Game \ {g} : cur[h] # c
    BY <1>4, CalmParts DEF Linked
  <1>7. ASSUME NEW h \in Game, h # g, gdi[h].clientProxy = None, ~ HeldBack(gdi[h]),
               Bids(gdi'[h].pending, x) = {} \/ Bids(F.gdi[h].pending, x) = {}
        PROVE  Dropped(h, x)
    <2>1. Away(h)
      BY <1>7 DEF Away
    <2>2. Bids(Got(h), x)' = Bids(Got(h), x) /\ Bids(Wait(h), x)' \subseteq Bids(F.gdi[h].pending, x)
      BY <1>6, <1>7, TookOthers
    <2>3. PICK q : q = gdi'[h].pending
      OBVIOUS
    <2>4. Bids(Wait(h), x)' = Bids(q, x)
      BY <2>3 DEF Wait, Bids, At
    <2> QED BY <1>5, <1>7, <2>1, <2>2, <2>3, <2>4 DEF Dropped
  <1>8. ASSUME ~ HeldBack(gdi[g]), Bids(F.gdi[g].pending, x) = {}
        PROVE  Dropped(g, x)
    <2>1. \/ Bids(Got(g), x)' = {} /\ Bids(Wait(g), x)' \subseteq Bids(F.gdi[g].pending, x)
          \/ Bids(Wait(g), x)' = {} /\ Below(Bids(Got(g), x)', Bids(F.gdi[g].pending, x))
      BY <1>4, <1>5, TookOwn
    <2>2. Bids(Got(g), x)' = {} /\ Bids(Wait(g), x)' = {}
      BY <1>8, <2>1 DEF Below
    <2> QED BY <1>4, <1>8, <2>2 DEF Dropped
  <1>9. /\ \/ F.edi[x].gameid = edi[x].gameid
           \/ F.edi[x].gameid = None /\ Fallen(C, F, edi[x].gameid)
        /\ R.edi[x].gameid = IF x \in listed /\ F.edi[x].gameid \in {g, None}
                             THEN g ELSE F.edi[x].gameid
        /\ \/ edi'[x].gameid = R.edi[x].gameid
           \/ edi'[x].gameid = None /\ Fallen(R, u, R.edi[x].gameid)
    BY <1>2, <1>3 DEF Mild, Took, Adopts
  <1>10. ~ Fallen(R, u, g) /\ ~ Fallen(R, u, None)
    BY <1>3, <1>4, NoneAssumption DEF Fallen, Adopts
  <1>11. ASSUME NEW h, Fallen(C, F, h) PROVE Dropped(h, x)
    <2>1. h \in Game /\ C.gdi[h].clientProxy = None /\ ~ HeldBack(C.gdi[h])
          /\ Bids(F.gdi[h].pending, x) = {}
      BY <1>11 DEF Fallen
    <2>2. /\ C.gdi[h].clientProxy = IF h = g THEN None ELSE gdi[h].clientProxy
          /\ HeldBack(C.gdi[h]) <=> HeldBack(gdi[h])
      BY <2>1 DEF Took
    <2> QED BY <1>7, <1>8, <2>1, <2>2
  <1>12. ASSUME NEW h, Fallen(R, u, h), h # g PROVE Dropped(h, x)
    <2>1. h \in Game /\ R.gdi[h].clientProxy = None /\ ~ HeldBack(R.gdi[h])
          /\ Bids(u.gdi[h].pending, x) = {}
      BY <1>12 DEF Fallen
    <2>2. /\ R.gdi[h] = F.gdi[h]
          /\ F.gdi[h].clientProxy = C.gdi[h].clientProxy
          /\ HeldBack(F.gdi[h]) <=> HeldBack(C.gdi[h])
          /\ C.gdi[h].clientProxy = gdi[h].clientProxy
          /\ HeldBack(C.gdi[h]) <=> HeldBack(gdi[h])
      BY <1>3, <1>12, <2>1 DEF Adopts, Mild, Took
    <2> QED BY <1>2, <1>7, <1>12, <2>1, <2>2
  <1>13. CASE F.edi[x].gameid = edi[x].gameid /\ edi'[x].gameid = R.edi[x].gameid
    BY <1>9, <1>13
  <1>14. CASE F.edi[x].gameid = edi[x].gameid /\ edi'[x].gameid = None /\ Fallen(R, u, R.edi[x].gameid)
    BY <1>9, <1>10, <1>12, <1>14
  <1>15. CASE F.edi[x].gameid = None /\ Fallen(C, F, edi[x].gameid)
    <2>1. Dropped(edi[x].gameid, x)
      BY <1>11, <1>15
    <2>2. edi'[x].gameid = IF x \in listed THEN g ELSE None
      BY <1>9, <1>10, <1>15
    <2> QED BY <2>1, <2>2
  <1> QED BY <1>9, <1>13, <1>14, <1>15

\* What is found of a game that is given up.
LEMMA DroppedFound ==
  ASSUME Peers, Peers', Calm, NEW c \in Conn, Taking(c), Head(inbox[c]).type = "setGameID",
         NEW h \in Game, NEW x \in Entity, Dropped(h, x)
  PROVE  ~ Coming(h, x)' /\ (Claims(h, x)' => Noted(x)')
  <1>1. /\ ~ Loads(h, x) /\ ~ Listed(h, x)
        /\ Has(h, x) \/ Ends(Sent(h), x) # {} => Notes(Sent(h), x) # {}
    BY CalmParts DEF Dropped, Absent
  <1>2. /\ Ends(Sent(h), x)' # {} => Ends(Sent(h), x) # {}
        /\ Notes(Sent(h), x)' # {} => Notes(Sent(h), x) # {}
        /\ Listed(h, x)' => Listed(h, x)
        /\ Has(h, x)' <=> Has(h, x)
        /\ Loads(h, x)' <=> Loads(h, x)
    BY TakingSent DEF Below
  <1>3. ~ Coming(h, x)'
    BY <1>1, <1>2 DEF Dropped, Coming
  <1>4. Notes(Sent(h), x) # {} => Noted(x)
    <2>1. CASE cur[h] # None /\ link[cur[h]] # "gone"
      <3>1. Sent(h) = inbox[cur[h]] /\ cur[h] \in Conn
        BY <2>1 DEF Sent, Peers
      <3> QED BY <3>1 DEF Noted
    <2>2. CASE ~ (cur[h] # None /\ link[cur[h]] # "gone")
      BY <2>2 DEF Sent, Notes, At
    <2> QED BY <2>1, <2>2
  <1>5. Noted(x) => Noted(x)'
    BY TakingNoted DEF Says
  <1> QED BY <1>1, <1>2, <1>3, <1>4, <1>5 DEF Claims

\* The dispatcher hears of g on c: what changes but for routes and packets.
Joins(c, g) ==
  /\ Taking(c) /\ cur[g] = c /\ c # None /\ id[c] = None /\ Away(g)
  /\ \A h \in Game \ {g} : cur[h] # c
  /\ id' = [id EXCEPT ![c] = g]
  /\ \A h \in Game : gdi'[h].clientProxy = IF h = g THEN c ELSE gdi[h].clientProxy
  /\ \A h \in Game \ {g} : HeldBack(gdi[h])' <=> HeldBack(gdi[h])
  /\ \A h \in Game : cur[h] # None => link'[cur[h]] = link[cur[h]]
  /\ \A d \in Conn : link'[d] = "unused" => link[d] = "unused"
  /\ \A d \in Conn : wire'[d] # wire[d] => link[d] = "open" /\ id'[d] # None
  /\ Tame(Now)'

LEMMA SetGameIDJoins ==
  ASSUME Peers, Peers', Calm, NEW c \in Conn, Taking(c), ~ Late(c),
         Head(inbox[c]).type = "setGameID", NEW g \in Game, Head(inbox[c]).game = g,
         NEW eids \in Seq(Entity), HandleSetGameID(c, g, eids)
  PROVE  Joins(c, g) /\ \E C, F, R : Took(C, F, R, c, g, ToSet(eids))
  <1>1. /\ \E C, F, R : Took(C, F, R, c, g, ToSet(eids))
        /\ id[c] = None /\ link' = Closed(gdi[g].clientProxy)
    BY SetGameIDSteps
  <1>2. link[c] # "gone" /\ \E h \in Game : cur[h] = c
    BY DEF Late
  <1>3. PICK h \in Game : cur[h] = c
    BY <1>2
  <1>4. c # None /\ inbox[c] \in Seq(Request) /\ inbox[c] # <<>>
    BY NoneAssumption DEF Taking, Peers
  <1>5. Head(inbox[c]) = inbox[c][1]
    BY <1>4
  <1>6. h = g /\ cur[g] = c
    BY <1>1, <1>3, <1>4, <1>5, CalmParts DEF First
  <1>7. Away(g)
    BY <1>1, <1>4, <1>6, CalmParts DEF First, Away
  <1>8. \A x \in Game \ {g} : cur[x] # c
    BY <1>4, <1>6, CalmParts DEF Linked
  <1>9. ASSUME NEW x \in Game, cur[x] # None PROVE link'[cur[x]] = link[cur[x]]
    <2> DEFINE old == gdi[g].clientProxy
    <2>1. link \in [Conn -> {"unused", "open", "closed", "gone"}] /\ cur[x] \in Conn
      BY <1>9 DEF Peers, Inv
    <2>2. old # None => id[old] = g
      BY NowTyped DEF Peers, Inv, Good, Identified
    <2>3. id[cur[x]] \in {x, None}
      BY <1>9, CalmParts DEF First
    <2>4. old = cur[x] => x = g
      BY <1>9, <2>2, <2>3, NoneAssumption
    <2>5. old # cur[x]
      BY <1>1, <1>4, <1>6, <2>2, <2>4, NoneAssumption
    <2> HIDE DEF old
    <2>6. link' = Closed(old)
      BY <1>1 DEF old
    <2> QED BY <2>1, <2>5, <2>6 DEF Closed
  <1>10. \A d \in Conn : link'[d] = "unused" => link[d] = "unused"
    BY <1>1 DEF Closed, Peers, Inv
  <1>11. /\ Tame(Now)' /\ id' = [id EXCEPT ![c] = g]
         /\ \A x \in Game : gdi'[x].clientProxy = IF x = g THEN c ELSE gdi[x].clientProxy
         /\ \A x \in Game \ {g} : HeldBack(gdi[x])' <=> HeldBack(gdi[x])
         /\ \A d \in Conn : wire'[d] # wire[d] => link[d] = "open" /\ id'[d] # None
    BY <1>1, TookFrame
  <1> QED BY <1>1, <1>4, <1>6, <1>7, <1>8, <1>9, <1>10, <1>11 DEF Joins

LEMMA JoinsLines ==
  ASSUME Peers, Peers', [Next]_vars, Calm, NEW c \in Conn, NEW g \in Game, Joins(c, g)
  PROVE  Lines'
  <1>1. /\ Linked
        /\ \A d \in Conn : link[d] = "unused" => inbox[d] = <<>> /\ wire[d] = <<>> /\ id[d] = None
        /\ \A d \in Conn : \A i \in 1 .. Len(inbox[d]) : inbox[d][i].type \in Said
    BY CalmParts
  <1>2. inbox[c] \in Seq(Request) /\ inbox[c] # <<>> /\ inbox'[c] = Tail(inbox[c])
        /\ \A d \in Conn \ {c} : inbox'[d] = inbox[d]
    BY DEF Joins, Taking, Peers
  <1>3. Linked'
    <2>1. cur' = cur
      BY DEF Joins, Taking, gameVars
    <2> QED BY <1>1, <2>1, LinkedStep
  <1>4. ASSUME NEW d \in Conn, link'[d] = "unused"
        PROVE  inbox'[d] = <<>> /\ wire'[d] = <<>> /\ id'[d] = None
    <2>1. link[d] = "unused"
      BY <1>4 DEF Joins
    <2>2. d # c
      BY <1>1, <1>2, <2>1
    <2>3. wire'[d] = wire[d] /\ id'[d] = id[d]
      BY <2>1, <2>2, NowTyped DEF Joins, Peers
    <2> QED BY <1>1, <1>2, <2>1, <2>2, <2>3
  <1>5. ASSUME NEW d \in Conn, NEW i \in 1 .. Len(inbox'[d]) PROVE inbox'[d][i].type \in Said
    <2>1. CASE d # c
      BY <1>1, <1>2, <1>5, <2>1
    <2>2. CASE d = c
      <3>1. PICK q \in Seq(Request) : q = inbox[c]
        BY <1>2
      <3>2. q # <<>> /\ inbox'[d] = Tail(q)
        BY <1>2, <2>2, <3>1
      <3>3. \A j \in 1 .. Len(Tail(q)) : Tail(q)[j] = q[j + 1] /\ j + 1 \in 1 .. Len(q)
        BY <3>2
      <3>4. i \in 1 .. Len(Tail(q))
        BY <1>5, <3>2
      <3> QED BY <1>1, <2>2, <3>1, <3>2, <3>3, <3>4
    <2> QED BY <2>1, <2>2
  <1>6. \A e \in Entity : edi'[e].pending \in Seq(Light)
    BY DEF Joins, Tame, Now
  <1> QED BY <1>3, <1>4, <1>5, <1>6 DEF Lines

LEMMA JoinsGame ==
  ASSUME Peers, Peers', Calm, NEW c \in Conn, NEW g \in Game, Joins(c, g), NEW h \in Game
  PROVE  Lives(h)' /\ First(h)'
  <1>1. Lives(h) /\ First(h) /\ First(g)
    BY CalmParts
  <1>2. Taking(c)
    BY DEF Joins
  <1>3. /\ inbox[c] \in Seq(Request) /\ inbox'[c] = Tail(inbox[c]) /\ inbox[c] # <<>>
        /\ \A d \in Conn \ {c} : inbox'[d] = inbox[d]
        /\ UNCHANGED <<cur, live, dump, loading, reg, snap, proc>>
    BY <1>2, TakingQueue DEF Taking
  <1>4. cur[h] \in Conn \cup {None} /\ cur[g] = c /\ c # None /\ id[c] = None
        /\ (h # g => cur[h] # c)
    BY DEF Joins, Peers
  <1>5. /\ cur[h] # None => link'[cur[h]] = link[cur[h]]
        /\ id' = [id EXCEPT ![c] = g] /\ id \in [Conn -> Game \cup Gate \cup {None}]
        /\ gdi'[h].clientProxy = IF h = g THEN c ELSE gdi[h].clientProxy
        /\ \A d \in Conn : wire'[d] # wire[d] => link[d] = "open" /\ id'[d] # None
    BY NowTyped DEF Joins, Peers
  <1>6. \A d \in Conn : id'[d] = IF d = c THEN g ELSE id[d]
    BY <1>5
  <1>7. Running(h)' <=> Running(h)
    BY <1>3 DEF Running
  <1>8. Lives(h)'
    <2>1. cur[h] # None /\ inbox[cur[h]] = <<>> => inbox'[cur[h]] = <<>> /\ cur[h] # c
      BY <1>3, <1>4
    <2>2. cur[h] # None /\ (link[cur[h]] # "open" \/ (id[cur[h]] = None /\ cur[h] # c))
            => wire'[cur[h]] = wire[cur[h]]
      BY <1>4, <1>5, <1>6
    <2>3. cur[h] # None /\ cur[h] # c => id'[cur[h]] = id[cur[h]]
      BY <1>4, <1>6
    <2> QED BY <1>1, <1>3, <1>5, <1>7, <2>1, <2>2, <2>3 DEF Lives
  <1>9. CASE h # g
    <2>1. cur[h] # None => inbox'[cur[h]] = inbox[cur[h]] /\ id'[cur[h]] = id[cur[h]]
      BY <1>3, <1>4, <1>6, <1>9
    <2>2. First(h)'
      BY <1>1, <1>3, <1>5, <1>7, <1>9, <2>1 DEF First
    <2> QED BY <1>8, <2>2
  <1>10. CASE h = g
    <2>1. PICK q \in Seq(Request) : q = inbox[c]
      BY <1>3
    <2>2. /\ q # <<>> /\ Len(q) \in Nat
          /\ \A i \in 1 .. Len(Tail(q)) : Tail(q)[i] = q[i + 1] /\ i + 1 \in 1 .. Len(q) /\ i + 1 # 1
      BY <1>3, <2>1
    <2>3. \A i \in 1 .. Len(q) : q[i].type = "setGameID" => i = 1
      BY <1>1, <1>4, <2>1 DEF First
    <2>4. \A i \in 1 .. Len(inbox'[c]) : inbox'[c][i].type # "setGameID"
      BY <1>3, <2>1, <2>2, <2>3
    <2>5. id'[c] = g /\ g # None /\ cur'[g] = c /\ gdi'[g].clientProxy = c
      BY <1>3, <1>4, <1>5, <1>6, <1>10, NoneAssumption
    <2>6. First(g)'
      BY <2>4, <2>5 DEF First
    <2> QED BY <1>8, <1>10, <2>6
  <1> QED BY <1>9, <1>10

LEMMA JoinsAbsent ==
  ASSUME Peers, Peers', Calm, NEW c \in Conn, NEW g \in Game, Joins(c, g), NEW h \in Game, NEW e \in Entity,
         h # g /\ Bids(Got(h), e) = {} => Bids(Got(h), e)' = {}
  PROVE  Absent(h, e)' /\ InOrder(h, e)'
  <1>1. Absent(h, e) /\ InOrder(h, e)
    BY CalmParts
  <1>2. Taking(c)
    BY DEF Joins
  <1>3. InOrder(h, e)' /\ (Has(h, e)' <=> Has(h, e)) /\ (Loads(h, e)' <=> Loads(h, e))
    BY <1>1, <1>2, TakingSent
  <1>4. CASE h = g
    <2>1. cur' = cur /\ cur[g] = c /\ c # None /\ gdi'[g].clientProxy = c
      BY <1>2 DEF Joins, Taking, gameVars
    <2>2. ~ Away(h)'
      BY <1>4, <2>1 DEF Away
    <2> QED BY <1>3, <2>2 DEF Absent
  <1>5. CASE h # g
    <2>1. ~ Mine(h, c)
      BY <1>5 DEF Joins, Mine
    <2>2. Sent(h)' = Sent(h) /\ reg' = reg /\ snap' = snap /\ cur' = cur
      BY <1>2, <2>1, TakingQueue
    <2>3. /\ Notes(Sent(h), e)' = Notes(Sent(h), e) /\ Ends(Sent(h), e)' = Ends(Sent(h), e)
          /\ Listed(h, e)' <=> Listed(h, e)
      BY <2>2 DEF Notes, Ends, Listed
    <2>4. (HeldBack(gdi[h]) <=> HeldBack(gdi[h])') /\ gdi'[h].clientProxy = gdi[h].clientProxy
      BY <1>5 DEF Joins
    <2>5. Away(h)' <=> Away(h)
      BY <2>2, <2>4 DEF Away
    <2>6. Absent(h, e)'
      BY <1>1, <1>3, <1>5, <2>3, <2>4, <2>5 DEF Absent
    <2> QED BY <1>3, <2>6
  <1> QED BY <1>4, <1>5

LEMMA SetGameIDCalm ==
  ASSUME Peers, Peers', Records, Records', [Next]_vars, Calm, NEW c \in Conn, Taking(c), ~ Late(c),
         Head(inbox[c]).type = "setGameID", NEW g \in Game, Head(inbox[c]).game = g,
         NEW eids \in Seq(Entity), Head(inbox[c]).entities = eids, HandleSetGameID(c, g, eids)
  PROVE  Calm'
  <1>1. Joins(c, g) /\ \E C, F, R : Took(C, F, R, c, g, ToSet(eids))
    BY SetGameIDJoins
  <1>2. PICK C, F, R : Took(C, F, R, c, g, ToSet(eids))
    BY <1>1
  <1>3. /\ UNCHANGED <<cur, live, dump, loading, reg, snap, proc>> /\ used' = used
        /\ cur' = cur /\ cur[g] = c /\ c # None /\ id[c] = None /\ Away(g)
        /\ \A h \in Game \ {g} : cur[h] # c
    BY <1>1, TakingQueue DEF Joins, Taking
  <1>4. \A h \in Game, x \in Entity : Alone(h, x) /\ Found(h, x) /\ InOrder(h, x) /\ Absent(h, x)
    BY CalmParts
  <1>5. ASSUME NEW h \in Game, NEW x \in Entity
        PROVE  /\ Below(Ends(Sent(h), x)', Ends(Sent(h), x))
               /\ Notes(Sent(h), x)' # {} => Notes(Sent(h), x) # {}
               /\ Listed(h, x)' => Listed(h, x)
               /\ Has(h, x)' <=> Has(h, x)
               /\ Loads(h, x)' <=> Loads(h, x)
               /\ InOrder(h, x)'
    BY <1>4, TakingSent
  <1>6. ASSUME NEW h \in Game, h # g
        PROVE  /\ \A x \in Entity : /\ Bids(Got(h), x)' = Bids(Got(h), x)
                                    /\ Bids(Wait(h), x)' \subseteq Bids(Wait(h), x)
               /\ Acks(Got(h))' = Acks(Got(h)) /\ Acks(Wait(h))' \subseteq Acks(Wait(h))
    <2>1. cur[h] # c
      BY <1>3, <1>6
    <2> QED BY <1>2, <1>3, <1>6, <2>1, TookOthers
  <1>7. /\ \A x \in Entity : Bids(Got(g), x) = {} =>
             \/ Bids(Got(g), x)' = {} /\ Bids(Wait(g), x)' \subseteq Bids(F.gdi[g].pending, x)
             \/ Bids(Wait(g), x)' = {} /\ Below(Bids(Got(g), x)', Bids(F.gdi[g].pending, x))
        /\ \A x \in Entity : Bids(F.gdi[g].pending, x) \subseteq Bids(Wait(g), x)
        /\ Acks(Got(g)) = {} /\ Acks(Wait(g)) = {} => Acks(Got(g))' = {} /\ Acks(Wait(g))' = {}
    BY <1>2, <1>3, TookOwn
  <1>8. ASSUME NEW h \in Game, NEW x \in Entity, h # g
        PROVE  Alone(h, x)' /\ (Coming(h, x)' => Coming(h, x)) /\ (Claims(h, x)' => Claims(h, x))
    <2>1. Bids(Got(h), x)' = Bids(Got(h), x) /\ Bids(Wait(h), x)' \subseteq Bids(Wait(h), x)
      BY <1>6, <1>8
    <2>2. Below(Bids(Got(h), x)', Bids(Got(h), x)) /\ Below(Bids(Wait(h), x)', Bids(Wait(h), x))
      BY <2>1, SubsetBelow DEF Below, One
    <2>3. loading'[h][x] <= loading[h][x]
      BY <1>3 DEF Records
    <2>4. Lean(h, x)
      BY <1>5, <2>2, <2>3 DEF Lean, Fewer
    <2> QED BY <1>4, <2>4, LeanClaims
  <1>9. ASSUME NEW x \in Entity
        PROVE  Alone(g, x)' /\ (Coming(g, x)' => Coming(g, x)) /\ (Claims(g, x)' => Claims(g, x))
    <2>1. Alone(g, x) /\ Bids(Got(g), x) = {} /\ ~ Loads(g, x)
      BY <1>3, <1>4 DEF Absent
    <2>2. loading'[g][x] <= 1
      BY <1>3, <2>1 DEF Alone
    <2>3. \/ Bids(Got(g), x)' = {} /\ Bids(Wait(g), x)' \subseteq Bids(Wait(g), x)
          \/ Bids(Wait(g), x)' = {} /\ Below(Bids(Got(g), x)', Bids(Wait(g), x))
      <3>1. Bids(F.gdi[g].pending, x) \subseteq Bids(Wait(g), x)
        BY <1>7
      <3>2. Below(Bids(F.gdi[g].pending, x), Bids(Wait(g), x))
        BY <3>1, SubsetBelow
      <3> QED BY <1>7, <2>1, <3>1, <3>2 DEF Below
    <2>4. One(Bids(Got(g), x)') /\ One(Bids(Wait(g), x)')
      BY <2>1, <2>3 DEF Alone, Below, One
    <2>5. One(Ends(Sent(g), x)')
      BY <1>5, <2>1 DEF Alone, Below
    <2>6. /\ Bids(Got(g), x)' # {} => Bids(Wait(g), x) # {} /\ Bids(Wait(g), x)' = {}
          /\ Bids(Wait(g), x)' # {} => Bids(Wait(g), x) # {}
      BY <2>3 DEF Below
    <2>7. Coming(g, x)' => Coming(g, x)
      BY <1>5, <2>6 DEF Coming
    <2>8. Ends(Sent(g), x)' # {} => Ends(Sent(g), x) # {}
      BY <1>5 DEF Below
    <2>9. Alone(g, x)'
      BY <1>5, <2>1, <2>2, <2>4, <2>5, <2>6, <2>7, <2>8 DEF Alone, One, Coming
    <2>10. Claims(g, x)' => Claims(g, x)
      BY <1>5, <2>7, <2>8 DEF Claims
    <2> QED BY <2>7, <2>9, <2>10
  <1>10. \A h \in Game, x \in Entity :
           Alone(h, x)' /\ (Coming(h, x)' => Coming(h, x)) /\ (Claims(h, x)' => Claims(h, x))
    BY <1>8, <1>9
  <1>11. Apart'
    BY <1>10, ApartStays, CalmParts
  <1>12. ASSUME NEW x \in ToSet(eids)
         PROVE  x \in Entity /\ Claims(g, x) /\ edi[x].gameid \in {g, None}
    <2>1. x \in Entity
      BY DEF ToSet
    <2>2. Mine(g, c) /\ Lists(Head(inbox[c]), x)
      BY <1>3 DEF Late, Mine, Lists
    <2>3. Listed(g, x)
      BY <2>1, <2>2, TakingSent
    <2>4. Claims(g, x)
      BY <2>3 DEF Claims
    <2> QED BY <1>4, <2>1, <2>4 DEF Found
  <1>13. ASSUME NEW x \in Entity
         PROVE  \/ x \in ToSet(eids) /\ edi'[x].gameid = g
                \/ x \notin ToSet(eids) /\ edi'[x].gameid = edi[x].gameid
                \/ x \notin ToSet(eids) /\ edi'[x].gameid = None /\ Dropped(edi[x].gameid, x)
    <2>1. \/ edi'[x].gameid = IF x \in ToSet(eids) /\ edi[x].gameid \in {g, None} THEN g ELSE edi[x].gameid
          \/ x \in ToSet(eids) /\ edi'[x].gameid = g
          \/ /\ edi'[x].gameid = None /\ (x \in ToSet(eids) => edi[x].gameid \notin {g, None})
             /\ Dropped(edi[x].gameid, x)
      <3> DEFINE S == ToSet(eids)
      <3> HIDE DEF S
      <3>1. Took(C, F, R, c, g, S)
        BY <1>2 DEF S
      <3>2. \/ edi'[x].gameid = IF x \in S /\ edi[x].gameid \in {g, None} THEN g ELSE edi[x].gameid
            \/ x \in S /\ edi'[x].gameid = g
            \/ /\ edi'[x].gameid = None /\ (x \in S => edi[x].gameid \notin {g, None})
               /\ Dropped(edi[x].gameid, x)
        BY <1>3, <3>1, TookRoutes
      <3> QED BY <3>2 DEF S
    <2>2. x \in ToSet(eids) => edi[x].gameid \in {g, None}
      BY <1>12
    <2> QED BY <2>1, <2>2
  <1>14. ASSUME NEW x \in Entity PROVE Noted(x) => Noted(x)'
    BY TakingNoted DEF Says
  <1>15. ASSUME NEW h \in Game, NEW x \in Entity PROVE Found(h, x)'
    <2>1. CASE x \in ToSet(eids) /\ edi'[x].gameid = g
      <3>1. Claims(h, x)' => h = g
        BY <1>10, <1>12, <2>1, CalmParts DEF Apart
      <3>2. Coming(h, x)' => Claims(h, x)'
        BY DEF Claims
      <3> QED BY <2>1, <3>1, <3>2 DEF Found
    <2>2. CASE x \notin ToSet(eids) /\ edi'[x].gameid = edi[x].gameid
      BY <1>4, <1>10, <1>14, <2>2, FoundStays
    <2>3. CASE x \notin ToSet(eids) /\ edi'[x].gameid = None /\ Dropped(edi[x].gameid, x)
      <3>1. edi[x].gameid = h => ~ Coming(h, x)' /\ (Claims(h, x)' => Noted(x)')
        BY <2>3, DroppedFound
      <3> QED BY <1>4, <1>10, <1>14, <2>3, <3>1, FoundStays
    <2> QED BY <1>13, <2>1, <2>2, <2>3
  <1>16. ASSUME NEW h \in Game, NEW x \in Entity PROVE Absent(h, x)' /\ InOrder(h, x)'
    <2>1. h # g /\ Bids(Got(h), x) = {} => Bids(Got(h), x)' = {}
      BY <1>6
    <2> QED BY <1>1, <2>1, JoinsAbsent
  <1>17. ASSUME NEW x \in Entity PROVE Unborn(x)'
    <2>1. Unborn(x)
      BY CalmParts
    <2>2. /\ \A d, f \in Conn : \A i \in Makes(inbox[d], x)', j \in Makes(inbox[f], x)' : d = f /\ i = j
          /\ x \notin used => \A d \in Conn :
               At(inbox[d], {"notify", "destroy", "create", "load"}, x)' = {}
          /\ Made(x)' => Made(x)
      BY <2>1, TakingMade, TakingNoted
    <2>3. ASSUME x \notin used \/ Made(x)'
          PROVE  edi'[x].gameid = None /\ \A h \in Game : ~ Claims(h, x)'
      <3>1. edi[x].gameid = None /\ \A h \in Game : ~ Claims(h, x)
        BY <2>1, <2>2, <2>3 DEF Unborn
      <3>2. x \notin ToSet(eids)
        BY <1>12, <3>1
      <3> QED BY <1>10, <1>13, <3>1, <3>2
    <2> QED BY <1>3, <2>1, <2>2, <2>3 DEF Unborn
  <1>18. ASSUME NEW h \in Game PROVE Freezes(h)'
    <2>1. Freezes(h) /\ Freezes(g)
      BY CalmParts
    <2>2. CASE h # g
      <3>1. Acks(Got(h))' = Acks(Got(h)) /\ Acks(Wait(h))' \subseteq Acks(Wait(h))
        BY <1>6, <2>2
      <3>2. HeldBack(gdi[h]) <=> HeldBack(gdi[h])'
        BY <1>1, <2>2 DEF Joins
      <3>3. cur[h] # None => id'[cur[h]] = id[cur[h]]
        BY <1>1, <1>3, <2>2, NowTyped DEF Joins, Peers
      <3> QED BY <1>3, <2>1, <3>1, <3>2, <3>3 DEF Freezes
    <2>3. CASE h = g
      <3>1. /\ proc[g] \notin {"freezing", "frozen"} /\ Acks(Got(g)) = {} /\ Acks(Wait(g)) = {}
        BY <1>3, <2>1, NoneAssumption DEF Freezes
      <3>2. Acks(Got(g))' = {} /\ Acks(Wait(g))' = {}
        BY <1>7, <3>1
      <3> QED BY <1>3, <2>3, <3>1, <3>2 DEF Freezes
    <2> QED BY <2>2, <2>3
  <1>19. \A h \in Game : Lives(h)' /\ First(h)'
    BY <1>1, JoinsGame
  <1>20. Lines'
    BY <1>1, JoinsLines
  <1> QED BY <1>10, <1>11, <1>15, <1>16, <1>17, <1>18, <1>19, <1>20, CalmFrom

\* Whatever the dispatcher handles, unless it is misled.
LEMMA ServeCalm ==
  ASSUME Peers, Peers', Records, Records', [Next]_vars, Calm, NEW c \in Conn, Serve(c), ~ misled'
  PROVE  Calm'
  <1> DEFINE m == Head(inbox[c])
  <1>1. m \in Request /\ m.type \in Said
    <2>1. inbox[c] \in Seq(Request) /\ inbox[c] # <<>>
      BY DEF Serve, Peers
    <2>2. Head(inbox[c]) = inbox[c][1] /\ 1 \in 1 .. Len(inbox[c]) /\ Head(inbox[c]) \in Request
      BY <2>1
    <2> QED BY <2>2, CalmParts
  <1>2. ~ Late(c) /\ ~ Early(c) /\ ~ Lost(c)
    BY DEF Serve
  <1>3. ASSUME \A d \in Conn : link'[d] = "gone" <=> link[d] = "gone"
        PROVE  Taking(c)
    BY <1>3 DEF Serve, Taking
  <1>4. CASE m.type = "setGameID" /\ m.game \in Game /\ m.entities \in Reports
    <2>1. HandleSetGameID(c, m.game, m.entities)
      BY <1>4 DEF Serve
    <2>2. PICK g \in Game, eids \in Seq(Entity) : g = m.game /\ eids = m.entities
      BY <1>4, ReportsTyped
    <2>3. HandleSetGameID(c, g, eids)
      BY <2>1, <2>2
    <2>4. link' = Closed(gdi[g].clientProxy) /\ link \in [Conn -> {"unused", "open", "closed", "gone"}]
      BY <2>3 DEF HandleSetGameID, Peers, Inv
    <2>5. \A d \in Conn : link'[d] = "gone" <=> link[d] = "gone"
      BY <2>4 DEF Closed
    <2> QED BY <1>2, <1>3, <1>4, <2>2, <2>3, <2>5, SetGameIDCalm
  <1>5. CASE m.type = "notify" /\ m.entity \in Entity
    <2>1. HandleNotifyCreateEntity(c, m.entity)
      BY <1>5 DEF Serve
    <2>2. Taking(c)
      BY <1>3, <2>1 DEF HandleNotifyCreateEntity
    <2>3. PICK e \in Entity : e = m.entity
      BY <1>5
    <2>4. Says(c, "notify", e) /\ HandleNotifyCreateEntity(c, e)
      BY <1>5, <2>1, <2>3 DEF Says
    <2> QED BY <1>2, <2>2, <2>4, NotifyCalm
  <1>6. CASE m.type = "destroy" /\ m.entity \in Entity
    <2>1. HandleNotifyDestroyEntity(c, m.entity)
      BY <1>6 DEF Serve
    <2>2. Taking(c)
      BY <1>3, <2>1 DEF HandleNotifyDestroyEntity
    <2>3. PICK e \in Entity : e = m.entity
      BY <1>6
    <2>4. Says(c, "destroy", e) /\ HandleNotifyDestroyEntity(c, e)
      BY <1>6, <2>1, <2>3 DEF Says
    <2> QED BY <1>2, <2>2, <2>4, DestroyCalm
  <1>7. CASE m.type = "load" /\ m.entity \in Entity
    <2>1. HandleLoadEntitySomewhere(c, m.entity, None)
      BY <1>7 DEF Serve
    <2>2. Taking(c)
      BY <1>3, <2>1 DEF HandleLoadEntitySomewhere
    <2>3. PICK e \in Entity : e = m.entity
      BY <1>7
    <2>4. Says(c, "load", e) /\ HandleLoadEntitySomewhere(c, e, None)
      BY <1>7, <2>1, <2>3 DEF Says
    <2> QED BY <1>2, <2>2, <2>4, LoadCalm
  <1>8. CASE m.type = "create" /\ m.entity \in Entity
    <2>1. HandleCreateEntitySomewhere(c, m.entity, None)
      BY <1>8 DEF Serve
    <2>2. Taking(c)
      BY <1>3, <2>1 DEF HandleCreateEntitySomewhere
    <2>3. PICK e \in Entity : e = m.entity
      BY <1>8
    <2>4. Says(c, "create", e) /\ HandleCreateEntitySomewhere(c, e, None)
      BY <1>8, <2>1, <2>3 DEF Says
    <2> QED BY <1>2, <2>2, <2>4, CreateCalm
  <1>9. CASE m.type = "call" /\ m.entity \in Entity
    <2>1. HandleCallEntityMethod(c, m.entity)
      BY <1>9 DEF Serve
    <2>2. Taking(c)
      BY <1>3, <2>1 DEF HandleCallEntityMethod
    <2>3. PICK e \in Entity : e = m.entity
      BY <1>9
    <2>4. HandleCallEntityMethod(c, e) /\ Head(inbox[c]).type = "call"
      BY <1>9, <2>1, <2>3
    <2> QED BY <2>2, <2>4, CallCalm
  <1>10. CASE m.type = "freeze"
    <2>1. HandleStartFreezeGame(c)
      BY <1>10 DEF Serve
    <2>2. Taking(c)
      BY <1>3, <2>1 DEF HandleStartFreezeGame
    <2> QED BY <1>10, <2>1, <2>2, FreezeCalm
  <1> HIDE DEF m
  <1> QED BY <1>1, <1>4, <1>5, <1>6, <1>7, <1>8, <1>9, <1>10, RequestKinds DEF Said

-----------------------------------------------------------------------------
(* The dispatcher notices a disconnect                                      *)

\* The game of c, if any, is not connected any more; the rest is mild.
Closes(C, c) ==
  /\ C.edi = edi /\ C.wire = wire /\ C.id = id
  /\ \A h \in Game : /\ C.gdi[h].clientProxy = IF gdi[h].clientProxy = c THEN None ELSE gdi[h].clientProxy
                     /\ HeldBack(C.gdi[h]) <=> HeldBack(gdi[h])
                     /\ C.gdi[h].pending = gdi[h].pending
  /\ Mild(C, Now')

LEMMA DisconnectedSteps ==
  ASSUME Peers, Calm, NEW c \in Conn, Disconnected(c)
  PROVE  \E C : Closes(C, c)
  <1>1. PICK s : s = Now
    OBVIOUS
  <1>2. Good(s) /\ Tame(s) /\ s.gdi = gdi /\ s.wire = wire /\ s.id = id /\ s.edi = edi
    BY <1>1, NowTame
  <1>3. \A h \in Game : gdi[h].clientProxy = c => id[c] = h
    BY NoneAssumption DEF Peers, Inv, Good, Identified, Now
  <1>4. ASSUME Mild(s, Now'), \A h \in Game : gdi[h].clientProxy # c
        PROVE  Closes(s, c)
    BY <1>2, <1>4 DEF Closes
  <1>5. CASE id[c] \in Gate /\ Commit(GateDisconnected(Now, c))
    <2>1. Commit(GateDisconnected(s, c))
      BY <1>1, <1>5
    <2>2. \A h \in Game : gdi[h].clientProxy # c
      BY <1>3, <1>5, KindAssumption
    <2>3. CASE gates[id[c]] # c
      <3>1. Commit(s)
        BY <1>2, <2>1, <2>3 DEF GateDisconnected
      <3>2. Mild(s, s)
        BY <1>2, MildSame
      <3> QED BY <1>4, <2>2, <3>1, <3>2, CommitMild
    <2>4. CASE gates[id[c]] = c
      <3> DEFINE out == ToAllExcept(None, <<[type |-> "gateDown", gate |-> id[c]]>>)
      <3>1. Commit(Dispatch(s, out))
        BY <1>2, <2>1, <2>4 DEF GateDisconnected
      <3>2. <<[type |-> "gateDown", gate |-> id[c]]>> \in Seq(Light)
        <4>1. [type |-> "gateDown", gate |-> id[c]] \in Light
          BY <1>5 DEF Light, Packet
        <4> QED BY <4>1
      <3>3. out \in [Game -> Seq(Light)]
        BY <3>2, ToFrom
      <3> HIDE DEF out
      <3>4. Mild(s, Dispatch(s, out))
        BY <1>2, <3>3, MildDispatch
      <3> QED BY <1>4, <2>2, <3>1, <3>4, CommitMild
    <2> QED BY <2>3, <2>4
  <1>6. CASE id[c] \in Game /\ Commit(GameDisconnected(Now, c))
    <2>1. Commit(GameDisconnected(s, c)) /\ s.id[c] \in Game
      BY <1>1, <1>2, <1>6
    <2>2. CASE GameDisconnected(s, c) = s /\ s.gdi[s.id[c]].clientProxy # c
      <3>1. Mild(s, s) /\ Commit(s)
        BY <1>2, <2>1, <2>2, MildSame
      <3>2. \A h \in Game : gdi[h].clientProxy # c
        BY <1>2, <1>3, <2>2
      <3> QED BY <1>4, <3>1, <3>2, CommitMild
    <2>3. CASE /\ s.gdi[s.id[c]].clientProxy = c
               /\ \E t : Cut(s, t, s.id[c]) /\ Mild(t, GameDisconnected(s, c))
      <3>1. PICK t : Cut(s, t, s.id[c]) /\ Mild(t, GameDisconnected(s, c))
        BY <2>3
      <3>2. Mild(t, Now')
        BY <2>1, <3>1, CommitMild
      <3>3. \A h \in Game : gdi[h].clientProxy = c <=> h = id[c]
        BY <1>2, <1>3, <2>3
      <3>4. Closes(t, c)
        BY <1>2, <3>1, <3>2, <3>3 DEF Closes, Cut
      <3> QED BY <3>4
    <2> QED BY <1>2, <2>1, <2>2, <2>3, GameDisconnectedMild
  <1>7. CASE id[c] = None /\ UNCHANGED <<edi, gdi, id, wire>>
    <2>1. Commit(s)
      BY <1>2, <1>7 DEF Commit
    <2>2. Mild(s, s)
      BY <1>2, MildSame
    <2>3. \A h \in Game : gdi[h].clientProxy # c
      BY <1>3, <1>7, NoneAssumption
    <2> QED BY <1>4, <2>1, <2>2, <2>3, CommitMild
  <1> QED BY <1>5, <1>6, <1>7 DEF Disconnected, HandleDispatcherClientDisconnect

\* What a game whose connection is closed has: nothing, or a frozen file.
LEMMA ClosedGame ==
  ASSUME Peers, Calm, NEW g \in Game, cur[g] # None, link[cur[g]] = "closed"
  PROVE  /\ proc[g] \in {"down", "frozen"} /\ live[g] = {} /\ reg[g] = "off"
         /\ \A e \in Entity : ~ Loads(g, e)
         /\ wire[cur[g]] = <<>> /\ Got(g) = <<>>
         /\ proc[g] = "down" => dump[g] = {}
         /\ proc[g] = "frozen" => HeldBack(gdi[g])
  <1>1. Lives(g) /\ Freezes(g)
    BY CalmParts
  <1>2. proc[g] \in {"down", "frozen"}
    BY <1>1 DEF Lives, Running, Peers, ProcState
  <1> QED BY <1>1, <1>2 DEF Lives, Freezes, Loads, Got

LEMMA DisconnectedCalm ==
  ASSUME Peers, Peers', Records, Records', [Next]_vars, Calm, NEW c \in Conn, Disconnected(c)
  PROVE  Calm'
  <1>1. /\ link[c] = "closed" /\ link' = [link EXCEPT ![c] = "gone"] /\ link \in [Conn -> {"unused", "open", "closed", "gone"}]
        /\ inbox' = inbox /\ used' = used
        /\ UNCHANGED <<proc, live, loading, dump, cur, reg, snap>>
    BY DEF Disconnected, HandleDispatcherClientDisconnect, gameVars, Peers, Inv
  <1>2. PICK C : Closes(C, c)
    BY DisconnectedSteps
  <1>3. PICK u : u = Now'
    OBVIOUS
  <1>4. /\ u.edi = edi' /\ u.gdi = gdi' /\ u.id = id' /\ u.wire = wire'
        /\ C.edi = edi /\ C.wire = wire /\ C.id = id
        /\ Mild(C, u)
    BY <1>2, <1>3 DEF Now, Closes
  <1>5. /\ id' = id /\ Tame(u)
        /\ \A h \in Game : gdi'[h].clientProxy = IF gdi[h].clientProxy = c THEN None ELSE gdi[h].clientProxy
        /\ \A h \in Game : HeldBack(gdi'[h]) <=> HeldBack(gdi[h])
        /\ \A h \in Game : /\ Acks(gdi'[h].pending) \subseteq Acks(gdi[h].pending)
                           /\ \A x \in Entity : Bids(gdi'[h].pending, x) \subseteq Bids(gdi[h].pending, x)
    BY <1>2, <1>4 DEF Closes, Mild
  <1>6. \A d \in Conn : /\ wire'[d] # wire[d] => link[d] = "open" /\ id[d] # None
                        /\ Acks(wire'[d]) = Acks(wire[d])
                        /\ \A x \in Entity : Bids(wire'[d], x) = Bids(wire[d], x)
    BY <1>4 DEF Mild
  <1>7. \A h \in Game : cur[h] \in Conn \cup {None}
    BY DEF Peers
  <1>8. ASSUME NEW h \in Game, cur[h] = c
        PROVE  /\ cur[h] # None
               /\ proc[h] \in {"down", "frozen"} /\ live[h] = {} /\ reg[h] = "off"
               /\ \A x \in Entity : ~ Loads(h, x)
               /\ Got(h) = <<>> /\ Sent(h)' = <<>>
               /\ proc[h] = "down" => dump[h] = {}
               /\ proc[h] = "frozen" => HeldBack(gdi[h])
    <2>1. cur[h] # None
      BY <1>8, NoneAssumption
    <2>2. Sent(h)' = <<>>
      BY <1>1, <1>8 DEF Sent
    <2> QED BY <1>1, <1>8, <2>1, <2>2, ClosedGame
  <1>9. ASSUME NEW h \in Game, cur[h] # c PROVE Sent(h)' = Sent(h)
    BY <1>1, <1>7, <1>9 DEF Sent
  <1>10. ASSUME NEW h \in Game
         PROVE  /\ Acks(Got(h))' = Acks(Got(h)) /\ Acks(Wait(h))' \subseteq Acks(Wait(h))
                /\ \A x \in Entity : /\ Bids(Got(h), x)' = Bids(Got(h), x)
                                     /\ Bids(Wait(h), x)' \subseteq Bids(Wait(h), x)
    <2>1. PICK q : q = gdi'[h].pending
      OBVIOUS
    <2>2. Acks(Wait(h))' = Acks(q) /\ \A x : Bids(Wait(h), x)' = Bids(q, x)
      BY <2>1 DEF Wait, Acks, Bids, At
    <2>3. Acks(Got(h))' = Acks(Got(h)) /\ \A x \in Entity : Bids(Got(h), x)' = Bids(Got(h), x)
      <3>1. CASE cur[h] = None
        <4>1. Got(h)' = Got(h)
          BY <1>1, <3>1 DEF Got
        <4> QED BY <4>1 DEF Acks, Bids, At
      <3>2. CASE cur[h] # None
        <4>1. PICK r : r = wire'[cur[h]]
          OBVIOUS
        <4>2. Got(h)' = r /\ Got(h) = wire[cur[h]] /\ cur[h] \in Conn
          BY <1>1, <1>7, <3>2, <4>1 DEF Got
        <4>3. Acks(Got(h))' = Acks(r) /\ \A x : Bids(Got(h), x)' = Bids(r, x)
          BY <4>2 DEF Acks, Bids, At
        <4> QED BY <1>6, <4>1, <4>2, <4>3
      <3> QED BY <3>1, <3>2
    <2> QED BY <1>5, <2>1, <2>2, <2>3 DEF Wait
  <1>11. ASSUME NEW h \in Game, NEW x \in Entity
         PROVE  /\ Below(Ends(Sent(h), x)', Ends(Sent(h), x))
                /\ Notes(Sent(h), x)' # {} => Notes(Sent(h), x) # {}
                /\ Listed(h, x)' => Listed(h, x)
                /\ Has(h, x)' <=> Has(h, x)
                /\ Loads(h, x)' <=> Loads(h, x)
                /\ InOrder(h, x)'
    <2>1. Has(h, x)' <=> Has(h, x)
      BY <1>1 DEF Has
    <2>2. Loads(h, x)' <=> Loads(h, x)
      BY <1>1 DEF Loads
    <2>3. CASE cur[h] = c
      <3>1. Sent(h)' = <<>>
        BY <1>8, <2>3
      <3>2. Ends(Sent(h), x)' = {} /\ Notes(Sent(h), x)' = {}
        BY <3>1 DEF Ends, Notes, At
      <3>3. ~ Listed(h, x)'
        BY <1>1, <1>8, <2>3, <3>1 DEF Listed
      <3> QED BY <2>1, <2>2, <3>2, <3>3 DEF Below, One, InOrder
    <2>4. CASE cur[h] # c
      <3>1. Sent(h)' = Sent(h) /\ reg' = reg /\ snap' = snap
        BY <1>1, <1>9, <2>4
      <3>2. /\ Notes(Sent(h), x)' = Notes(Sent(h), x) /\ Ends(Sent(h), x)' = Ends(Sent(h), x)
            /\ Listed(h, x)' <=> Listed(h, x)
        BY <3>1 DEF Notes, Ends, Listed
      <3>3. InOrder(h, x)
        BY CalmParts
      <3> QED BY <2>1, <2>2, <3>2, <3>3 DEF Below, InOrder
    <2> QED BY <2>3, <2>4
  <1>12. ASSUME NEW h \in Game, NEW x \in Entity
         PROVE  Alone(h, x)' /\ (Coming(h, x)' => Coming(h, x)) /\ (Claims(h, x)' => Claims(h, x))
    <2>1. Below(Bids(Got(h), x)', Bids(Got(h), x)) /\ Below(Bids(Wait(h), x)', Bids(Wait(h), x))
      BY <1>10, SubsetBelow DEF Below, One
    <2>2. loading'[h][x] <= loading[h][x]
      BY <1>1 DEF Records
    <2>3. Lean(h, x)
      BY <1>11, <2>1, <2>2 DEF Lean, Fewer
    <2> QED BY <2>3, LeanClaims, CalmParts
  <1>13. Apart'
    BY <1>12, ApartStays, CalmParts
  <1>14. ASSUME NEW x \in Entity PROVE (Noted(x)' <=> Noted(x)) /\ (Made(x)' <=> Made(x))
    BY <1>1 DEF Noted, Made, Notes, Makes, At
  <1>15. ASSUME NEW h \in Game, NEW x \in Entity, Fallen(C, u, h)
         PROVE  ~ Coming(h, x)' /\ (Claims(h, x)' => Noted(x)')
    <2>1. ~ HeldBack(gdi[h]) /\ Bids(gdi'[h].pending, x) = {}
          /\ (gdi[h].clientProxy = None \/ gdi[h].clientProxy = c)
      BY <1>2, <1>4, <1>15 DEF Fallen, Closes
    <2>2. Bids(Wait(h), x)' = {}
      <3>1. PICK q : q = gdi'[h].pending
        OBVIOUS
      <3> QED BY <2>1, <3>1 DEF Wait, Bids, At
    <2>3. CASE cur[h] = c
      <3>1. /\ ~ Has(h, x) /\ ~ Loads(h, x) /\ Bids(Got(h), x) = {}
            /\ Sent(h)' = <<>> /\ reg[h] = "off"
        <4>1. proc[h] = "down" /\ live[h] = {} /\ dump[h] = {}
          BY <1>8, <2>1, <2>3
        <4> QED BY <1>8, <2>3, <4>1 DEF Has, Bids, At
      <3>2. Ends(Sent(h), x)' = {} /\ Notes(Sent(h), x)' = {} /\ ~ Listed(h, x)'
        BY <1>1, <3>1 DEF Ends, Notes, At, Listed
      <3> QED BY <1>10, <1>11, <2>2, <3>1, <3>2 DEF Claims, Coming
    <2>4. CASE cur[h] # c
      <3>1. Away(h)
        BY <2>1, <2>4 DEF Away
      <3>2. /\ ~ Loads(h, x) /\ ~ Listed(h, x) /\ Bids(Got(h), x) = {}
            /\ Has(h, x) \/ Ends(Sent(h), x) # {} => Notes(Sent(h), x) # {}
        BY <2>1, <3>1, CalmParts DEF Absent
      <3>3. Notes(Sent(h), x) # {} => Noted(x)
        <4>1. CASE cur[h] # None /\ link[cur[h]] # "gone"
          BY <1>7, <4>1 DEF Sent, Noted
        <4>2. CASE ~ (cur[h] # None /\ link[cur[h]] # "gone")
          BY <4>2 DEF Sent, Notes, At
        <4> QED BY <4>1, <4>2
      <3>4. ~ Coming(h, x)'
        BY <1>10, <1>11, <2>2, <3>2 DEF Coming
      <3>5. Ends(Sent(h), x)' # {} => Ends(Sent(h), x) # {}
        BY <1>11 DEF Below
      <3> QED BY <1>11, <1>14, <3>2, <3>3, <3>4, <3>5 DEF Claims
    <2> QED BY <2>3, <2>4
  <1>16. ASSUME NEW h \in Game, NEW x \in Entity PROVE Found(h, x)'
    <2>1. \/ edi'[x].gameid = edi[x].gameid
          \/ edi'[x].gameid = None /\ Fallen(C, u, edi[x].gameid)
      BY <1>4 DEF Mild
    <2>2. edi[x].gameid = h /\ Fallen(C, u, edi[x].gameid) => ~ Coming(h, x)' /\ (Claims(h, x)' => Noted(x)')
      BY <1>15
    <2>3. Found(h, x)
      BY CalmParts
    <2> QED BY <1>12, <1>14, <2>1, <2>2, <2>3, FoundStays
  <1>17. ASSUME NEW h \in Game, NEW x \in Entity PROVE Absent(h, x)'
    <2>1. HeldBack(gdi[h]) <=> HeldBack(gdi[h])'
      BY <1>5
    <2>2. CASE cur[h] = c
      <3>1. /\ ~ Loads(h, x)' /\ Bids(Got(h), x)' = {}
        <4>1. Bids(Got(h), x) = {}
          BY <1>8, <2>2 DEF Bids, At
        <4> QED BY <1>8, <1>10, <1>11, <2>2, <4>1
      <3>2. Ends(Sent(h), x)' = {} /\ ~ Listed(h, x)'
        BY <1>1, <1>8, <2>2 DEF Ends, At, Listed
      <3>3. HeldBack(gdi[h]) \/ ~ Has(h, x)
        BY <1>8, <2>2 DEF Has
      <3> QED BY <1>11, <2>1, <3>1, <3>2, <3>3 DEF Absent
    <2>3. CASE cur[h] # c
      <3>1. Away(h)' => Away(h)
        BY <1>1, <1>5, <2>3 DEF Away
      <3>2. Sent(h)' = Sent(h) /\ reg' = reg /\ snap' = snap
        BY <1>1, <1>9, <2>3
      <3>3. /\ Notes(Sent(h), x)' = Notes(Sent(h), x) /\ Ends(Sent(h), x)' = Ends(Sent(h), x)
            /\ Listed(h, x)' <=> Listed(h, x)
        BY <3>2 DEF Notes, Ends, Listed
      <3>4. Absent(h, x)
        BY CalmParts
      <3> QED BY <1>10, <1>11, <2>1, <3>1, <3>3, <3>4 DEF Absent
    <2> QED BY <2>2, <2>3
  <1>18. ASSUME NEW x \in Entity PROVE Unborn(x)'
    <2>1. Unborn(x)
      BY CalmParts
    <2>2. /\ \A d, f \in Conn : \A i \in Makes(inbox[d], x)', j \in Makes(inbox[f], x)' : d = f /\ i = j
          /\ x \notin used => \A d \in Conn :
               At(inbox[d], {"notify", "destroy", "create", "load"}, x)' = {}
      BY <1>1, <2>1 DEF Unborn, Makes, At
    <2>3. edi[x].gameid = None => edi'[x].gameid = None
      BY <1>4, NoneAssumption DEF Mild, Fallen
    <2> QED BY <1>1, <1>12, <1>14, <2>1, <2>2, <2>3 DEF Unborn
  <1>19. ASSUME NEW h \in Game PROVE Freezes(h)' /\ Lives(h)' /\ First(h)'
    <2>1. Freezes(h) /\ Lives(h) /\ First(h)
      BY CalmParts
    <2>2. Freezes(h)'
      BY <1>1, <1>5, <1>10, <2>1 DEF Freezes
    <2>3. Running(h)' <=> Running(h)
      BY <1>1 DEF Running
    <2>4. /\ cur[h] # None => (link'[cur[h]] = "open" <=> link[cur[h]] = "open")
          /\ cur[h] # None /\ link[cur[h]] \in {"closed", "gone"} => link'[cur[h]] \in {"closed", "gone"}
          /\ cur[h] # None /\ link[cur[h]] = "gone" => link'[cur[h]] = "gone"
          /\ cur[h] = c => link'[cur[h]] = "gone"
      BY <1>1, <1>7
    <2>5. cur[h] # None /\ (link[cur[h]] # "open" \/ id[cur[h]] = None) => wire'[cur[h]] = wire[cur[h]]
      BY <1>6, <1>7
    <2>6. Lives(h)'
      BY <1>1, <1>5, <2>1, <2>3, <2>4, <2>5 DEF Lives
    <2>7. First(h)'
      BY <1>1, <1>5, <2>1, <2>3, <2>4 DEF First
    <2> QED BY <2>2, <2>6, <2>7
  <1>20. Lines'
    <2>1. /\ Linked
          /\ \A d \in Conn : link[d] = "unused" => inbox[d] = <<>> /\ wire[d] = <<>> /\ id[d] = None
          /\ \A d \in Conn : \A i \in 1 .. Len(inbox[d]) : inbox[d][i].type \in Said
      BY CalmParts
    <2>2. Linked'
      BY <1>1, <2>1, LinkedStep
    <2>3. \A d \in Conn : link'[d] = "unused" => inbox'[d] = <<>> /\ wire'[d] = <<>> /\ id'[d] = None
      BY <1>1, <1>5, <1>6, <2>1
    <2>4. \A x \in Entity : edi'[x].pending \in Seq(Light)
      BY <1>4, <1>5 DEF Tame
    <2> QED BY <1>1, <2>1, <2>2, <2>3, <2>4 DEF Lines
  <1>21. \A h \in Game, x \in Entity : InOrder(h, x)'
    BY <1>11
  <1> QED BY <1>12, <1>13, <1>16, <1>17, <1>18, <1>19, <1>20, <1>21, CalmFrom

-----------------------------------------------------------------------------
(* What one game does                                                       *)

\* The rest of Calm, when a step concerns one game and changes no route.
LEMMA OneGame ==
  ASSUME Calm, NEW g \in Game, \A h \in Game \ {g} : Untouched(h), edi' = edi,
         \A e \in Entity : Alone(g, e)' /\ Found(g, e)' /\ InOrder(g, e)' /\ Absent(g, e)',
         \A e \in Entity : Claims(g, e)' => Claims(g, e) \/ \A h \in Game : ~ Claims(h, e),
         \A e \in Entity : Noted(e) => Noted(e)' \/ Claims(g, e),
         \A e \in Entity : Unborn(e)',
         Freezes(g)' /\ Lives(g)' /\ First(g)', Lines'
  PROVE  Calm'
  <1>1. ASSUME NEW h \in Game, h # g, NEW e \in Entity
        PROVE  Alone(h, e)' /\ InOrder(h, e)' /\ Absent(h, e)' /\ (Claims(h, e)' <=> Claims(h, e))
               /\ (Coming(h, e)' <=> Coming(h, e))
    BY <1>1, UntouchedSame, CalmParts
  <1>2. Apart'
    <2>1. ASSUME NEW h \in Game, NEW e \in Entity, Claims(h, e)', ~ Claims(h, e), NEW k \in Game, Claims(k, e)'
          PROVE  k = h
      <3>1. h = g
        BY <1>1, <2>1
      <3>2. \A j \in Game : ~ Claims(j, e)
        BY <2>1, <3>1
      <3> QED BY <1>1, <2>1, <3>1, <3>2
    <2> QED BY <2>1, ApartStays, CalmParts
  <1>3. ASSUME NEW h \in Game, NEW e \in Entity, h # g PROVE Found(h, e)'
    <2>1. Claims(h, e) => ~ Claims(g, e)
      BY <1>3, CalmParts DEF Apart
    <2>2. Found(h, e)
      BY CalmParts
    <2> QED BY <1>1, <1>3, <2>1, <2>2 DEF Found
  <1>4. \A h \in Game \ {g} : Freezes(h)' /\ Lives(h)' /\ First(h)'
    BY UntouchedGame, CalmParts
  <1>5. \A h \in Game, e \in Entity : Alone(h, e)' /\ Found(h, e)' /\ InOrder(h, e)' /\ Absent(h, e)'
    BY <1>1, <1>3
  <1>6. \A h \in Game : Freezes(h)' /\ Lives(h)' /\ First(h)'
    BY <1>4
  <1> QED BY <1>2, <1>5, <1>6, CalmFrom

\* Where nothing is made, what is unborn stays so.
LEMMA UnbornStays ==
  ASSUME NEW e \in Entity, Unborn(e), e \in used' <=> e \in used, edi'[e].gameid = edi[e].gameid,
         \A h \in Game : Claims(h, e)' => Claims(h, e),
         \A c \in Conn : \A i \in Makes(inbox[c], e)' : i \in Makes(inbox[c], e),
         \A c \in Conn : e \notin used =>
            At(inbox[c], {"notify", "destroy", "create", "load"}, e)' = {}
  PROVE  Unborn(e)'
  <1>1. Made(e)' => Made(e)
    BY DEF Made
  <1>2. \A c, d \in Conn : \A i \in Makes(inbox[c], e)', j \in Makes(inbox[d], e)' : c = d /\ i = j
    BY DEF Unborn
  <1> QED BY <1>1, <1>2 DEF Unborn

\* The time of a block of an entity ends.
LEMMA EntityTimeoutCalm ==
  ASSUME Peers, Peers', [Next]_vars, Calm, NEW e \in Entity, EntityTimeout(e)
  PROVE  Calm'
  <1>1. /\ edi' = [edi EXCEPT ![e].blockUntil = "past"] /\ edi \in [Entity -> EntityInfo]
        /\ UNCHANGED <<gdi, id, link, wire, inbox, used, proc, live, loading, dump, cur, reg, snap>>
    BY NowTyped DEF EntityTimeout, EntityBlockTimesOut, gameVars, Peers
  <1>2. \A x \in Entity : edi'[x].gameid = edi[x].gameid /\ edi'[x].pending = edi[x].pending
    <2>1. \A x \in Entity : edi'[x] = IF x = e THEN [edi[e] EXCEPT !.blockUntil = "past"] ELSE edi[x]
      BY <1>1
    <2>2. /\ [edi[e] EXCEPT !.blockUntil = "past"].gameid = edi[e].gameid
          /\ [edi[e] EXCEPT !.blockUntil = "past"].pending = edi[e].pending
      BY <1>1 DEF EntityInfo
    <2> QED BY <2>1, <2>2
  <1>3. \A h \in Game : Untouched(h)
    BY <1>1 DEF Untouched
  <1>4. ASSUME NEW h \in Game, NEW x \in Entity
        PROVE  Alone(h, x)' /\ InOrder(h, x)' /\ Absent(h, x)' /\ (Claims(h, x)' <=> Claims(h, x))
               /\ (Coming(h, x)' <=> Coming(h, x))
    BY <1>3, UntouchedSame, CalmParts
  <1>5. \A x \in Entity : Noted(x)' <=> Noted(x)
    BY <1>1 DEF Noted, Notes, At
  <1>6. \A h \in Game, x \in Entity : Found(h, x)'
    BY <1>2, <1>4, <1>5, FoundStays, CalmParts
  <1>7. Apart'
    BY <1>4, ApartStays, CalmParts
  <1>8. ASSUME NEW x \in Entity PROVE Unborn(x)'
    <2>1. Unborn(x)
      BY CalmParts
    <2>2. \A c \in Conn : \A K : At(inbox[c], K, x)' = At(inbox[c], K, x)
      BY <1>1 DEF At
    <2>3. \A c \in Conn : Makes(inbox[c], x)' = Makes(inbox[c], x)
      BY <1>1 DEF Makes, At
    <2>4. \A c \in Conn : x \notin used => At(inbox[c], {"notify", "destroy", "create", "load"}, x)' = {}
      BY <2>1, <2>2 DEF Unborn
    <2> QED BY <1>1, <1>2, <1>4, <2>1, <2>3, <2>4, UnbornStays
  <1>9. \A h \in Game : Freezes(h)' /\ Lives(h)' /\ First(h)'
    BY <1>3, UntouchedGame, CalmParts
  <1>10. Lines'
    <2>1. /\ Linked
          /\ \A d \in Conn : link[d] = "unused" => inbox[d] = <<>> /\ wire[d] = <<>> /\ id[d] = None
          /\ \A d \in Conn : \A i \in 1 .. Len(inbox[d]) : inbox[d][i].type \in Said
          /\ Tame(Now)
      BY CalmParts
    <2>2. Linked'
      BY <1>1, <2>1, LinkedStep
    <2>3. \A x \in Entity : edi'[x].pending \in Seq(Light)
      BY <1>2, <2>1 DEF Tame, Now
    <2> QED BY <1>1, <2>1, <2>2, <2>3 DEF Lines
  <1> QED BY <1>4, <1>6, <1>7, <1>8, <1>9, <1>10, CalmFrom

\* The main loop of g works: it may read a packet, and it sends ms.
Tidings == {m \in Request : m.type \in Said \ {"setGameID"}}
Working(g, ms) ==
  /\ Running(g) /\ ms \in Seq(Tidings)
  /\ edi' = edi /\ gdi' = gdi /\ id' = id /\ link' = link
  /\ cur' = cur /\ reg' = reg /\ snap' = snap /\ dump' = dump
  /\ inbox' = [inbox EXCEPT ![cur[g]] = @ \o ms]
  /\ \A h \in Game \ {g} : proc'[h] = proc[h] /\ live'[h] = live[h] /\ loading'[h] = loading[h]
  /\ wire' = wire \/ (wire[cur[g]] # <<>> /\ wire' = [wire EXCEPT ![cur[g]] = Tail(@)])
  /\ proc'[g] \in {"running", "freezing"}
  /\ proc'[g] = "freezing" => proc[g] = "freezing" \/ Acks(Got(g)) # {}

LEMMA WorkingQueues ==
  ASSUME Peers, Peers', Calm, NEW g \in Game, NEW ms, Working(g, ms)
  PROVE  /\ cur[g] \in Conn /\ cur[g] # None /\ link[cur[g]] = "open" /\ reg[g] = "registered"
         /\ Sent(g) \in Seq(Request) /\ ms \in Seq(Request) /\ Sent(g) = inbox[cur[g]]
         /\ Sent(g)' = Sent(g) \o ms
         /\ inbox'[cur[g]] = inbox[cur[g]] \o ms
         /\ \A d \in Conn \ {cur[g]} : inbox'[d] = inbox[d] /\ wire'[d] = wire[d]
         /\ Got(g) \in Seq(Packet) /\ Got(g) = wire[cur[g]] /\ Got(g)' = wire'[cur[g]]
         /\ \/ Got(g)' = Got(g)
            \/ Got(g) # <<>> /\ Got(g)' = Tail(Got(g))
         /\ Wait(g)' = Wait(g)
  <1>1. Lives(g)
    BY CalmParts
  <1>2. /\ cur[g] \in Conn /\ cur[g] # None /\ link[cur[g]] = "open" /\ reg[g] = "registered"
        /\ inbox \in [Conn -> Seq(Request)] /\ wire \in [Conn -> Seq(Packet)]
    BY <1>1, NowTyped DEF Working, Lives, Peers
  <1>3. ms \in Seq(Request)
    BY DEF Working, Tidings
  <1>4. cur' = cur /\ link' = link /\ gdi' = gdi
    BY DEF Working
  <1>5. /\ inbox'[cur[g]] = inbox[cur[g]] \o ms
        /\ \A d \in Conn \ {cur[g]} : inbox'[d] = inbox[d]
    BY <1>2 DEF Working
  <1>6. /\ wire'[cur[g]] = wire[cur[g]] \/ (wire[cur[g]] # <<>> /\ wire'[cur[g]] = Tail(wire[cur[g]]))
        /\ \A d \in Conn \ {cur[g]} : wire'[d] = wire[d]
    BY <1>2 DEF Working
  <1>7. Sent(g) = inbox[cur[g]] /\ Sent(g)' = inbox'[cur[g]]
    BY <1>2, <1>4 DEF Sent
  <1>8. Got(g) = wire[cur[g]] /\ Got(g)' = wire'[cur[g]]
    BY <1>2, <1>4 DEF Got
  <1>9. Wait(g)' = Wait(g)
    BY <1>4 DEF Wait
  <1> QED BY <1>2, <1>3, <1>5, <1>6, <1>7, <1>8, <1>9

\* The other games are as they were.
LEMMA WorkingOthers ==
  ASSUME Peers, Peers', Calm, NEW g \in Game, NEW ms, Working(g, ms), NEW h \in Game, h # g
  PROVE  Untouched(h)
  <1>1. /\ cur[g] \in Conn /\ cur[g] # None
        /\ \A d \in Conn \ {cur[g]} : inbox'[d] = inbox[d] /\ wire'[d] = wire[d]
    BY WorkingQueues
  <1>2. cur[h] \in Conn \cup {None} /\ Linked
    BY CalmParts DEF Peers
  <1>3. cur[h] # None => cur[h] \in Conn \ {cur[g]}
    BY <1>1, <1>2 DEF Linked
  <1> QED BY <1>1, <1>3 DEF Untouched, Working

LEMMA WorkingFrame ==
  ASSUME Peers, Peers', [Next]_vars, Calm, NEW g \in Game, NEW ms, Working(g, ms)
  PROVE  /\ \A h \in Game \ {g} : Untouched(h)
         /\ Freezes(g)' /\ Lives(g)' /\ First(g)' /\ Lines'
  <1>1. /\ Freezes(g) /\ Lives(g) /\ First(g) /\ Linked
        /\ \A d \in Conn : link[d] = "unused" => inbox[d] = <<>> /\ wire[d] = <<>> /\ id[d] = None
        /\ \A d \in Conn : \A i \in 1 .. Len(inbox[d]) : inbox[d][i].type \in Said
        /\ Tame(Now)
    BY CalmParts
  <1>2. /\ cur[g] \in Conn /\ cur[g] # None /\ link[cur[g]] = "open" /\ reg[g] = "registered"
        /\ Sent(g) \in Seq(Request) /\ ms \in Seq(Request) /\ Sent(g) = inbox[cur[g]]
        /\ inbox'[cur[g]] = inbox[cur[g]] \o ms
        /\ \A d \in Conn \ {cur[g]} : inbox'[d] = inbox[d] /\ wire'[d] = wire[d]
        /\ Got(g) \in Seq(Packet)
        /\ \/ Got(g)' = Got(g)
           \/ Got(g) # <<>> /\ Got(g)' = Tail(Got(g))
        /\ Wait(g)' = Wait(g)
    BY WorkingQueues
  <1>4. \A h \in Game \ {g} : Untouched(h)
    BY WorkingOthers
  <1>5. Freezes(g)'
    <2>1. Acks(Got(g))' # {} => Acks(Got(g)) # {}
      <3>1. PICK q \in Seq(Packet) : q = Got(g)
        BY <1>2
      <3>2. PICK r : r = Got(g)'
        OBVIOUS
      <3>3. r = q \/ (q # <<>> /\ r = Tail(q))
        BY <1>2, <3>1, <3>2
      <3>4. q # <<>> => \A i \in Acks(Tail(q)) : i + 1 \in Acks(q)
        BY AtTail
      <3>5. Acks(r) # {} => Acks(q) # {}
        BY <3>3, <3>4
      <3>6. Acks(Got(g)) = Acks(q) /\ Acks(Got(g))' = Acks(r)
        BY <3>1, <3>2 DEF Acks
      <3> QED BY <3>5, <3>6
    <2>2. Acks(Wait(g))' = Acks(Wait(g))
      BY <1>2 DEF Acks
    <2>3. proc'[g] # "frozen"
      BY DEF Working
    <2> QED BY <1>1, <2>1, <2>2, <2>3 DEF Freezes, Working
  <1>6. Lives(g)'
    <2>1. proc[g] # "frozen"
      BY DEF Working, Running
    <2> QED BY <1>1, <1>2, <2>1 DEF Lives, Working, Running
  <1>7. \A i \in 1 .. Len(ms) : ms[i].type \in Said \ {"setGameID"}
    BY DEF Working, Tidings
  <1>8. PICK q \in Seq(Request) : q = inbox[cur[g]]
    BY <1>2
  <1>9. /\ Len(q) \in Nat /\ Len(ms) \in Nat
        /\ \A i \in 1 .. Len(q \o ms) :
             \/ i \in 1 .. Len(q) /\ (q \o ms)[i] = q[i]
             \/ i - Len(q) \in 1 .. Len(ms) /\ i > Len(q) /\ (q \o ms)[i] = ms[i - Len(q)]
    BY <1>2
  <1>10. First(g)'
    <2>1. \A i \in 1 .. Len(q \o ms) : (q \o ms)[i].type = "setGameID" => i \in 1 .. Len(q) /\ q[i].type = "setGameID"
      BY <1>7, <1>9
    <2>2. \A i \in 1 .. Len(q) : q[i].type = "setGameID" => i = 1 /\ id[cur[g]] = None
      BY <1>1, <1>2, <1>8 DEF First
    <2>3. id[cur[g]] = None => q # <<>> /\ q[1].type = "setGameID" /\ q[1].game = g
      BY <1>1, <1>2, <1>8 DEF First, Working
    <2>4. q # <<>> => q \o ms # <<>> /\ (q \o ms)[1] = q[1]
      BY <1>2
    <2>5. inbox'[cur[g]] = q \o ms /\ cur' = cur /\ id' = id /\ gdi' = gdi /\ link' = link
      BY <1>2, <1>8 DEF Working
    <2>6. /\ id[cur[g]] \in {g, None}
          /\ id[cur[g]] = g => gdi[g].clientProxy = cur[g] \/ link[cur[g]] = "gone"
          /\ id[cur[g]] = None => gdi[g].clientProxy # cur[g]
      BY <1>1, <1>2 DEF First
    <2> QED BY <2>1, <2>2, <2>3, <2>4, <2>5, <2>6 DEF First
  <1>11. Lines'
    <2>1. Linked'
      BY <1>1, LinkedStep DEF Working
    <2>2. ASSUME NEW d \in Conn, NEW i \in 1 .. Len(inbox'[d]) PROVE inbox'[d][i].type \in Said
      <3>1. ASSUME d # cur[g] PROVE inbox'[d][i].type \in Said
        <4>1. inbox'[d] = inbox[d]
          BY <1>2, <3>1
        <4>2. i \in 1 .. Len(inbox[d])
          BY <2>2, <4>1
        <4>3. inbox[d][i].type \in Said
          BY <1>1, <4>2
        <4> QED BY <4>1, <4>3
      <3>2. ASSUME d = cur[g] PROVE inbox'[d][i].type \in Said
        <4>1. inbox'[d] = q \o ms
          BY <1>2, <1>8, <3>2
        <4>2. i \in 1 .. Len(q \o ms)
          BY <2>2, <4>1
        <4>3. \A j \in 1 .. Len(q) : q[j].type \in Said
          BY <1>1, <1>2, <1>8
        <4>4. (q \o ms)[i].type \in Said
          BY <1>7, <1>9, <4>2, <4>3
        <4> QED BY <4>1, <4>4
      <3> QED BY <3>1, <3>2
    <2>3. ASSUME NEW d \in Conn, link'[d] = "unused" PROVE inbox'[d] = <<>> /\ wire'[d] = <<>> /\ id'[d] = None
      <3>1. link[d] = "unused" /\ id' = id
        BY <2>3 DEF Working
      <3>2. d # cur[g]
        BY <1>2, <3>1
      <3> QED BY <1>1, <1>2, <3>1, <3>2
    <2>4. \A x \in Entity : edi'[x].pending \in Seq(Light)
      <3>1. edi' = edi
        BY DEF Working
      <3>2. \A x \in Entity : edi[x].pending \in Seq(Light)
        BY <1>1, NowTame DEF Tame
      <3> QED BY <3>1, <3>2
    <2> QED BY <2>1, <2>2, <2>3, <2>4 DEF Lines
  <1> QED BY <1>4, <1>5, <1>6, <1>10, <1>11

\* What g has yet to say, to read and to get after it worked.
LEMMA WorkingViews ==
  ASSUME Peers, Peers', Calm, NEW g \in Game, NEW ms, Working(g, ms), NEW e
  PROVE  /\ \A K : /\ At(ms, K, e) = {} => At(Sent(g), K, e)' = At(Sent(g), K, e)
                   /\ At(Sent(g), K, e) # {} \/ At(ms, K, e) # {} => At(Sent(g), K, e)' # {}
                   /\ At(Sent(g), K, e) = {} /\ One(At(ms, K, e)) => One(At(Sent(g), K, e)')
                   /\ \A L : \A i \in At(Sent(g), K, e)' : \A j \in At(Sent(g), L, e) :
                        i \in At(Sent(g), K, e) \/ j < i
         /\ Below(Bids(Got(g), e)', Bids(Got(g), e)) /\ Bids(Wait(g), e)' = Bids(Wait(g), e)
         /\ Listed(g, e)' <=> Listed(g, e)
         /\ Away(g)' <=> Away(g)
         /\ HeldBack(gdi[g])' <=> HeldBack(gdi[g])
  <1>1. PICK q \in Seq(Request) : q = Sent(g)
    BY WorkingQueues
  <1>2. ms \in Seq(Request) /\ Sent(g)' = q \o ms /\ \A i \in 1 .. Len(ms) : ms[i].type # "setGameID"
    <2>1. ms \in Seq(Request) /\ Sent(g)' = q \o ms
      BY <1>1, WorkingQueues, ZenonT(40)
    <2>2. ms \in Seq(Tidings)
      BY DEF Working
    <2>3. \A m \in Tidings : m.type # "setGameID"
      BY DEF Tidings
    <2> QED BY <2>1, <2>2, <2>3
  <1>3. /\ Len(q) \in Nat /\ Len(ms) \in Nat
        /\ \A i \in 1 .. Len(q \o ms) :
             \/ i \in 1 .. Len(q) /\ (q \o ms)[i] = q[i]
             \/ i - Len(q) \in 1 .. Len(ms) /\ i > Len(q) /\ (q \o ms)[i] = ms[i - Len(q)]
        /\ \A i \in 1 .. Len(q) : i \in 1 .. Len(q \o ms) /\ (q \o ms)[i] = q[i]
    BY <1>2
  <1>4. ASSUME NEW K PROVE
          /\ At(ms, K, e) = {} => At(Sent(g), K, e)' = At(Sent(g), K, e)
          /\ At(Sent(g), K, e) # {} \/ At(ms, K, e) # {} => At(Sent(g), K, e)' # {}
          /\ At(Sent(g), K, e) = {} /\ One(At(ms, K, e)) => One(At(Sent(g), K, e)')
          /\ \A L : \A i \in At(Sent(g), K, e)' : \A j \in At(Sent(g), L, e) :
               i \in At(Sent(g), K, e) \/ j < i
    <2>1. At(Sent(g), K, e) = At(q, K, e) /\ At(Sent(g), K, e)' = At(q \o ms, K, e)
      BY <1>1, <1>2 DEF At
    <2>2. /\ At(q, K, e) \subseteq At(q \o ms, K, e)
          /\ \A i \in At(q \o ms, K, e) : i \in At(q, K, e) \/ (i - Len(q) \in At(ms, K, e) /\ i > Len(q))
          /\ \A i \in At(ms, K, e) : Len(q) + i \in At(q \o ms, K, e)
      BY <1>2, AtConcat
    <2>3. At(ms, K, e) = {} => At(q \o ms, K, e) = At(q, K, e)
      BY <2>2
    <2>4. At(q, K, e) # {} \/ At(ms, K, e) # {} => At(q \o ms, K, e) # {}
      BY <2>2
    <2>5. At(q \o ms, K, e) \subseteq Int
      BY <1>3 DEF At
    <2>6. ASSUME At(q, K, e) = {}, One(At(ms, K, e)) PROVE One(At(q \o ms, K, e))
      <3>1. ASSUME NEW i \in At(q \o ms, K, e), NEW j \in At(q \o ms, K, e) PROVE i = j
        <4>1. i - Len(q) \in At(ms, K, e) /\ j - Len(q) \in At(ms, K, e)
          BY <2>2, <2>6, <3>1
        <4>2. i - Len(q) = j - Len(q)
          BY <2>6, <4>1 DEF One
        <4>3. i \in Int /\ j \in Int
          BY <2>5, <3>1
        <4> QED BY <1>3, <4>2, <4>3
      <3> QED BY <3>1 DEF One
    <2>7. ASSUME NEW L, NEW i \in At(q \o ms, K, e), NEW j \in At(Sent(g), L, e)
          PROVE  i \in At(q, K, e) \/ j < i
      <3>1. j \in 1 .. Len(q)
        BY <1>1, <2>7 DEF At
      <3>2. i \in At(q, K, e) \/ (i \in Int /\ i > Len(q))
        BY <2>2, <2>5, <2>7
      <3> QED BY <1>3, <3>1, <3>2
    <2> QED BY <2>1, <2>3, <2>4, <2>6, <2>7
  <1>5. Below(Bids(Got(g), e)', Bids(Got(g), e))
    <2>1. PICK x \in Seq(Packet) : x = Got(g)
      BY WorkingQueues
    <2>2. PICK y : y = Got(g)'
      OBVIOUS
    <2>3. y = x \/ (x # <<>> /\ y = Tail(x))
      BY <2>1, <2>2, WorkingQueues
    <2> DEFINE K == {"load", "create"}
    <2>4. Bids(Got(g), e) = At(x, K, e) /\ Bids(Got(g), e)' = At(y, K, e)
      BY <2>1, <2>2 DEF Bids, At
    <2> HIDE DEF K
    <2>5. x # <<>> => Below(At(Tail(x), K, e), At(x, K, e))
      BY TailBelow
    <2>6. Below(At(x, K, e), At(x, K, e))
      BY DEF Below
    <2> QED BY <2>3, <2>4, <2>5, <2>6
  <1>6. Bids(Wait(g), e)' = Bids(Wait(g), e)
    BY WorkingQueues DEF Bids, At
  <1>7. Listed(g, e)' <=> Listed(g, e)
    <2>1. \A i \in 1 .. Len(q \o ms) : Lists((q \o ms)[i], e) => i \in 1 .. Len(q) /\ Lists(q[i], e)
      BY <1>2, <1>3 DEF Lists
    <2>2. \A i \in 1 .. Len(q) : Lists(q[i], e) => i \in 1 .. Len(q \o ms) /\ Lists((q \o ms)[i], e)
      BY <1>3
    <2>3. Listed(g, e) <=> (reg[g] = "listed" /\ e \in snap[g]) \/ \E i \in 1 .. Len(q) : Lists(q[i], e)
      BY <1>1 DEF Listed, Lists
    <2>4. Listed(g, e)' <=> (reg[g] = "listed" /\ e \in snap[g]) \/ \E i \in 1 .. Len(q \o ms) : Lists((q \o ms)[i], e)
      <3>1. reg' = reg /\ snap' = snap
        BY DEF Working
      <3> QED BY <1>2, <3>1 DEF Listed, Lists
    <2> QED BY <2>1, <2>2, <2>3, <2>4
  <1>8. /\ Away(g)' <=> Away(g)
        /\ HeldBack(gdi[g])' <=> HeldBack(gdi[g])
    BY DEF Working, Away, HeldBack
  <1> QED BY <1>4, <1>5, <1>6, <1>7, <1>8

\* What a step of g is to e: nothing; the end of the copy or of its load; the coming of
\* the copy that was loaded, asked for or is new; the load of the copy.
Spares(g, ms, e) ==
  /\ At(ms, {"notify"}, e) = {} /\ At(ms, {"destroy"}, e) = {}
  /\ Has(g, e)' <=> Has(g, e)
  /\ loading'[g][e] = loading[g][e]
Leaves(g, ms, e) ==
  /\ At(ms, {"notify"}, e) = {} /\ At(ms, {"destroy"}, e) # {} /\ One(At(ms, {"destroy"}, e))
  /\ Has(g, e) \/ Loads(g, e)
  /\ ~ Has(g, e)' /\ loading'[g][e] = 0
Comes(g, ms, e) ==
  /\ At(ms, {"notify"}, e) # {} /\ At(ms, {"destroy"}, e) = {}
  /\ \/ Loads(g, e)
     \/ Bids(Got(g), e) # {} /\ Bids(Got(g), e)' = {}
     \/ edi[e].gameid = None /\ \A h \in Game : ~ Claims(h, e)
  /\ Has(g, e)' /\ loading'[g][e] = 0
Starts(g, ms, e) ==
  /\ At(ms, {"notify"}, e) = {} /\ At(ms, {"destroy"}, e) = {}
  /\ Bids(Got(g), e) # {} /\ Bids(Got(g), e)' = {}
  /\ Has(g, e)' <=> Has(g, e)
  /\ loading'[g][e] = loading[g][e] + 1

\* The views of e that Calm is about.
Right(g, e) == Alone(g, e)' /\ Found(g, e)' /\ InOrder(g, e)' /\ Absent(g, e)'

LEMMA WorkingNoted ==
  ASSUME Peers, Peers', Calm, NEW g \in Game, NEW ms, Working(g, ms), NEW e
  PROVE  /\ Noted(e) => Noted(e)'
         /\ At(ms, {"notify"}, e) # {} => Noted(e)'
         /\ \A c \in Conn : \A K : /\ At(ms, K, e) = {} => At(inbox[c], K, e)' = At(inbox[c], K, e)
                                   /\ c # cur[g] => At(inbox[c], K, e)' = At(inbox[c], K, e)
  <1>1. /\ cur[g] \in Conn /\ Sent(g) = inbox[cur[g]] /\ Sent(g)' = inbox'[cur[g]]
        /\ \A d \in Conn \ {cur[g]} : inbox'[d] = inbox[d]
    <2>1. /\ cur[g] \in Conn /\ Sent(g) = inbox[cur[g]] /\ Sent(g)' = Sent(g) \o ms
          /\ inbox'[cur[g]] = inbox[cur[g]] \o ms
      BY WorkingQueues
    <2>2. \A d \in Conn \ {cur[g]} : inbox'[d] = inbox[d]
      BY WorkingQueues
    <2> QED BY <2>1, <2>2
  <1>2. \A K : /\ At(ms, K, e) = {} => At(Sent(g), K, e)' = At(Sent(g), K, e)
               /\ At(Sent(g), K, e) # {} \/ At(ms, K, e) # {} => At(Sent(g), K, e)' # {}
    BY WorkingViews
  <1>3. \A K : At(inbox[cur[g]], K, e) = At(Sent(g), K, e) /\ At(inbox'[cur[g]], K, e) = At(Sent(g), K, e)'
    BY <1>1 DEF At
  <1>4. ASSUME NEW c \in Conn, NEW K PROVE At(inbox[c], K, e)' = At(inbox'[c], K, e)
    BY DEF At
  <1>5. \A c \in Conn \ {cur[g]} : \A K : At(inbox'[c], K, e) = At(inbox[c], K, e)
    BY <1>1
  <1>6. ASSUME NEW c \in Conn, At(inbox[c], {"notify"}, e) # {} PROVE At(inbox'[c], {"notify"}, e) # {}
    BY <1>2, <1>3, <1>5, <1>6
  <1>7. Noted(e)' <=> \E c \in Conn : At(inbox'[c], {"notify"}, e) # {}
    BY DEF Noted, Notes, At
  <1>8. Noted(e) <=> \E c \in Conn : At(inbox[c], {"notify"}, e) # {}
    BY DEF Noted, Notes
  <1>9. Noted(e) => Noted(e)'
    BY <1>6, <1>7, <1>8
  <1>10. At(ms, {"notify"}, e) # {} => Noted(e)'
    BY <1>1, <1>2, <1>3, <1>7
  <1>11. \A c \in Conn : \A K : /\ At(ms, K, e) = {} => At(inbox[c], K, e)' = At(inbox[c], K, e)
                                /\ c # cur[g] => At(inbox[c], K, e)' = At(inbox[c], K, e)
    BY <1>2, <1>3, <1>4, <1>5
  <1> QED BY <1>9, <1>10, <1>11

\* The views of what g has, reads and says, with the same words for all four.
LEMMA WorkingParts ==
  ASSUME Peers, Peers', Records, Records', Calm, NEW g \in Game, NEW ms, Working(g, ms), NEW e \in Entity
  PROVE  /\ Alone(g, e) /\ Found(g, e) /\ InOrder(g, e) /\ Absent(g, e)
         /\ loading[g][e] \in Nat /\ loading'[g][e] \in Nat
         /\ Noted(e) => Noted(e)'
         /\ At(ms, {"notify"}, e) # {} => Noted(e)' /\ Notes(Sent(g), e)' # {}
         /\ At(ms, {"notify"}, e) = {} => Notes(Sent(g), e)' = Notes(Sent(g), e)
         /\ At(ms, {"destroy"}, e) = {} => Ends(Sent(g), e)' = Ends(Sent(g), e)
         /\ At(ms, {"destroy"}, e) # {} => Ends(Sent(g), e)' # {}
         /\ Ends(Sent(g), e) = {} /\ One(At(ms, {"destroy"}, e)) => One(Ends(Sent(g), e))'
         /\ \A i \in Ends(Sent(g), e)' : i \in Ends(Sent(g), e) \/ \A j \in Notes(Sent(g), e) : j < i
         /\ Below(Bids(Got(g), e)', Bids(Got(g), e)) /\ Bids(Wait(g), e)' = Bids(Wait(g), e)
         /\ Listed(g, e)' <=> Listed(g, e)
         /\ Listed(g, e) => Away(g)
         /\ Away(g)' <=> Away(g)
         /\ HeldBack(gdi[g])' <=> HeldBack(gdi[g])
         /\ edi' = edi
  <1>1. Alone(g, e) /\ Found(g, e) /\ InOrder(g, e) /\ Absent(g, e) /\ Lives(g) /\ First(g)
    BY CalmParts
  <1>2. loading[g][e] \in Nat /\ loading'[g][e] \in Nat
    BY DEF Records
  <1>3. /\ \A K : /\ At(ms, K, e) = {} => At(Sent(g), K, e)' = At(Sent(g), K, e)
                  /\ At(Sent(g), K, e) # {} \/ At(ms, K, e) # {} => At(Sent(g), K, e)' # {}
                  /\ At(Sent(g), K, e) = {} /\ One(At(ms, K, e)) => One(At(Sent(g), K, e)')
                  /\ \A L : \A i \in At(Sent(g), K, e)' : \A j \in At(Sent(g), L, e) :
                       i \in At(Sent(g), K, e) \/ j < i
        /\ Below(Bids(Got(g), e)', Bids(Got(g), e)) /\ Bids(Wait(g), e)' = Bids(Wait(g), e)
        /\ Listed(g, e)' <=> Listed(g, e)
        /\ Away(g)' <=> Away(g)
        /\ HeldBack(gdi[g])' <=> HeldBack(gdi[g])
    BY WorkingViews
  <1>4. /\ Notes(Sent(g), e) = At(Sent(g), {"notify"}, e) /\ Notes(Sent(g), e)' = At(Sent(g), {"notify"}, e)'
        /\ Ends(Sent(g), e) = At(Sent(g), {"destroy"}, e) /\ Ends(Sent(g), e)' = At(Sent(g), {"destroy"}, e)'
    BY DEF Notes, Ends
  <1>5. One(Ends(Sent(g), e))' <=> One(Ends(Sent(g), e)')
    BY DEF One
  <1>6. Listed(g, e) => Away(g)
    BY <1>1, ListedAway
  <1>7. /\ Noted(e) => Noted(e)'
        /\ At(ms, {"notify"}, e) # {} => Noted(e)'
    BY WorkingNoted
  <1>8. edi' = edi
    BY DEF Working
  <1>9. \A i \in Ends(Sent(g), e)' : i \in Ends(Sent(g), e) \/ \A j \in Notes(Sent(g), e) : j < i
    BY <1>3, <1>4
  <1>10. /\ At(ms, {"notify"}, e) # {} => Noted(e)' /\ Notes(Sent(g), e)' # {}
         /\ At(ms, {"notify"}, e) = {} => Notes(Sent(g), e)' = Notes(Sent(g), e)
         /\ At(ms, {"destroy"}, e) = {} => Ends(Sent(g), e)' = Ends(Sent(g), e)
         /\ At(ms, {"destroy"}, e) # {} => Ends(Sent(g), e)' # {}
         /\ Ends(Sent(g), e) = {} /\ One(At(ms, {"destroy"}, e)) => One(Ends(Sent(g), e))'
    BY <1>3, <1>4, <1>5, <1>7
  <1> QED BY <1>1, <1>2, <1>3, <1>6, <1>7, <1>8, <1>9, <1>10

\* A claim that is new is to an entity that is nowhere.
Fair(g, e) == Claims(g, e)' => Claims(g, e) \/ \A h \in Game : ~ Claims(h, e)

LEMMA KeepsRight ==
  ASSUME Peers, Peers', Records, Records', Calm, NEW g \in Game, NEW ms, Working(g, ms),
         NEW e \in Entity, Spares(g, ms, e)
  PROVE  Right(g, e) /\ (Claims(g, e)' => Claims(g, e))
  <1>1. /\ Alone(g, e) /\ Found(g, e) /\ InOrder(g, e) /\ Absent(g, e)
        /\ loading[g][e] \in Nat
        /\ Noted(e) => Noted(e)'
        /\ Notes(Sent(g), e)' = Notes(Sent(g), e) /\ Ends(Sent(g), e)' = Ends(Sent(g), e)
        /\ Below(Bids(Got(g), e)', Bids(Got(g), e)) /\ Bids(Wait(g), e)' = Bids(Wait(g), e)
        /\ Listed(g, e)' <=> Listed(g, e)
        /\ Away(g)' <=> Away(g)
        /\ HeldBack(gdi[g])' <=> HeldBack(gdi[g])
        /\ edi' = edi
    BY WorkingParts DEF Spares
  <1>2. Loads(g, e)' <=> Loads(g, e)
    BY DEF Loads, Spares
  <1>3. Fewer(g, e)
    BY <1>1 DEF Fewer, Below, Spares
  <1>4. Lean(g, e)
    BY <1>1, <1>3 DEF Lean
  <1>5. Alone(g, e)' /\ (Coming(g, e)' => Coming(g, e)) /\ (Claims(g, e)' => Claims(g, e))
    BY <1>1, <1>4, LeanClaims
  <1>6. Found(g, e)'
    BY <1>1, <1>5, FoundStays
  <1>7. InOrder(g, e)'
    BY <1>1 DEF InOrder
  <1>8. Absent(g, e)'
    BY <1>1, <1>2 DEF Absent, Below, Spares
  <1> QED BY <1>5, <1>6, <1>7, <1>8 DEF Right

LEMMA LeavesRight ==
  ASSUME Peers, Peers', Records, Records', Calm, NEW g \in Game, NEW ms, Working(g, ms),
         NEW e \in Entity, Leaves(g, ms, e)
  PROVE  Right(g, e) /\ (Claims(g, e)' => Claims(g, e))
  <1>1. /\ Alone(g, e) /\ Found(g, e) /\ InOrder(g, e) /\ Absent(g, e)
        /\ loading[g][e] \in Nat
        /\ Noted(e) => Noted(e)'
        /\ Notes(Sent(g), e)' = Notes(Sent(g), e) /\ Ends(Sent(g), e)' # {}
        /\ Ends(Sent(g), e) = {} /\ One(At(ms, {"destroy"}, e)) => One(Ends(Sent(g), e))'
        /\ \A i \in Ends(Sent(g), e)' : i \in Ends(Sent(g), e) \/ \A j \in Notes(Sent(g), e) : j < i
        /\ Below(Bids(Got(g), e)', Bids(Got(g), e)) /\ Bids(Wait(g), e)' = Bids(Wait(g), e)
        /\ Listed(g, e)' <=> Listed(g, e)
        /\ Away(g)' <=> Away(g)
        /\ HeldBack(gdi[g])' <=> HeldBack(gdi[g])
        /\ edi' = edi
    BY WorkingParts DEF Leaves
  <1>2. ~ Loads(g, e)' /\ ~ Has(g, e)' /\ loading'[g][e] = 0
    BY DEF Loads, Leaves
  <1>3. Bids(Got(g), e) = {} /\ Bids(Wait(g), e) = {} /\ Ends(Sent(g), e) = {}
    BY <1>1 DEF Alone, Coming, Leaves
  <1>4. Bids(Got(g), e)' = {} /\ Bids(Wait(g), e)' = {} /\ One(Ends(Sent(g), e))'
    BY <1>1, <1>3 DEF Below, Leaves
  <1>5. One({})
    BY DEF One
  <1>6. Alone(g, e)'
    <2>1. One(Bids(Got(g), e))' /\ One(Bids(Wait(g), e))'
      BY <1>4 DEF One
    <2> QED BY <1>2, <1>4, <2>1 DEF Alone
  <1>7. ~ Coming(g, e)'
    BY <1>2, <1>4 DEF Coming
  <1>8. Claims(g, e)
    BY DEF Claims, Coming, Leaves
  <1>9. Found(g, e)'
    BY <1>1, <1>7, <1>8, FoundStays
  <1>10. InOrder(g, e)'
    BY <1>1, <1>3 DEF InOrder
  <1>11. Absent(g, e)'
    BY <1>1, <1>2, <1>4 DEF Absent, Leaves
  <1> QED BY <1>6, <1>8, <1>9, <1>10, <1>11 DEF Right

LEMMA ComesRight ==
  ASSUME Peers, Peers', Records, Records', Calm, NEW g \in Game, NEW ms, Working(g, ms),
         NEW e \in Entity, Comes(g, ms, e)
  PROVE  Right(g, e) /\ Fair(g, e)
  <1>1. /\ Alone(g, e) /\ Found(g, e) /\ InOrder(g, e) /\ Absent(g, e)
        /\ loading[g][e] \in Nat
        /\ Noted(e)' /\ Notes(Sent(g), e)' # {} /\ Ends(Sent(g), e)' = Ends(Sent(g), e)
        /\ Below(Bids(Got(g), e)', Bids(Got(g), e)) /\ Bids(Wait(g), e)' = Bids(Wait(g), e)
        /\ Listed(g, e)' <=> Listed(g, e)
        /\ Listed(g, e) => Away(g)
        /\ Away(g)' <=> Away(g)
        /\ HeldBack(gdi[g])' <=> HeldBack(gdi[g])
        /\ edi' = edi
    BY WorkingParts DEF Comes
  <1>2. ~ Loads(g, e)' /\ Has(g, e)' /\ loading'[g][e] = 0
    BY DEF Loads, Comes
  <1>3. (Loads(g, e) \/ Bids(Got(g), e) # {}) \/ ((\A h \in Game : ~ Claims(h, e)) /\ edi[e].gameid = None)
    BY DEF Comes
  <1>4. Bids(Got(g), e)' = {} /\ Bids(Wait(g), e)' = {} /\ Ends(Sent(g), e)' = {}
    <2>1. CASE Loads(g, e)
      BY <1>1, <2>1 DEF Alone, Below
    <2>2. CASE Bids(Got(g), e) # {} /\ Bids(Got(g), e)' = {}
      BY <1>1, <2>2 DEF Alone
    <2>3. CASE \A h \in Game : ~ Claims(h, e)
      <3>1. ~ Claims(g, e)
        BY <2>3
      <3> QED BY <1>1, <3>1 DEF Claims, Coming, Below
    <2> QED BY <2>1, <2>2, <2>3 DEF Comes
  <1>5. ~ Listed(g, e)
    <2>1. CASE Loads(g, e) \/ Bids(Got(g), e) # {}
      BY <1>1, <2>1 DEF Absent
    <2>2. CASE \A h \in Game : ~ Claims(h, e)
      BY <2>2 DEF Claims
    <2> QED BY <1>3, <2>1, <2>2
  <1>6. Alone(g, e)' /\ ~ Coming(g, e)'
    <2>1. One(Bids(Got(g), e))' /\ One(Bids(Wait(g), e))' /\ One(Ends(Sent(g), e))'
      BY <1>4 DEF One
    <2>2. ~ Coming(g, e)'
      BY <1>2, <1>4 DEF Coming
    <2> QED BY <1>2, <1>4, <2>1, <2>2 DEF Alone
  <1>7. edi[e].gameid = g \/ edi[e].gameid = None
    BY <1>1, <1>3 DEF Found, Coming
  <1>8. Found(g, e)'
    BY <1>1, <1>6, <1>7 DEF Found
  <1>9. InOrder(g, e)' /\ Absent(g, e)'
    BY <1>1, <1>2, <1>4, <1>5 DEF InOrder, Absent
  <1>10. Fair(g, e)
    BY <1>3 DEF Fair, Claims, Coming
  <1> QED BY <1>6, <1>8, <1>9, <1>10 DEF Right

LEMMA StartsRight ==
  ASSUME Peers, Peers', Records, Records', Calm, NEW g \in Game, NEW ms, Working(g, ms),
         NEW e \in Entity, Starts(g, ms, e)
  PROVE  Right(g, e) /\ (Claims(g, e)' => Claims(g, e))
  <1>1. /\ Alone(g, e) /\ Found(g, e) /\ InOrder(g, e) /\ Absent(g, e)
        /\ loading[g][e] \in Nat
        /\ Noted(e) => Noted(e)'
        /\ Notes(Sent(g), e)' = Notes(Sent(g), e) /\ Ends(Sent(g), e)' = Ends(Sent(g), e)
        /\ Bids(Wait(g), e)' = Bids(Wait(g), e)
        /\ Listed(g, e)' <=> Listed(g, e)
        /\ Away(g)' <=> Away(g)
        /\ HeldBack(gdi[g])' <=> HeldBack(gdi[g])
        /\ edi' = edi
    BY WorkingParts DEF Starts
  <1>2. Coming(g, e) /\ Claims(g, e) /\ ~ Away(g)
    BY <1>1 DEF Coming, Claims, Starts, Absent
  <1>3. ~ Has(g, e) /\ Bids(Wait(g), e) = {} /\ Ends(Sent(g), e) = {} /\ ~ Loads(g, e)
    BY <1>1, <1>2 DEF Alone, Starts
  <1>4. /\ Bids(Got(g), e)' = {} /\ Bids(Wait(g), e)' = {} /\ Ends(Sent(g), e)' = {}
        /\ ~ Has(g, e)' /\ loading'[g][e] <= 1
    BY <1>1, <1>3 DEF Starts, Loads
  <1>5. Alone(g, e)'
    <2>1. One(Bids(Got(g), e))' /\ One(Bids(Wait(g), e))' /\ One(Ends(Sent(g), e))'
      BY <1>4 DEF One
    <2> QED BY <1>4, <2>1 DEF Alone
  <1>6. Found(g, e)'
    BY <1>1, <1>2, FoundStays
  <1>7. InOrder(g, e)' /\ Absent(g, e)'
    BY <1>1, <1>2 DEF InOrder, Absent
  <1> QED BY <1>2, <1>5, <1>6, <1>7 DEF Right

\* Where g makes nothing, what is unborn stays so.
LEMMA WorkingUnborn ==
  ASSUME Peers, Peers', Calm, NEW g \in Game, NEW ms, Working(g, ms), NEW e \in Entity,
         e \in used' <=> e \in used, Claims(g, e)' => Claims(g, e),
         At(ms, {"create"}, e) = {},
         e \notin used => At(ms, {"notify", "destroy", "create", "load"}, e) = {}
  PROVE  Unborn(e)'
  <1>1. Unborn(e) /\ edi' = edi
    BY CalmParts DEF Working
  <1>2. \A h \in Game : Claims(h, e)' => Claims(h, e)
    <2>1. ASSUME NEW h \in Game, h # g PROVE Claims(h, e)' <=> Claims(h, e)
      <3>1. Untouched(h)
        BY <2>1, WorkingOthers
      <3> QED BY <3>1, UntouchedSame
    <2> QED BY <2>1
  <1>3. \A c \in Conn : \A K : At(ms, K, e) = {} => At(inbox[c], K, e)' = At(inbox[c], K, e)
    BY WorkingNoted
  <1>4. \A c \in Conn : Makes(inbox[c], e)' = Makes(inbox[c], e)
    BY <1>3 DEF Makes
  <1>5. \A c \in Conn : e \notin used =>
            At(inbox[c], {"notify", "destroy", "create", "load"}, e)' = {}
    BY <1>1, <1>3 DEF Unborn
  <1> QED BY <1>1, <1>2, <1>4, <1>5, UnbornStays

\* What a step of g is to the entities.
LEMMA WorkingCalm ==
  ASSUME Peers, Peers', Records, Records', [Next]_vars, Calm, NEW g \in Game, NEW ms, Working(g, ms),
         \A e \in Entity : Spares(g, ms, e) \/ Leaves(g, ms, e) \/ Comes(g, ms, e) \/ Starts(g, ms, e),
         \A e \in Entity : Unborn(e)'
  PROVE  Calm'
  <1>1. ASSUME NEW e \in Entity PROVE Right(g, e) /\ Fair(g, e)
    BY KeepsRight, LeavesRight, ComesRight, StartsRight DEF Fair
  <1>2. \A e \in Entity : Alone(g, e)' /\ Found(g, e)' /\ InOrder(g, e)' /\ Absent(g, e)'
    BY <1>1 DEF Right
  <1>3. \A e \in Entity : Claims(g, e)' => Claims(g, e) \/ \A h \in Game : ~ Claims(h, e)
    BY <1>1 DEF Fair
  <1>4. \A e \in Entity : Noted(e) => Noted(e)'
    BY WorkingNoted
  <1>5. \A h \in Game \ {g} : Untouched(h)
    BY WorkingFrame
  <1>6. Freezes(g)' /\ Lives(g)' /\ First(g)' /\ Lines'
    BY WorkingFrame
  <1>7. edi' = edi
    BY DEF Working
  <1> QED BY <1>2, <1>3, <1>4, <1>5, <1>6, <1>7, OneGame

\* The same, where nothing is new.
LEMMA WorkingPlain ==
  ASSUME Peers, Peers', Records, Records', [Next]_vars, Calm, NEW g \in Game, NEW ms, Working(g, ms),
         used' = used,
         \A e \in Entity : \/ Spares(g, ms, e) \/ Leaves(g, ms, e) \/ Starts(g, ms, e)
                           \/ Comes(g, ms, e) /\ Coming(g, e),
         \A e \in Entity : /\ At(ms, {"create"}, e) = {}
                           /\ e \in used \/ At(ms, {"load"}, e) = {}
  PROVE  Calm'
  <1>1. ASSUME NEW e \in Entity PROVE Unborn(e)'
    <2>1. Claims(g, e)' => Claims(g, e)
      BY KeepsRight, LeavesRight, StartsRight DEF Claims
    <2>2. e \notin used => ~ Claims(g, e)
      BY CalmParts DEF Unborn
    <2>3. e \notin used => Spares(g, ms, e)
      BY <2>2 DEF Claims, Coming, Leaves, Starts
    <2>4. e \notin used => At(ms, {"notify"}, e) = {} /\ At(ms, {"destroy"}, e) = {}
                             /\ At(ms, {"create"}, e) = {} /\ At(ms, {"load"}, e) = {}
      BY <2>3 DEF Spares
    <2>5. e \notin used => At(ms, {"notify", "destroy", "create", "load"}, e) = {}
      BY <2>4 DEF At
    <2> QED BY <2>1, <2>5, WorkingUnborn
  <1> QED BY <1>1, WorkingCalm

\* Where one message speaks of an entity.
LEMMA SingleAt ==
  ASSUME NEW m, NEW K, NEW e
  PROVE  /\ m.type \in K /\ m.entity = e => At(<<m>>, K, e) # {}
         /\ ~ (m.type \in K /\ m.entity = e) => At(<<m>>, K, e) = {}
         /\ One(At(<<m>>, K, e))
  BY DEF At, One

-----------------------------------------------------------------------------
(* What a running game does on its own                                      *)

\* What a running game sends gets into its connection.
LEMMA Speaks ==
  ASSUME Peers, Calm, NEW g \in Game, Running(g)
  PROVE  /\ cur[g] \in Conn /\ link[cur[g]] = "open" /\ dump[g] = {}
         /\ \A ms : Told(g, ms) = [inbox EXCEPT ![cur[g]] = @ \o ms]
         /\ inbox = [inbox EXCEPT ![cur[g]] = @ \o <<>>]
  <1>1. Lives(g)
    BY CalmParts
  <1>2. /\ cur[g] \in Conn /\ cur[g] # None /\ link[cur[g]] = "open" /\ dump[g] = {}
    BY <1>1 DEF Lives, Running, Peers
  <1>3. inbox[cur[g]] \in Seq(Request) /\ inbox \in [Conn -> Seq(Request)]
    BY <1>2 DEF Peers
  <1>4. inbox[cur[g]] \o <<>> = inbox[cur[g]]
    BY <1>3
  <1>5. inbox = [inbox EXCEPT ![cur[g]] = @ \o <<>>]
    BY <1>2, <1>3, <1>4
  <1>6. \A ms : Told(g, ms) = [inbox EXCEPT ![cur[g]] = @ \o ms]
    BY <1>2 DEF Told
  <1> QED BY <1>2, <1>5, <1>6

LEMMA OneTiding ==
  ASSUME NEW e \in Entity, NEW k \in {"notify", "destroy", "load", "create", "call"}
  PROVE  <<[type |-> k, entity |-> e]>> \in Seq(Tidings) /\ <<>> \in Seq(Tidings)
  <1>1. [type |-> k, entity |-> e] \in Tidings
    BY DEF Request, Tidings, Said
  <1> QED BY <1>1

\* What the main loop does without reading.
LEMMA WorkingAlone ==
  ASSUME Peers, Calm, NEW g \in Game, Running(g), NEW ms \in Seq(Tidings),
         UNCHANGED <<vars, dump, cur, reg, snap>>,
         proc' = proc \/ proc' = [proc EXCEPT ![g] = "running"],
         inbox' = Told(g, ms) \/ (inbox' = inbox /\ ms = <<>>),
         \A h \in Game \ {g} : live'[h] = live[h] /\ loading'[h] = loading[h]
  PROVE  Working(g, ms)
  <1>1. inbox' = [inbox EXCEPT ![cur[g]] = @ \o ms]
    <2>1. CASE inbox' = Told(g, ms)
      BY <2>1, Speaks
    <2>2. CASE inbox' = inbox /\ ms = <<>>
      <3>1. inbox = [inbox EXCEPT ![cur[g]] = @ \o <<>>]
        BY Speaks
      <3>2. inbox' = [inbox EXCEPT ![cur[g]] = @ \o <<>>] /\ ms = <<>>
        BY <2>2, <3>1
      <3> QED BY <3>2
    <2> QED BY <2>1, <2>2
  <1>2. /\ \A h \in Game \ {g} : proc'[h] = proc[h]
        /\ proc'[g] \in {"running", "freezing"}
        /\ proc'[g] = "freezing" => proc[g] = "freezing"
    BY DEF Running, Peers
  <1> QED BY <1>1, <1>2 DEF Working, vars

LEMMA DestroyEntityCalm ==
  ASSUME Peers, Peers', Records, Records', [Next]_vars, Calm,
         NEW g \in Game, NEW e \in Entity, DestroyEntity(g, e)
  PROVE  Calm'
  <1> DEFINE m == [type |-> "destroy", entity |-> e]
  <1>1. /\ Running(g) /\ e \in live[g] /\ live' = [live EXCEPT ![g] = @ \ {e}]
        /\ inbox' = Told(g, <<m>>)
        /\ UNCHANGED <<vars, dump, cur, reg, snap>> /\ UNCHANGED <<proc, loading, used>>
        /\ live \in [Game -> SUBSET Entity] /\ dump[g] = {}
    BY Speaks DEF DestroyEntity, Tell, Peers
  <1>2. m.type = "destroy" /\ m.entity = e /\ <<m>> \in Seq(Tidings)
    BY OneTiding
  <1> HIDE DEF m
  <1>3. live'[g] = live[g] \ {e} /\ \A h \in Game \ {g} : live'[h] = live[h] /\ loading'[h] = loading[h]
    BY <1>1
  <1>4. Working(g, <<m>>)
    BY <1>1, <1>2, <1>3, WorkingAlone
  <1>5. \A x \in Entity : /\ At(<<m>>, {"notify"}, x) = {} /\ At(<<m>>, {"create"}, x) = {}
                          /\ At(<<m>>, {"load"}, x) = {}
                          /\ x # e => At(<<m>>, {"destroy"}, x) = {}
    BY <1>2, SingleAt
  <1>6. At(<<m>>, {"destroy"}, e) # {} /\ One(At(<<m>>, {"destroy"}, e))
    BY <1>2, SingleAt
  <1>7. Leaves(g, <<m>>, e)
    <2>1. Has(g, e) /\ ~ Has(g, e)'
      BY <1>1, <1>3 DEF Has
    <2>2. ~ Loads(g, e) /\ loading[g][e] \in Nat
      BY <2>1, CalmParts DEF Alone, Coming, Records
    <2>3. loading'[g][e] = 0
      BY <1>1, <2>2 DEF Loads
    <2> QED BY <1>5, <1>6, <2>1, <2>3 DEF Leaves
  <1>8. ASSUME NEW x \in Entity, x # e PROVE Spares(g, <<m>>, x)
    BY <1>1, <1>3, <1>5, <1>8 DEF Spares, Has
  <1> QED BY <1>1, <1>4, <1>5, <1>7, <1>8, WorkingPlain

LEMMA LoadFailedCalm ==
  ASSUME Peers, Peers', Records, Records', [Next]_vars, Calm,
         NEW g \in Game, NEW e \in Entity, LoadFailed(g, e)
  PROVE  Calm'
  <1> DEFINE m == [type |-> "destroy", entity |-> e]
  <1>1. /\ Running(g) /\ loading[g][e] > 0 /\ loading' = [loading EXCEPT ![g][e] = @ - 1]
        /\ inbox' = Told(g, <<m>>)
        /\ UNCHANGED <<vars, dump, cur, reg, snap>> /\ UNCHANGED <<proc, live, used>>
        /\ loading \in [Game -> [Entity -> Nat]]
    BY DEF LoadFailed, Due, Tell, Records
  <1>2. m.type = "destroy" /\ m.entity = e /\ <<m>> \in Seq(Tidings)
    BY OneTiding
  <1> HIDE DEF m
  <1>3. /\ \A h \in Game \ {g} : live'[h] = live[h] /\ loading'[h] = loading[h]
        /\ \A x \in Entity \ {e} : loading'[g][x] = loading[g][x]
        /\ loading'[g][e] = loading[g][e] - 1 /\ loading[g][e] \in Nat
    BY <1>1
  <1>4. Working(g, <<m>>)
    BY <1>1, <1>2, <1>3, WorkingAlone
  <1>5. \A x \in Entity : /\ At(<<m>>, {"notify"}, x) = {} /\ At(<<m>>, {"create"}, x) = {}
                          /\ At(<<m>>, {"load"}, x) = {}
                          /\ x # e => At(<<m>>, {"destroy"}, x) = {}
    BY <1>2, SingleAt
  <1>6. At(<<m>>, {"destroy"}, e) # {} /\ One(At(<<m>>, {"destroy"}, e))
    BY <1>2, SingleAt
  <1>7. Leaves(g, <<m>>, e)
    <2>1. Loads(g, e) /\ loading[g][e] <= 1 /\ ~ Has(g, e)
      BY <1>1, CalmParts DEF Loads, Alone, Coming
    <2>2. ~ Has(g, e)'
      BY <1>1, <2>1 DEF Has
    <2>3. loading'[g][e] = 0
      BY <1>1, <1>3, <2>1
    <2> QED BY <1>5, <1>6, <2>1, <2>2, <2>3 DEF Leaves
  <1>8. ASSUME NEW x \in Entity, x # e PROVE Spares(g, <<m>>, x)
    BY <1>1, <1>3, <1>5, <1>8 DEF Spares, Has
  <1> QED BY <1>1, <1>4, <1>5, <1>7, <1>8, WorkingPlain

LEMMA LoadedCalm ==
  ASSUME Peers, Peers', Records, Records', [Next]_vars, Calm,
         NEW g \in Game, NEW e \in Entity, Loaded(g, e)
  PROVE  Calm'
  <1> DEFINE m == [type |-> "notify", entity |-> e]
  <1>1. Loads(g, e) /\ loading[g][e] <= 1 /\ ~ Has(g, e)
    BY CalmParts DEF Loaded, Due, Loads, Alone, Coming
  <1>2. /\ Running(g) /\ loading' = [loading EXCEPT ![g][e] = @ - 1]
        /\ inbox' = Told(g, <<m>>) /\ live' = [live EXCEPT ![g] = @ \cup {e}]
        /\ UNCHANGED <<vars, dump, cur, reg, snap>> /\ UNCHANGED <<proc, used>>
        /\ loading \in [Game -> [Entity -> Nat]] /\ live \in [Game -> SUBSET Entity]
    BY <1>1 DEF Loaded, Due, Tell, Records, Peers, Has
  <1>3. m.type = "notify" /\ m.entity = e /\ <<m>> \in Seq(Tidings)
    BY OneTiding
  <1> HIDE DEF m
  <1>4. /\ \A h \in Game \ {g} : live'[h] = live[h] /\ loading'[h] = loading[h]
        /\ \A x \in Entity \ {e} : loading'[g][x] = loading[g][x]
        /\ loading'[g][e] = loading[g][e] - 1 /\ loading[g][e] \in Nat
        /\ live'[g] = live[g] \cup {e}
    BY <1>2
  <1>5. Working(g, <<m>>)
    BY <1>2, <1>3, <1>4, WorkingAlone
  <1>6. \A x \in Entity : /\ At(<<m>>, {"destroy"}, x) = {} /\ At(<<m>>, {"create"}, x) = {}
                          /\ At(<<m>>, {"load"}, x) = {}
                          /\ x # e => At(<<m>>, {"notify"}, x) = {}
    BY <1>3, SingleAt
  <1>7. At(<<m>>, {"notify"}, e) # {}
    BY <1>3, SingleAt
  <1>8. Comes(g, <<m>>, e)
    <2>1. loading'[g][e] = 0
      BY <1>1, <1>4 DEF Loads
    <2>2. Has(g, e)'
      BY <1>4 DEF Has
    <2> QED BY <1>1, <1>6, <1>7, <2>1, <2>2 DEF Comes
  <1>9. ASSUME NEW x \in Entity, x # e PROVE Spares(g, <<m>>, x)
    BY <1>2, <1>4, <1>6, <1>9 DEF Spares, Has
  <1>10. Coming(g, e)
    BY <1>1 DEF Coming
  <1> QED BY <1>2, <1>5, <1>6, <1>8, <1>9, <1>10, WorkingPlain

\* What is said without anything that comes or goes.
LEMMA SayingCalm ==
  ASSUME Peers, Peers', Records, Records', [Next]_vars, Calm, NEW g \in Game, NEW ms, Working(g, ms),
         live' = live, loading' = loading, used' = used,
         \A e \in Entity : At(ms, {"notify", "destroy", "create"}, e) = {},
         \A e \in Entity : e \in used \/ At(ms, {"load"}, e) = {}
  PROVE  Calm'
  <1>1. dump' = dump
    BY DEF Working
  <1>2. \A e \in Entity : At(ms, {"notify"}, e) = {} /\ At(ms, {"destroy"}, e) = {} /\ At(ms, {"create"}, e) = {}
    BY DEF At
  <1>3. \A e \in Entity : Spares(g, ms, e)
    BY <1>1, <1>2 DEF Spares, Has
  <1> QED BY <1>2, <1>3, WorkingPlain

LEMMA AskedCalm ==
  ASSUME Peers, Peers', Records, Records', [Next]_vars, Calm, NEW g \in Game,
         \/ FreezeFails(g) \/ StartFreeze(g)
         \/ \E e \in Entity : LoadEntityAnywhere(g, e) \/ Call(g, e)
  PROVE  Calm'
  <1>1. CASE FreezeFails(g)
    <2>1. /\ Running(g) /\ proc' = [proc EXCEPT ![g] = "running"]
          /\ UNCHANGED <<vars, dump, cur, reg, snap>>
          /\ live' = live /\ loading' = loading /\ used' = used /\ inbox' = inbox
      BY <1>1 DEF FreezeFails, Running
    <2>2. <<>> \in Seq(Tidings)
      OBVIOUS
    <2>3. Working(g, <<>>)
      BY <2>1, <2>2, WorkingAlone
    <2>4. \A K, e : At(<<>>, K, e) = {}
      BY AtEmpty
    <2> QED BY <2>1, <2>3, <2>4, SayingCalm
  <1>2. CASE StartFreeze(g)
    <2> DEFINE m == [type |-> "freeze"]
    <2>1. /\ Running(g) /\ UNCHANGED <<vars, dump, cur, reg, snap>> /\ inbox' = Told(g, <<m>>)
          /\ proc' = proc /\ live' = live /\ loading' = loading /\ used' = used
      BY <1>2 DEF StartFreeze, Ask, Tell, gameVars
    <2>2. m.type = "freeze" /\ m \in Tidings
      BY DEF Request, Tidings, Said
    <2> HIDE DEF m
    <2>3. <<m>> \in Seq(Tidings)
      BY <2>2
    <2>4. Working(g, <<m>>)
      BY <2>1, <2>3, WorkingAlone
    <2>5. \A e \in Entity : At(<<m>>, {"notify", "destroy", "create"}, e) = {} /\ At(<<m>>, {"load"}, e) = {}
      BY <2>2, SingleAt
    <2> QED BY <2>1, <2>4, <2>5, SayingCalm
  <1>3. ASSUME NEW e \in Entity, LoadEntityAnywhere(g, e) PROVE Calm'
    <2> DEFINE m == [type |-> "load", entity |-> e]
    <2>1. /\ Running(g) /\ UNCHANGED <<vars, dump, cur, reg, snap>> /\ inbox' = Told(g, <<m>>)
          /\ proc' = proc /\ live' = live /\ loading' = loading /\ used' = used /\ e \in used
      BY <1>3 DEF LoadEntityAnywhere, Ask, Tell, gameVars
    <2>2. m.type = "load" /\ m.entity = e /\ <<m>> \in Seq(Tidings)
      BY OneTiding
    <2> HIDE DEF m
    <2>3. Working(g, <<m>>)
      BY <2>1, <2>2, WorkingAlone
    <2>4. \A x \in Entity : At(<<m>>, {"notify", "destroy", "create"}, x) = {}
      BY <2>2, SingleAt
    <2>5. \A x \in Entity : x \in used \/ At(<<m>>, {"load"}, x) = {}
      BY <2>1, <2>2, SingleAt
    <2> QED BY <2>1, <2>3, <2>4, <2>5, SayingCalm
  <1>4. ASSUME NEW e \in Entity, Call(g, e) PROVE Calm'
    <2> DEFINE m == [type |-> "call", entity |-> e]
    <2>1. /\ Running(g) /\ UNCHANGED <<vars, dump, cur, reg, snap>> /\ inbox' = Told(g, <<m>>)
          /\ proc' = proc /\ live' = live /\ loading' = loading /\ used' = used
      BY <1>4 DEF Call, Ask, Tell, gameVars
    <2>2. m.type = "call" /\ m.entity = e /\ <<m>> \in Seq(Tidings)
      BY OneTiding
    <2> HIDE DEF m
    <2>3. Working(g, <<m>>)
      BY <2>1, <2>2, WorkingAlone
    <2>4. \A x \in Entity : At(<<m>>, {"notify", "destroy", "create"}, x) = {} /\ At(<<m>>, {"load"}, x) = {}
      BY <2>2, SingleAt
    <2> QED BY <2>1, <2>3, <2>4, SayingCalm
  <1> QED BY <1>1, <1>2, <1>3, <1>4

LEMMA CreateEntityCalm ==
  ASSUME Peers, Peers', Records, Records', [Next]_vars, Calm,
         NEW g \in Game, NEW e \in Entity, CreateEntity(g, e)
  PROVE  Calm'
  <1> DEFINE m == [type |-> "notify", entity |-> e]
  <1>1. /\ Running(g) /\ e \notin used /\ used' = used \cup {e} /\ live' = [live EXCEPT ![g] = @ \cup {e}]
        /\ inbox' = Told(g, <<m>>)
        /\ UNCHANGED <<vars, dump, cur, reg, snap>> /\ UNCHANGED <<proc, loading>>
        /\ live \in [Game -> SUBSET Entity]
    BY DEF CreateEntity, Tell, Peers
  <1>2. m.type = "notify" /\ m.entity = e /\ <<m>> \in Seq(Tidings)
    BY OneTiding
  <1> HIDE DEF m
  <1>3. live'[g] = live[g] \cup {e} /\ \A h \in Game \ {g} : live'[h] = live[h] /\ loading'[h] = loading[h]
    BY <1>1
  <1>4. Working(g, <<m>>)
    BY <1>1, <1>2, <1>3, WorkingAlone
  <1>5. \A x \in Entity : /\ At(<<m>>, {"destroy"}, x) = {} /\ At(<<m>>, {"create"}, x) = {}
                          /\ x # e => At(<<m>>, {"notify"}, x) = {}
                          /\ x # e => At(<<m>>, {"notify", "destroy", "create", "load"}, x) = {}
    BY <1>2, SingleAt
  <1>6. At(<<m>>, {"notify"}, e) # {}
    BY <1>2, SingleAt
  <1>7. Unborn(e) /\ edi[e].gameid = None /\ \A h \in Game : ~ Claims(h, e)
    BY <1>1, CalmParts DEF Unborn
  <1>8. Comes(g, <<m>>, e)
    <2>1. loading'[g][e] = 0
      BY <1>1, <1>7 DEF Claims, Coming, Loads, Records
    <2>2. Has(g, e)'
      BY <1>3 DEF Has
    <2> QED BY <1>5, <1>6, <1>7, <2>1, <2>2 DEF Comes
  <1>9. ASSUME NEW x \in Entity, x # e PROVE Spares(g, <<m>>, x)
    BY <1>1, <1>3, <1>5, <1>9 DEF Spares, Has
  <1>10. ASSUME NEW x \in Entity, x # e PROVE Unborn(x)'
    BY <1>1, <1>4, <1>5, <1>9, <1>10, KeepsRight, WorkingUnborn
  <1>11. Unborn(e)'
    <2>1. \A c \in Conn : Makes(inbox[c], e)' = Makes(inbox[c], e)
      BY <1>4, <1>5, WorkingNoted DEF Makes
    <2>2. \A c \in Conn : At(inbox[c], {"notify", "destroy", "create", "load"}, e) = {}
      BY <1>1, <1>7 DEF Unborn
    <2>3. \A c \in Conn : Makes(inbox[c], e)' = {}
      BY <2>1, <2>2 DEF Makes, At
    <2>4. ~ Made(e)' /\ e \in used'
      BY <1>1, <2>3 DEF Made
    <2> QED BY <2>3, <2>4 DEF Unborn
  <1> QED BY <1>4, <1>8, <1>9, <1>10, <1>11, WorkingCalm

LEMMA CreateSomewhereCalm ==
  ASSUME Peers, Peers', Records, Records', [Next]_vars, Calm,
         NEW g \in Game, NEW e \in Entity, CreateEntitySomewhere(g, e)
  PROVE  Calm'
  <1> DEFINE m == [type |-> "create", entity |-> e]
  <1>1. /\ Running(g) /\ e \notin used /\ used' = used \cup {e}
        /\ inbox' = Told(g, <<m>>)
        /\ UNCHANGED <<vars, dump, cur, reg, snap>> /\ UNCHANGED <<proc, loading, live>>
    BY DEF CreateEntitySomewhere, Ask, Tell, gameVars
  <1>2. m.type = "create" /\ m.entity = e /\ <<m>> \in Seq(Tidings)
    BY OneTiding
  <1> HIDE DEF m
  <1>3. Working(g, <<m>>)
    BY <1>1, <1>2, WorkingAlone
  <1>4. \A x \in Entity : /\ At(<<m>>, {"destroy"}, x) = {} /\ At(<<m>>, {"notify"}, x) = {}
                          /\ x # e => At(<<m>>, {"create"}, x) = {}
                          /\ x # e => At(<<m>>, {"notify", "destroy", "create", "load"}, x) = {}
    BY <1>2, SingleAt
  <1>5. Unborn(e) /\ edi[e].gameid = None /\ \A h \in Game : ~ Claims(h, e)
    BY <1>1, CalmParts DEF Unborn
  <1>6. \A x \in Entity : Spares(g, <<m>>, x)
    BY <1>1, <1>4 DEF Spares, Has
  <1>7. \A x \in Entity : Claims(g, x)' => Claims(g, x)
    BY <1>3, <1>6, KeepsRight
  <1>8. ASSUME NEW x \in Entity, x # e PROVE Unborn(x)'
    BY <1>1, <1>3, <1>4, <1>7, <1>8, WorkingUnborn
  <1>9. Unborn(e)'
    <2>1. \A c \in Conn : At(inbox[c], {"notify", "destroy", "create", "load"}, e) = {}
      BY <1>1, <1>5 DEF Unborn
    <2>2. \A c \in Conn : At(inbox[c], {"create"}, e) = {}
      BY <2>1 DEF At
    <2>3. \A c \in Conn : c # cur[g] => Makes(inbox[c], e)' = {}
      BY <1>3, <2>2, WorkingNoted DEF Makes
    <2>4. One(Makes(inbox[cur[g]], e)')
      <3>1. At(Sent(g), {"create"}, e) = {} /\ Sent(g)' = inbox'[cur[g]]
        <4>1. Sent(g) = inbox[cur[g]] /\ cur[g] \in Conn /\ Sent(g)' = Sent(g) \o <<m>>
              /\ inbox'[cur[g]] = inbox[cur[g]] \o <<m>>
          BY <1>3, WorkingQueues, ZenonT(40)
        <4>2. At(Sent(g), {"create"}, e) = At(inbox[cur[g]], {"create"}, e)
          BY <4>1
        <4> QED BY <2>2, <4>1, <4>2
      <3>2. One(At(<<m>>, {"create"}, e))
        BY SingleAt
      <3>3. One(At(Sent(g), {"create"}, e)')
        BY <1>3, <3>1, <3>2, WorkingViews
      <3>4. cur' = cur
        BY <1>1
      <3>5. Makes(inbox[cur[g]], e)' = At(Sent(g), {"create"}, e)'
        BY <3>1, <3>4 DEF Makes, At
      <3> QED BY <3>3, <3>5
    <2>5. \A c, d \in Conn : \A i \in Makes(inbox[c], e)', j \in Makes(inbox[d], e)' : c = d /\ i = j
      <3>1. cur' = cur
        BY <1>1
      <3>2. \A c \in Conn : Makes(inbox[c], e)' = Makes(inbox'[c], e)
        BY DEF Makes, At
      <3>3. Makes(inbox[cur[g]], e)' = Makes(inbox'[cur[g]], e)
        BY <3>1 DEF Makes, At
      <3> QED BY <2>3, <2>4, <3>2, <3>3 DEF One
    <2>6. \A h \in Game : ~ Claims(h, e)'
      <3>1. \A h \in Game \ {g} : Claims(h, e)' <=> Claims(h, e)
        BY <1>3, WorkingOthers, UntouchedSame
      <3> QED BY <1>5, <1>7, <3>1
    <2>7. edi'[e].gameid = None /\ e \in used'
      BY <1>1, <1>5 DEF vars
    <2> QED BY <2>5, <2>6, <2>7 DEF Unborn
  <1> QED BY <1>3, <1>6, <1>8, <1>9, WorkingCalm

-----------------------------------------------------------------------------
(* A running game reads a packet                                            *)

LEMMA WorkingReads ==
  ASSUME Peers, Calm, NEW g \in Game, Running(g), Read(cur[g]), NEW ms \in Seq(Tidings),
         UNCHANGED <<dump, cur, reg, snap>>,
         \/ proc' = proc
         \/ proc' = [proc EXCEPT ![g] = "freezing"] /\ Head(wire[cur[g]]).type = "freezeAck",
         inbox' = Told(g, ms) \/ (inbox' = inbox /\ ms = <<>>),
         \A h \in Game \ {g} : live'[h] = live[h] /\ loading'[h] = loading[h]
  PROVE  /\ Working(g, ms)
         /\ wire[cur[g]] \in Seq(Packet) /\ wire[cur[g]] # <<>>
         /\ Got(g) = wire[cur[g]] /\ Got(g)' = Tail(wire[cur[g]])
  <1>1. inbox' = [inbox EXCEPT ![cur[g]] = @ \o ms]
    <2>1. CASE inbox' = Told(g, ms)
      BY <2>1, Speaks
    <2>2. CASE inbox' = inbox /\ ms = <<>>
      <3>1. inbox = [inbox EXCEPT ![cur[g]] = @ \o <<>>]
        BY Speaks
      <3>2. inbox' = [inbox EXCEPT ![cur[g]] = @ \o <<>>] /\ ms = <<>>
        BY <2>2, <3>1
      <3> QED BY <3>2
    <2> QED BY <2>1, <2>2
  <1>2. cur[g] \in Conn /\ cur[g] # None
    BY Speaks, NoneAssumption
  <1>3. /\ wire[cur[g]] # <<>> /\ wire' = [wire EXCEPT ![cur[g]] = Tail(@)]
        /\ UNCHANGED <<edi, gdi, id, link>>
    BY DEF Read
  <1>4. wire \in [Conn -> Seq(Packet)]
    BY NowTyped DEF Peers
  <1>5. Got(g) = wire[cur[g]] /\ Got(g)' = Tail(wire[cur[g]])
    BY <1>2, <1>3, <1>4 DEF Got
  <1>6. Head(wire[cur[g]]).type = "freezeAck" => Acks(Got(g)) # {}
    <2>1. PICK q \in Seq(Packet) : q = wire[cur[g]]
      BY <1>2, <1>4
    <2>2. q # <<>> => (1 \in Acks(q) <=> Head(q).type = "freezeAck")
      BY AtTail
    <2>3. Acks(Got(g)) = Acks(q)
      BY <1>5, <2>1 DEF Acks
    <2> QED BY <1>3, <2>1, <2>2, <2>3
  <1>7. /\ \A h \in Game \ {g} : proc'[h] = proc[h]
        /\ proc'[g] \in {"running", "freezing"}
        /\ proc'[g] = "freezing" => proc[g] = "freezing" \/ Acks(Got(g)) # {}
    BY <1>6 DEF Running, Peers
  <1>8. Working(g, ms)
    BY <1>1, <1>3, <1>7 DEF Working
  <1> QED BY <1>2, <1>3, <1>4, <1>5, <1>8

\* The copy that is read is not read again.
LEMMA ReadOnce ==
  ASSUME NEW g \in Game, Got(g) \in Seq(Packet), Got(g) # <<>>, Got(g)' = Tail(Got(g)),
         NEW e \in Entity, Head(Got(g)).type \in {"load", "create"}, Head(Got(g)).entity = e,
         One(Bids(Got(g), e))
  PROVE  Bids(Got(g), e) # {} /\ Bids(Got(g), e)' = {}
  <1>0. PICK q \in Seq(Packet) : q = Got(g)
    OBVIOUS
  <1> DEFINE K == {"load", "create"}
  <1>1. Bids(Got(g), e) = At(q, K, e)
    BY <1>0 DEF Bids, At
  <1>2. Bids(Got(g), e)' = At(Tail(q), K, e)
    BY <1>0 DEF Bids, At
  <1>3. q # <<>> /\ Head(q).type \in K /\ Head(q).entity = e
    BY <1>0
  <1> HIDE DEF K
  <1>4. 1 \in At(q, K, e)
    BY <1>3, AtTail
  <1>5. At(Tail(q), K, e) = {}
    BY <1>1, <1>3, TailBelow
  <1> QED BY <1>1, <1>2, <1>4, <1>5

\* SetToSeq lists each element, once.
LEMMA SetToSeqAll ==
  ASSUME NEW S, IsFiniteSet(S)
  PROVE  \E q \in Seq(S) : /\ q = SetToSeq(S)
                           /\ \A s \in S : \E i \in 1 .. Len(q) : q[i] = s
                           /\ \A i, j \in 1 .. Len(q) : q[i] = q[j] => i = j
  <1>1. PICK n \in Nat : n = Cardinality(S)
    BY FS_CardinalityType
  <1>2. \E f \in [1 .. Cardinality(S) -> S] : IsInjective(f)
    <2>1. ExistsBijection(1 .. Cardinality(S), S)
      BY FS_CardinalityType
    <2>2. PICK f : f \in Bijection(1 .. Cardinality(S), S)
      BY <2>1 DEF ExistsBijection
    <2>3. f \in [1 .. Cardinality(S) -> S] /\ IsInjective(f)
      BY <2>2 DEF Bijection, Injection, IsInjective
    <2> QED BY <2>3
  <1>3. SetToSeq(S) \in [1 .. Cardinality(S) -> S] /\ IsInjective(SetToSeq(S))
    BY <1>2 DEF SetToSeq
  <1>4. PICK q : q = SetToSeq(S)
    OBVIOUS
  <1>5. q \in [1 .. n -> S] /\ IsInjective(q)
    BY <1>1, <1>3, <1>4
  <1>6. q \in Injection(1 .. n, S)
    BY <1>5 DEF Injection
  <1>7. IsFiniteSet(1 .. n) /\ Cardinality(1 .. n) = n
    <2>1. Cardinality(1 .. n) = IF 1 > n THEN 0 ELSE n - 1 + 1
      BY FS_Interval
    <2> QED BY <2>1, FS_Interval
  <1>8. q \in Surjection(1 .. n, S)
    BY <1>1, <1>6, <1>7, FS_Injection
  <1>9. q \in Seq(S) /\ Len(q) = n
    BY <1>5
  <1>10. \A s \in S : \E i \in 1 .. n : q[i] = s
    BY <1>8 DEF Surjection
  <1>11. \A i, j \in 1 .. n : q[i] = q[j] => i = j
    BY <1>5 DEF IsInjective
  <1> QED BY <1>4, <1>9, <1>10, <1>11

\* Each end is reported once.
LEMMA NoticesAt ==
  ASSUME NEW S \in SUBSET Entity, NEW x
  PROVE  /\ DestroyNotices(S) \in Seq(Tidings)
         /\ At(DestroyNotices(S), {"notify"}, x) = {} /\ At(DestroyNotices(S), {"create"}, x) = {}
         /\ At(DestroyNotices(S), {"load"}, x) = {}
         /\ x \notin S => At(DestroyNotices(S), {"destroy"}, x) = {}
         /\ x \in S => At(DestroyNotices(S), {"destroy"}, x) # {}
         /\ One(At(DestroyNotices(S), {"destroy"}, x))
  <1>1. IsFiniteSet(S)
    BY FiniteAssumption, FS_Subset
  <1>2. PICK q \in Seq(S) : /\ q = SetToSeq(S)
                            /\ \A s \in S : \E i \in 1 .. Len(q) : q[i] = s
                            /\ \A i, j \in 1 .. Len(q) : q[i] = q[j] => i = j
    BY <1>1, SetToSeqAll
  <1>4. DestroyNotices(S) = [i \in 1 .. Len(q) |-> [type |-> "destroy", entity |-> q[i]]]
    BY <1>2 DEF DestroyNotices
  <1>5. PICK r : r = DestroyNotices(S)
    OBVIOUS
  <1>6. r \in Seq(Tidings)
    <2>1. ASSUME NEW i \in 1 .. Len(q) PROVE [type |-> "destroy", entity |-> q[i]] \in Tidings
      <3>1. q[i] \in Entity
        BY <1>2
      <3> QED BY <3>1 DEF Tidings, Request, Said
    <2> QED BY <1>2, <1>4, <1>5, <2>1
  <1>7. Len(r) = Len(q) /\ \A i \in 1 .. Len(q) : r[i].type = "destroy" /\ r[i].entity = q[i]
    BY <1>2, <1>4, <1>5
  <1>8. At(r, {"notify"}, x) = {} /\ At(r, {"create"}, x) = {} /\ At(r, {"load"}, x) = {}
    BY <1>7 DEF At
  <1>9. At(r, {"destroy"}, x) = {i \in 1 .. Len(q) : q[i] = x}
    BY <1>7 DEF At
  <1>10. \A i \in 1 .. Len(q) : q[i] \in S
    BY <1>2
  <1>11. One(At(r, {"destroy"}, x))
    BY <1>2, <1>9 DEF One
  <1> QED BY <1>2, <1>5, <1>6, <1>8, <1>9, <1>10, <1>11

LEMMA RejectsCalm ==
  ASSUME Peers, Peers', Records, Records', [Next]_vars, Calm, NEW g \in Game, NEW p \in Packet,
         HandlePacket(g), p = Head(wire[cur[g]]), p.reject \in SUBSET Entity, OnSetGameIDAck(g, p)
  PROVE  Calm'
  <1>1. PICK R \in SUBSET Entity : R = live[g] \cap p.reject
    OBVIOUS
  <1>2. PICK ms : ms = DestroyNotices(R)
    OBVIOUS
  <1>3. /\ Running(g) /\ Read(cur[g]) /\ UNCHANGED <<dump, cur, reg, snap>> /\ used' = used
        /\ live \in [Game -> SUBSET Entity]
        /\ proc' = proc /\ loading' = loading /\ inbox' = Told(g, ms)
        /\ live' = [live EXCEPT ![g] = @ \ p.reject]
    BY <1>1, <1>2 DEF HandlePacket, OnSetGameIDAck, Tell, Peers
  <1>4. /\ ms \in Seq(Tidings)
        /\ \A x : /\ At(ms, {"notify"}, x) = {} /\ At(ms, {"create"}, x) = {} /\ At(ms, {"load"}, x) = {}
                  /\ x \notin R => At(ms, {"destroy"}, x) = {}
                  /\ x \in R => At(ms, {"destroy"}, x) # {}
                  /\ One(At(ms, {"destroy"}, x))
    BY <1>1, <1>2, NoticesAt
  <1>5. live'[g] = live[g] \ R /\ \A h \in Game \ {g} : live'[h] = live[h] /\ loading'[h] = loading[h]
    BY <1>1, <1>3
  <1>6. Working(g, ms)
    BY <1>3, <1>4, <1>5, WorkingReads
  <1>7. dump[g] = {}
    BY <1>3, Speaks
  <1>8. ASSUME NEW x \in Entity, x \in R PROVE Leaves(g, ms, x)
    <2>1. Has(g, x) /\ ~ Has(g, x)'
      BY <1>1, <1>3, <1>5, <1>7, <1>8 DEF Has
    <2>2. ~ Loads(g, x) /\ loading[g][x] \in Nat
      BY <2>1, CalmParts DEF Alone, Coming, Records
    <2>3. loading'[g][x] = 0
      BY <1>3, <2>2 DEF Loads
    <2> QED BY <1>4, <1>8, <2>1, <2>3 DEF Leaves
  <1>9. ASSUME NEW x \in Entity, x \notin R PROVE Spares(g, ms, x)
    BY <1>3, <1>4, <1>5, <1>9 DEF Spares, Has
  <1> QED BY <1>3, <1>4, <1>6, <1>8, <1>9, WorkingPlain

LEMMA ReadCreateCalm ==
  ASSUME Peers, Peers', Records, Records', [Next]_vars, Calm, NEW g \in Game, NEW p \in Packet,
         HandlePacket(g), p = Head(wire[cur[g]]), p.type = "create",
         NEW e \in Entity, e = p.entity, OnCreateEntitySomewhere(g, e)
  PROVE  Calm'
  <1> DEFINE m == [type |-> "notify", entity |-> e]
  <1>1. /\ Running(g) /\ Read(cur[g]) /\ UNCHANGED <<dump, cur, reg, snap>> /\ used' = used
        /\ live \in [Game -> SUBSET Entity]
        /\ proc' = proc /\ loading' = loading /\ inbox' = Told(g, <<m>>)
        /\ live' = [live EXCEPT ![g] = @ \cup {e}]
    BY DEF HandlePacket, OnCreateEntitySomewhere, Tell, Peers
  <1>2. m.type = "notify" /\ m.entity = e /\ <<m>> \in Seq(Tidings)
    BY OneTiding
  <1> HIDE DEF m
  <1>3. live'[g] = live[g] \cup {e} /\ \A h \in Game \ {g} : live'[h] = live[h] /\ loading'[h] = loading[h]
    BY <1>1
  <1>4. /\ Working(g, <<m>>)
        /\ wire[cur[g]] \in Seq(Packet) /\ wire[cur[g]] # <<>>
        /\ Got(g) = wire[cur[g]] /\ Got(g)' = Tail(wire[cur[g]])
    BY <1>1, <1>2, <1>3, WorkingReads
  <1>5. \A x \in Entity : /\ At(<<m>>, {"destroy"}, x) = {} /\ At(<<m>>, {"create"}, x) = {}
                          /\ At(<<m>>, {"load"}, x) = {}
                          /\ x # e => At(<<m>>, {"notify"}, x) = {}
    BY <1>2, SingleAt
  <1>6. At(<<m>>, {"notify"}, e) # {}
    BY <1>2, SingleAt
  <1>7. Alone(g, e)
    BY CalmParts
  <1>8. Bids(Got(g), e) # {} /\ Bids(Got(g), e)' = {}
    <2>1. One(Bids(Got(g), e))
      BY <1>7 DEF Alone
    <2>2. Got(g) \in Seq(Packet) /\ Got(g) # <<>> /\ Got(g)' = Tail(Got(g))
      BY <1>4
    <2>3. Head(Got(g)).type \in {"load", "create"} /\ Head(Got(g)).entity = e
      BY <1>4
    <2> QED BY <2>1, <2>2, <2>3, ReadOnce
  <1>9. Comes(g, <<m>>, e) /\ Coming(g, e)
    <2>1. loading'[g][e] = 0
      BY <1>1, <1>7, <1>8 DEF Alone, Loads, Records
    <2>2. Has(g, e)'
      BY <1>3 DEF Has
    <2> QED BY <1>5, <1>6, <1>8, <2>1, <2>2 DEF Comes, Coming
  <1>10. ASSUME NEW x \in Entity, x # e PROVE Spares(g, <<m>>, x)
    BY <1>1, <1>3, <1>5, <1>10 DEF Spares, Has
  <1> QED BY <1>1, <1>4, <1>5, <1>9, <1>10, WorkingPlain

LEMMA ReadLoadCalm ==
  ASSUME Peers, Peers', Records, Records', [Next]_vars, Calm, NEW g \in Game, NEW p \in Packet,
         HandlePacket(g), p = Head(wire[cur[g]]), p.type = "load",
         NEW e \in Entity, e = p.entity, OnLoadEntitySomewhere(g, e)
  PROVE  Calm'
  <1>1. /\ Running(g) /\ Read(cur[g]) /\ UNCHANGED <<dump, cur, reg, snap>> /\ used' = used
        /\ loading \in [Game -> [Entity -> Nat]]
        /\ proc' = proc /\ live' = live /\ inbox' = inbox
        /\ loading' = [loading EXCEPT ![g][e] = @ + 1]
    BY DEF HandlePacket, OnLoadEntitySomewhere, Records
  <1>2. /\ \A h \in Game \ {g} : live'[h] = live[h] /\ loading'[h] = loading[h]
        /\ \A x \in Entity \ {e} : loading'[g][x] = loading[g][x]
        /\ loading'[g][e] = loading[g][e] + 1 /\ <<>> \in Seq(Tidings)
    BY <1>1
  <1>3. /\ Working(g, <<>>)
        /\ wire[cur[g]] \in Seq(Packet) /\ wire[cur[g]] # <<>>
        /\ Got(g) = wire[cur[g]] /\ Got(g)' = Tail(wire[cur[g]])
    BY <1>1, <1>2, WorkingReads
  <1>4. \A K, x : At(<<>>, K, x) = {}
    BY AtEmpty
  <1>5. Alone(g, e)
    BY CalmParts
  <1>6. Bids(Got(g), e) # {} /\ Bids(Got(g), e)' = {}
    <2>1. One(Bids(Got(g), e))
      BY <1>5 DEF Alone
    <2>2. Got(g) \in Seq(Packet) /\ Got(g) # <<>> /\ Got(g)' = Tail(Got(g))
      BY <1>3
    <2>3. Head(Got(g)).type \in {"load", "create"} /\ Head(Got(g)).entity = e
      BY <1>3
    <2> QED BY <2>1, <2>2, <2>3, ReadOnce
  <1>7. Starts(g, <<>>, e)
    BY <1>1, <1>2, <1>4, <1>6 DEF Starts, Has
  <1>8. ASSUME NEW x \in Entity, x # e PROVE Spares(g, <<>>, x)
    BY <1>1, <1>2, <1>4, <1>8 DEF Spares, Has
  <1> QED BY <1>1, <1>3, <1>4, <1>7, <1>8, WorkingPlain

LEMMA HandleCalm ==
  ASSUME Peers, Peers', Records, Records', [Next]_vars, Calm, NEW g \in Game, HandlePacket(g)
  PROVE  Calm'
  <1>1. /\ Running(g) /\ Read(cur[g]) /\ UNCHANGED <<dump, cur, reg, snap>> /\ used' = used
        /\ cur[g] \in Conn
    BY DEF HandlePacket, Peers
  <1>2. wire[cur[g]] \in Seq(Packet) /\ wire[cur[g]] # <<>>
    BY <1>1, NowTyped DEF Read, Peers
  <1>3. PICK p \in Packet : p = Head(wire[cur[g]])
    BY <1>2
  <1>4. Handle(g, p)
    BY <1>3 DEF HandlePacket
  <1>5. ASSUME live' = live, loading' = loading, inbox' = inbox,
               proc' = proc \/ (proc' = [proc EXCEPT ![g] = "freezing"] /\ p.type = "freezeAck")
        PROVE  Calm'
    <2>1. <<>> \in Seq(Tidings)
      OBVIOUS
    <2>2. Working(g, <<>>)
      BY <1>1, <1>3, <1>5, <2>1, WorkingReads
    <2>3. \A K, e : At(<<>>, K, e) = {}
      BY AtEmpty
    <2> QED BY <1>1, <1>5, <2>2, <2>3, SayingCalm
  <1>6. CASE p.type = "setGameIDAck" /\ OnSetGameIDAck(g, p)
    BY <1>3, <1>6, RejectsCalm, PacketKinds
  <1>7. CASE p.type = "create" /\ OnCreateEntitySomewhere(g, p.entity)
    <2>1. PICK e \in Entity : e = p.entity
      BY <1>7, PacketKinds
    <2> QED BY <1>3, <1>7, <2>1, ReadCreateCalm
  <1>8. CASE p.type = "load" /\ OnLoadEntitySomewhere(g, p.entity)
    <2>1. PICK e \in Entity : e = p.entity
      BY <1>8, PacketKinds
    <2> QED BY <1>3, <1>8, <2>1, ReadLoadCalm
  <1>9. CASE p.type = "ready" /\ OnNotifyDeploymentReady(g)
    BY <1>5, <1>9 DEF OnNotifyDeploymentReady
  <1>10. CASE p.type = "call" /\ OnCall(g, p)
    BY <1>5, <1>10 DEF OnCall
  <1>11. CASE p.type = "gameUp" /\ OnGameConnected(g, p.game)
    BY <1>5, <1>11 DEF OnGameConnected
  <1>12. CASE p.type = "gameDown" /\ OnGameDisconnected(g, p.games)
    BY <1>5, <1>12 DEF OnGameDisconnected
  <1>13. CASE p.type = "freezeAck" /\ OnStartFreezeGameAck(g)
    BY <1>5, <1>13 DEF OnStartFreezeGameAck
  <1> QED BY <1>4, <1>6, <1>7, <1>8, <1>9, <1>10, <1>11, <1>12, <1>13 DEF Handle

-----------------------------------------------------------------------------
(* A game starts and announces itself                                       *)

\* A game whose process has only begun.
LEMMA Starting ==
  ASSUME Peers, Calm, NEW g \in Game, proc[g] = "starting"
  PROVE  /\ Sent(g) = <<>> /\ Got(g) = <<>> /\ cur[g] \in Conn \cup {None}
         /\ reg[g] \in {"off", "connected", "listed"} /\ (reg[g] = "off" <=> cur[g] = None)
         /\ cur[g] # None => /\ link[cur[g]] = "open" /\ id[cur[g]] = None
                             /\ inbox[cur[g]] = <<>> /\ wire[cur[g]] = <<>>
         /\ dump[g] = {} /\ (reg[g] = "listed" => snap[g] = live[g])
         /\ \A e \in Entity : loading[g][e] = 0
         /\ Away(g)
  <1>1. Lives(g) /\ First(g)
    BY CalmParts
  <1>2. /\ reg[g] \in {"off", "connected", "listed"} /\ (reg[g] = "off" <=> cur[g] = None)
        /\ cur[g] # None => /\ link[cur[g]] = "open" /\ id[cur[g]] = None
                            /\ inbox[cur[g]] = <<>> /\ wire[cur[g]] = <<>>
        /\ dump[g] = {} /\ (reg[g] = "listed" => snap[g] = live[g])
        /\ \A e \in Entity : loading[g][e] = 0
    BY <1>1 DEF Lives
  <1>3. Sent(g) = <<>> /\ Got(g) = <<>>
    BY <1>2 DEF Sent, Got
  <1>4. Away(g)
    BY <1>1, <1>2 DEF Away, First
  <1> QED BY <1>2, <1>3, <1>4 DEF Peers

\* Only a game that has just begun is connecting.
LEMMA JustBegun ==
  ASSUME Peers, Calm, NEW g \in Game
  PROVE  /\ reg[g] \in {"connected", "listed"} => proc[g] = "starting"
         /\ Unconnected(g) => proc[g] = "starting"
  <1>1. Lives(g) /\ proc[g] \in ProcState
    BY CalmParts DEF Peers
  <1> QED BY <1>1 DEF Lives, Running, ProcState, Unconnected

\* What a game that is yet to announce itself says of e.
LEMMA Quiets ==
  ASSUME NEW g \in Game, NEW e, Sent(g) = <<>>, Got(g) = <<>>
  PROVE  /\ Notes(Sent(g), e) = {} /\ Ends(Sent(g), e) = {} /\ Bids(Got(g), e) = {} /\ Acks(Got(g)) = {}
         /\ Listed(g, e) <=> reg[g] = "listed" /\ e \in snap[g]
  <1>1. Len(<<>>) = 0
    OBVIOUS
  <1> QED BY <1>1, AtEmpty DEF Notes, Ends, Bids, Acks, Listed, At

\* From a beginning to the next: what the game has is the same.
LEMMA BegunRight ==
  ASSUME Peers, Peers', Records, Records', Calm, NEW g \in Game, NEW e \in Entity,
         Has(g, e)' <=> Has(g, e), loading'[g] = loading[g], gdi'[g] = gdi[g], edi' = edi, inbox' = inbox,
         Got(g)' = <<>>, Sent(g)' = <<>>, ~ Loads(g, e),
         Listed(g, e)' => Has(g, e),
         Has(g, e) => HeldBack(gdi[g])
  PROVE  /\ Alone(g, e)' /\ Found(g, e)' /\ InOrder(g, e)' /\ Absent(g, e)'
         /\ Claims(g, e)' => Claims(g, e)
  <1>1. Alone(g, e) /\ Found(g, e) /\ Absent(g, e)
    BY CalmParts
  <1>2. /\ Notes(Sent(g), e)' = {} /\ Ends(Sent(g), e)' = {} /\ Bids(Got(g), e)' = {}
        /\ One(Bids(Got(g), e))' /\ One(Ends(Sent(g), e))'
    BY AtEmpty DEF Notes, Ends, Bids, At, One
  <1>3. Bids(Wait(g), e)' = Bids(Wait(g), e) /\ (One(Bids(Wait(g), e))' <=> One(Bids(Wait(g), e)))
    BY DEF Wait, Bids, At, One
  <1>4. ~ Loads(g, e)' /\ loading'[g][e] = loading[g][e]
    BY DEF Loads
  <1>5. Alone(g, e)' /\ (Coming(g, e)' => Coming(g, e)) /\ (Claims(g, e)' => Claims(g, e))
    BY <1>1, <1>2, <1>3, <1>4 DEF Alone, Coming, Claims
  <1>6. Noted(e)' <=> Noted(e)
    BY DEF Noted, Notes, At
  <1>7. Found(g, e)'
    BY <1>1, <1>5, <1>6, FoundStays
  <1>8. InOrder(g, e)'
    BY <1>2 DEF InOrder
  <1>9. HeldBack(gdi[g])' <=> HeldBack(gdi[g])
    BY DEF HeldBack
  <1>10. Absent(g, e)'
    BY <1>2, <1>4, <1>9 DEF Absent
  <1> QED BY <1>5, <1>7, <1>8, <1>10

\* Lines are about connections only.
LEMMA SameLines ==
  ASSUME Peers, Peers', Calm, [Next]_vars, UNCHANGED <<edi, gdi, id, link, wire, inbox, cur>>
  PROVE  Lines'
  <1>1. /\ Linked
        /\ \A d \in Conn : link[d] = "unused" => inbox[d] = <<>> /\ wire[d] = <<>> /\ id[d] = None
        /\ \A d \in Conn : \A i \in 1 .. Len(inbox[d]) : inbox[d][i].type \in Said
        /\ \A e \in Entity : edi[e].pending \in Seq(Light)
    BY CalmParts, NowTame DEF Tame
  <1>2. Linked'
    BY <1>1, LinkedStep
  <1> QED BY <1>1, <1>2 DEF Lines

\* The rest of Calm, for a game on its way to announce itself.
LEMMA BegunCalm ==
  ASSUME Peers, Peers', Records, Records', [Next]_vars, Calm, NEW g \in Game,
         \A h \in Game \ {g} : Untouched(h), edi' = edi, used' = used, inbox' = inbox,
         \A e \in Entity : /\ Alone(g, e)' /\ Found(g, e)' /\ InOrder(g, e)' /\ Absent(g, e)'
                           /\ Claims(g, e)' => Claims(g, e),
         Freezes(g)' /\ Lives(g)' /\ First(g)', Lines'
  PROVE  Calm'
  <1>1. \A e \in Entity : Noted(e) => Noted(e)'
    BY DEF Noted, Notes, At
  <1>2. ASSUME NEW e \in Entity PROVE Unborn(e)'
    <2>1. Unborn(e)
      BY CalmParts
    <2>2. \A c \in Conn : \A K : At(inbox[c], K, e)' = At(inbox[c], K, e)
      BY DEF At
    <2>3. \A c \in Conn : Makes(inbox[c], e)' = Makes(inbox[c], e)
      BY DEF Makes, At
    <2>4. \A c \in Conn : e \notin used => At(inbox[c], {"notify", "destroy", "create", "load"}, e)' = {}
      BY <2>1, <2>2 DEF Unborn
    <2>5. \A h \in Game : Claims(h, e)' => Claims(h, e)
      BY UntouchedSame
    <2>6. edi'[e].gameid = edi[e].gameid /\ (e \in used' <=> e \in used)
      OBVIOUS
    <2> QED BY <2>1, <2>3, <2>4, <2>5, <2>6, UnbornStays
  <1> QED BY <1>1, <1>2, OneGame

LEMMA TakeSnapshotCalm ==
  ASSUME Peers, Peers', Records, Records', [Next]_vars, Calm, NEW g \in Game, TakeSnapshot(g)
  PROVE  Calm'
  <1>1. /\ reg[g] = "connected" /\ reg' = [reg EXCEPT ![g] = "listed"] /\ snap' = [snap EXCEPT ![g] = live[g]]
        /\ UNCHANGED <<edi, gdi, id, link, wire, inbox, used, proc, live, loading, dump, cur>>
        /\ reg \in [Game -> RegState] /\ snap \in [Game -> SUBSET Entity]
    BY DEF TakeSnapshot, vars, Records, Peers
  <1>2. /\ proc[g] = "starting" /\ Sent(g) = <<>> /\ Got(g) = <<>> /\ Away(g) /\ dump[g] = {} /\ cur[g] # None
        /\ link[cur[g]] = "open" /\ id[cur[g]] = None /\ inbox[cur[g]] = <<>> /\ wire[cur[g]] = <<>>
        /\ \A e \in Entity : loading[g][e] = 0
    BY <1>1, JustBegun, Starting
  <1>3. \A h \in Game \ {g} : Untouched(h)
    BY <1>1 DEF Untouched
  <1>4. reg'[g] = "listed" /\ snap'[g] = live[g]
    BY <1>1
  <1>5. ASSUME NEW e \in Entity
        PROVE  /\ Alone(g, e)' /\ Found(g, e)' /\ InOrder(g, e)' /\ Absent(g, e)'
               /\ Claims(g, e)' => Claims(g, e)
    <2>1. Sent(g)' = <<>> /\ Got(g)' = <<>> /\ (Has(g, e)' <=> Has(g, e)) /\ Away(g)'
      BY <1>1, <1>2 DEF Sent, Got, Has, Away
    <2>2. Listed(g, e)' => Has(g, e)
      BY <1>4, <2>1 DEF Listed, Has
    <2>3. Has(g, e) => HeldBack(gdi[g])
      <3>1. Absent(g, e) /\ Notes(Sent(g), e) = {}
        BY <1>2, CalmParts, Quiets
      <3> QED BY <1>2, <3>1 DEF Absent
    <2>4. ~ Loads(g, e) /\ gdi'[g] = gdi[g] /\ loading'[g] = loading[g]
      BY <1>1, <1>2 DEF Loads
    <2> QED BY <1>1, <1>2, <2>1, <2>2, <2>3, <2>4, BegunRight
  <1>6. Freezes(g)' /\ Lives(g)' /\ First(g)' /\ Lines'
    <2>1. Freezes(g) /\ Lives(g) /\ First(g)
      BY CalmParts
    <2>2. Got(g)' = Got(g) /\ Wait(g)' = Wait(g)
      BY <1>1 DEF Got, Wait
    <2>3. Freezes(g)'
      BY <1>1, <2>1, <2>2 DEF Freezes, Acks, HeldBack
    <2>4. Lives(g)'
      BY <1>1, <1>2, <1>4 DEF Lives, Running
    <2>5. First(g)'
      BY <1>1, <2>1 DEF First, Running
    <2>6. Lines'
      BY <1>1, SameLines
    <2> QED BY <2>3, <2>4, <2>5, <2>6
  <1> QED BY <1>1, <1>3, <1>5, <1>6, BegunCalm

LEMMA ConnectCalm ==
  ASSUME Peers, Peers', Records, Records', [Next]_vars, Calm, NEW g \in Game, Connect(g)
  PROVE  Calm'
  <1>1. PICK c \in Conn : Accept(c) /\ cur' = [cur EXCEPT ![g] = c]
    BY DEF Connect, NextConn
  <1>2. /\ proc[g] = "starting" /\ reg[g] \in {"off", "registered"} /\ reg' = [reg EXCEPT ![g] = "connected"]
        /\ link[c] = "unused" /\ link' = [link EXCEPT ![c] = "open"]
        /\ UNCHANGED <<edi, gdi, id, wire, inbox, used, proc, live, loading, dump, snap>>
        /\ reg \in [Game -> RegState] /\ cur \in [Game -> Conn \cup {None}]
        /\ link \in [Conn -> {"unused", "open", "closed", "gone"}]
    BY <1>1, JustBegun DEF Connect, Accept, Records, Peers, Inv
  <1>3. /\ Sent(g) = <<>> /\ Got(g) = <<>> /\ Away(g) /\ dump[g] = {} /\ cur[g] = None
        /\ \A e \in Entity : loading[g][e] = 0
    BY <1>2, Starting
  <1>4. inbox[c] = <<>> /\ wire[c] = <<>> /\ id[c] = None /\ Linked
    BY <1>2, CalmParts
  <1>5. cur'[g] = c /\ reg'[g] = "connected" /\ c # None /\ link'[c] = "open"
    BY <1>1, <1>2, NoneAssumption
  <1>6. \A h \in Game : cur[h] # c /\ gdi[h].clientProxy # c
    BY <1>2, <1>4, <1>5 DEF Linked
  <1>7. ASSUME NEW h \in Game, h # g PROVE Untouched(h)
    <2>1. cur'[h] = cur[h] /\ reg'[h] = reg[h]
      BY <1>1, <1>2, <1>7
    <2>2. cur[h] # None => link'[cur[h]] = link[cur[h]]
      BY <1>2, <1>6
    <2> QED BY <1>2, <2>1, <2>2 DEF Untouched
  <1>8. ASSUME NEW e \in Entity
        PROVE  /\ Alone(g, e)' /\ Found(g, e)' /\ InOrder(g, e)' /\ Absent(g, e)'
               /\ Claims(g, e)' => Claims(g, e)
    <2>1. Sent(g)' = <<>> /\ Got(g)' = <<>> /\ (Has(g, e)' <=> Has(g, e)) /\ Away(g)'
      BY <1>2, <1>4, <1>5, <1>6 DEF Sent, Got, Has, Away
    <2>2. ~ Listed(g, e)'
      BY <1>5, <2>1 DEF Listed
    <2>3. Has(g, e) => HeldBack(gdi[g])
      <3>1. Absent(g, e) /\ Notes(Sent(g), e) = {}
        BY <1>3, CalmParts, Quiets
      <3> QED BY <1>3, <3>1 DEF Absent
    <2>4. ~ Loads(g, e) /\ gdi'[g] = gdi[g] /\ loading'[g] = loading[g]
      BY <1>2, <1>3 DEF Loads
    <2> QED BY <1>2, <1>3, <2>1, <2>2, <2>3, <2>4, BegunRight
  <1>9. Freezes(g)' /\ Lives(g)' /\ First(g)'
    <2>1. Freezes(g)
      BY CalmParts
    <2>2. Got(g)' = <<>> /\ Wait(g)' = Wait(g)
      BY <1>2, <1>4, <1>5 DEF Got, Wait
    <2>3. Acks(Got(g))' = {} /\ Acks(Wait(g))' = Acks(Wait(g))
      BY <2>2, AtEmpty DEF Acks
    <2>4. Freezes(g)'
      BY <1>2, <2>1, <2>3 DEF Freezes
    <2>5. Lives(g)'
      BY <1>2, <1>3, <1>4, <1>5 DEF Lives, Running
    <2>6. First(g)'
      <3>1. Len(<<>>) = 0 /\ proc'[g] = "starting"
        BY <1>2
      <3>2. inbox'[cur'[g]] = <<>> /\ id'[cur'[g]] = None /\ gdi'[g].clientProxy # cur'[g]
        BY <1>2, <1>4, <1>5, <1>6
      <3>3. id'[cur'[g]] # g
        BY <3>2, NoneAssumption
      <3> QED BY <3>1, <3>2, <3>3 DEF First, Running
    <2> QED BY <2>4, <2>5, <2>6
  <1>10. Lines'
    <2>1. Linked'
      <3>1. \A d \in Conn : link[d] # "unused" => link'[d] # "unused"
        BY <1>2
      <3>2. \A h \in Game : cur'[h] = IF h = g THEN c ELSE cur[h]
        BY <1>1, <1>2
      <3>3. \A h \in Game : gdi[h].clientProxy \in Conn \cup {None}
        BY NowTyped DEF GameInfo, Peers
      <3>4. \A h \in Game : cur[h] \in Conn \cup {None}
        BY <1>2
      <3>5. \A h \in Game : cur'[h] # None => link'[cur'[h]] # "unused"
        BY <1>4, <1>5, <3>1, <3>2, <3>4 DEF Linked
      <3>6. \A h \in Game : gdi'[h].clientProxy # None => link'[gdi'[h].clientProxy] # "unused"
        BY <1>2, <1>4, <3>1, <3>3 DEF Linked
      <3>7. \A h, k \in Game : cur'[h] # None /\ cur'[h] = cur'[k] => h = k
        BY <1>4, <1>6, <3>2 DEF Linked
      <3> QED BY <3>5, <3>6, <3>7 DEF Linked
    <2>2. /\ \A d \in Conn : link[d] = "unused" => inbox[d] = <<>> /\ wire[d] = <<>> /\ id[d] = None
          /\ \A d \in Conn : \A i \in 1 .. Len(inbox[d]) : inbox[d][i].type \in Said
          /\ \A e \in Entity : edi[e].pending \in Seq(Light)
      BY CalmParts, NowTame DEF Tame
    <2>3. \A d \in Conn : link'[d] = "unused" => link[d] = "unused"
      BY <1>2
    <2> QED BY <1>2, <2>1, <2>2, <2>3 DEF Lines
  <1> QED BY <1>2, <1>7, <1>8, <1>9, <1>10, BegunCalm

LEMMA StartCalm ==
  ASSUME Peers, Peers', Records, Records', [Next]_vars, Calm, NEW g \in Game, Start(g)
  PROVE  Calm'
  <1>1. /\ proc[g] \in {"down", "frozen"} /\ proc' = [proc EXCEPT ![g] = "starting"]
        /\ live' = [live EXCEPT ![g] = dump[g]] /\ dump' = [dump EXCEPT ![g] = {}]
        /\ cur' = [cur EXCEPT ![g] = None]
        /\ UNCHANGED <<edi, gdi, id, link, wire, inbox, used, loading, reg, snap>>
        /\ proc \in [Game -> ProcState] /\ live \in [Game -> SUBSET Entity] /\ dump \in [Game -> SUBSET Entity]
        /\ cur \in [Game -> Conn \cup {None}]
    BY DEF Start, vars, Peers
  <1>2. /\ proc'[g] = "starting" /\ live'[g] = dump[g] /\ dump'[g] = {} /\ cur'[g] = None
        /\ \A h \in Game \ {g} : /\ proc'[h] = proc[h] /\ live'[h] = live[h] /\ dump'[h] = dump[h]
                                 /\ cur'[h] = cur[h]
    BY <1>1
  <1>3. Lives(g) /\ Freezes(g)
    BY CalmParts
  <1>4. /\ live[g] = {} /\ reg[g] = "off" /\ \A e \in Entity : loading[g][e] = 0
        /\ dump[g] # {} => HeldBack(gdi[g])
    BY <1>1, <1>3 DEF Lives, Freezes
  <1>5. \A h \in Game \ {g} : Untouched(h)
    BY <1>1, <1>2 DEF Untouched
  <1>6. Sent(g)' = <<>> /\ Got(g)' = <<>>
    BY <1>2 DEF Sent, Got
  <1>7. ASSUME NEW e \in Entity
        PROVE  /\ Alone(g, e)' /\ Found(g, e)' /\ InOrder(g, e)' /\ Absent(g, e)'
               /\ Claims(g, e)' => Claims(g, e)
    <2>1. Has(g, e)' <=> Has(g, e)
      BY <1>2, <1>4 DEF Has
    <2>2. Has(g, e) => HeldBack(gdi[g])
      BY <1>4 DEF Has
    <2>3. ~ Listed(g, e)'
      <3>1. reg'[g] = "off"
        BY <1>1, <1>4
      <3> QED BY <1>6, <3>1 DEF Listed
    <2>4. ~ Loads(g, e) /\ gdi'[g] = gdi[g] /\ loading'[g] = loading[g]
      BY <1>1, <1>4 DEF Loads
    <2> QED BY <1>1, <1>6, <2>1, <2>2, <2>3, <2>4, BegunRight
  <1>8. Freezes(g)'
    <2>1. Acks(Got(g))' = {} /\ Acks(Wait(g))' = Acks(Wait(g))
      BY <1>1, <1>6, AtEmpty DEF Acks, Wait
    <2> QED BY <1>2, <1>3, <2>1 DEF Freezes
  <1>9. Lives(g)' /\ First(g)'
    BY <1>1, <1>2, <1>4 DEF Lives, First, Running
  <1>10. Lines'
    <2>1. /\ Linked
          /\ \A d \in Conn : link[d] = "unused" => inbox[d] = <<>> /\ wire[d] = <<>> /\ id[d] = None
          /\ \A d \in Conn : \A i \in 1 .. Len(inbox[d]) : inbox[d][i].type \in Said
          /\ \A e \in Entity : edi[e].pending \in Seq(Light)
      BY CalmParts, NowTame DEF Tame
    <2>2. Linked'
      BY <1>1, <1>2, <2>1 DEF Linked
    <2> QED BY <1>1, <2>1, <2>2 DEF Lines
  <1> QED BY <1>1, <1>5, <1>7, <1>8, <1>9, <1>10, BegunCalm

LEMMA RegisterCalm ==
  ASSUME Peers, Peers', Records, Records', [Next]_vars, Calm, NEW g \in Game, Register(g)
  PROVE  Calm'
  <1> DEFINE m == [type |-> "setGameID", game |-> g, entities |-> SetToSeq(snap[g])]
  <1>1. /\ reg[g] = "listed" /\ reg' = [reg EXCEPT ![g] = "registered"] /\ snap' = [snap EXCEPT ![g] = {}]
        /\ proc' = [proc EXCEPT ![g] = IF @ = "starting" THEN "running" ELSE @]
        /\ inbox' = Told(g, <<m>>)
        /\ UNCHANGED <<edi, gdi, id, link, wire, used, live, loading, dump, cur>>
        /\ reg \in [Game -> RegState] /\ snap \in [Game -> SUBSET Entity] /\ proc \in [Game -> ProcState]
        /\ inbox \in [Conn -> Seq(Request)]
    BY DEF Register, Tell, vars, Records, Peers
  <1>2. /\ proc[g] = "starting" /\ Sent(g) = <<>> /\ Got(g) = <<>> /\ Away(g) /\ dump[g] = {}
        /\ cur[g] # None /\ cur[g] \in Conn
        /\ link[cur[g]] = "open" /\ id[cur[g]] = None /\ inbox[cur[g]] = <<>> /\ wire[cur[g]] = <<>>
        /\ \A e \in Entity : loading[g][e] = 0
    BY <1>1, JustBegun, Starting
  <1>3. /\ m.type = "setGameID" /\ m.game = g
        /\ \A e : Lists(m, e) <=> e \in snap[g]
    <2>1. IsFiniteSet(snap[g])
      BY <1>1, FiniteAssumption, FS_Subset
    <2>2. PICK q \in Seq(snap[g]) : q = SetToSeq(snap[g]) /\ \A s \in snap[g] : \E i \in 1 .. Len(q) : q[i] = s
      BY <2>1, SetToSeqAll
    <2>3. \A e : e \in ToSet(q) <=> e \in snap[g]
      BY <2>2 DEF ToSet
    <2> QED BY <2>2, <2>3 DEF Lists
  <1> HIDE DEF m
  <1>4. inbox' = [inbox EXCEPT ![cur[g]] = @ \o <<m>>]
    BY <1>1, <1>2 DEF Told
  <1>5. inbox'[cur[g]] = <<m>> /\ \A d \in Conn \ {cur[g]} : inbox'[d] = inbox[d]
    BY <1>1, <1>2, <1>4
  <1>6. Linked /\ \A h \in Game : cur[h] \in Conn \cup {None}
    BY CalmParts DEF Peers
  <1>7. /\ reg'[g] = "registered" /\ snap'[g] = {} /\ proc'[g] = "running"
        /\ \A h \in Game \ {g} : reg'[h] = reg[h] /\ snap'[h] = snap[h] /\ proc'[h] = proc[h]
    BY <1>1, <1>2
  <1>8. ASSUME NEW h \in Game, h # g PROVE Untouched(h)
    <2>1. cur[h] # None => inbox'[cur[h]] = inbox[cur[h]]
      BY <1>2, <1>5, <1>6, <1>8 DEF Linked
    <2> QED BY <1>1, <1>7, <1>8, <2>1 DEF Untouched
  <1>9. Sent(g)' = <<m>> /\ Got(g)' = <<>> /\ (Away(g)' <=> Away(g))
    BY <1>1, <1>2, <1>5 DEF Sent, Got, Away
  <1>10. ASSUME NEW K, "setGameID" \notin K, NEW e
         PROVE  /\ At(Sent(g), K, e)' = {} /\ At(Sent(g), K, e) = {}
                /\ \A d \in Conn : At(inbox[d], K, e)' = At(inbox[d], K, e)
    <2>1. At(<<m>>, K, e) = {} /\ At(<<>>, K, e) = {}
      BY <1>3, <1>10, SingleAt, AtEmpty
    <2>2. At(Sent(g), K, e)' = At(<<m>>, K, e) /\ At(Sent(g), K, e) = At(<<>>, K, e)
      BY <1>2, <1>9 DEF At
    <2>3. At(inbox'[cur[g]], K, e) = {} /\ At(inbox[cur[g]], K, e) = {}
      BY <1>2, <1>5, <2>1
    <2>4. \A d \in Conn : At(inbox'[d], K, e) = At(inbox[d], K, e)
      BY <1>5, <2>3
    <2>5. \A d \in Conn : At(inbox[d], K, e)' = At(inbox'[d], K, e)
      BY DEF At
    <2> QED BY <2>1, <2>2, <2>4, <2>5
  <1>11. ASSUME NEW e PROVE Listed(g, e)' <=> Listed(g, e)
    <2>1. Len(<<m>>) = 1 /\ <<m>>[1] = m /\ Len(<<>>) = 0
      OBVIOUS
    <2>2. Listed(g, e) <=> e \in snap[g]
      BY <1>1, <1>2, Quiets
    <2>3. Listed(g, e)' <=> \E i \in 1 .. Len(<<m>>) : Lists(<<m>>[i], e)
      BY <1>7, <1>9 DEF Listed, Lists
    <2>4. Listed(g, e)' <=> Lists(m, e)
      BY <2>1, <2>3
    <2> QED BY <1>3, <2>2, <2>4
  <1>12. ASSUME NEW e \in Entity
         PROVE  /\ Alone(g, e)' /\ Found(g, e)' /\ InOrder(g, e)' /\ Absent(g, e)'
                /\ Claims(g, e)' <=> Claims(g, e)
                /\ Noted(e)' <=> Noted(e)
    <2>1. Alone(g, e) /\ Found(g, e) /\ InOrder(g, e) /\ Absent(g, e)
      BY CalmParts
    <2>2. /\ Notes(Sent(g), e)' = {} /\ Notes(Sent(g), e) = {} /\ Ends(Sent(g), e)' = {} /\ Ends(Sent(g), e) = {}
          /\ \A d \in Conn : Notes(inbox[d], e)' = Notes(inbox[d], e)
      BY <1>10 DEF Notes, Ends
    <2>3. /\ Bids(Got(g), e)' = {} /\ Bids(Got(g), e) = {} /\ Bids(Wait(g), e)' = Bids(Wait(g), e)
          /\ (One(Bids(Wait(g), e))' <=> One(Bids(Wait(g), e)))
          /\ One(Bids(Got(g), e))' /\ One(Ends(Sent(g), e))'
      BY <1>1, <1>2, <1>9, <2>2, AtEmpty DEF Bids, Wait, At, One
    <2>4. /\ Has(g, e)' <=> Has(g, e)
          /\ Loads(g, e)' <=> Loads(g, e)
          /\ HeldBack(gdi[g])' <=> HeldBack(gdi[g])
          /\ loading' = loading
      BY <1>1 DEF Has, Loads, HeldBack
    <2>5. Noted(e)' <=> Noted(e)
      BY <2>2 DEF Noted
    <2>6. (Coming(g, e)' <=> Coming(g, e)) /\ (Claims(g, e)' <=> Claims(g, e))
      BY <1>11, <2>2, <2>3, <2>4 DEF Coming, Claims
    <2>7. Alone(g, e)'
      BY <2>1, <2>2, <2>3, <2>4, <2>6 DEF Alone
    <2>8. Found(g, e)'
      BY <1>1, <2>1, <2>5, <2>6 DEF Found
    <2>9. InOrder(g, e)' /\ Absent(g, e)'
      BY <1>9, <1>11, <2>1, <2>2, <2>3, <2>4 DEF InOrder, Absent
    <2> QED BY <2>5, <2>6, <2>7, <2>8, <2>9
  <1>13. ASSUME NEW e \in Entity PROVE Unborn(e)'
    <2>1. Unborn(e) /\ \A h \in Game : Claims(h, e)' => Claims(h, e)
      BY <1>8, <1>12, UntouchedSame, CalmParts
    <2>2. \A d \in Conn : Makes(inbox[d], e)' = Makes(inbox[d], e)
      BY <1>10 DEF Makes
    <2>3. \A d \in Conn : e \notin used => At(inbox[d], {"notify", "destroy", "create", "load"}, e)' = {}
      BY <1>10, <2>1 DEF Unborn
    <2>4. edi'[e].gameid = edi[e].gameid /\ (e \in used' <=> e \in used)
      BY <1>1
    <2> QED BY <2>1, <2>2, <2>3, <2>4, UnbornStays
  <1>14. Freezes(g)' /\ Lives(g)' /\ First(g)'
    <2>1. Freezes(g) /\ Lives(g) /\ First(g)
      BY CalmParts
    <2>2. Acks(Got(g))' = {} /\ Acks(Wait(g))' = Acks(Wait(g))
      BY <1>1, <1>9, AtEmpty DEF Acks, Wait
    <2>3. Freezes(g)'
      BY <1>7, <2>1, <2>2 DEF Freezes
    <2>4. Lives(g)'
      BY <1>1, <1>2, <1>7 DEF Lives, Running
    <2>5. First(g)'
      <3>1. Len(<<m>>) = 1 /\ <<m>>[1] = m /\ <<m>> # <<>>
        OBVIOUS
      <3>2. inbox'[cur'[g]] = <<m>> /\ id'[cur'[g]] = None /\ gdi'[g].clientProxy # cur'[g]
        BY <1>1, <1>2, <1>5 DEF Away
      <3>3. id'[cur'[g]] # g
        BY <3>2, NoneAssumption
      <3> QED BY <1>3, <3>1, <3>2, <3>3 DEF First
    <2> QED BY <2>3, <2>4, <2>5
  <1>15. Lines'
    <2>1. /\ Linked
          /\ \A d \in Conn : link[d] = "unused" => inbox[d] = <<>> /\ wire[d] = <<>> /\ id[d] = None
          /\ \A d \in Conn : \A i \in 1 .. Len(inbox[d]) : inbox[d][i].type \in Said
          /\ \A e \in Entity : edi[e].pending \in Seq(Light)
      BY CalmParts, NowTame DEF Tame
    <2>2. Linked'
      BY <1>1, <2>1 DEF Linked
    <2>3. Len(<<m>>) = 1 /\ <<m>>[1] = m
      OBVIOUS
    <2>4. ASSUME NEW d \in Conn, NEW i \in 1 .. Len(inbox'[d]) PROVE inbox'[d][i].type \in Said
      <3>1. CASE d = cur[g]
        BY <1>3, <1>5, <2>3, <2>4, <3>1 DEF Said
      <3>2. CASE d # cur[g]
        <4>1. inbox'[d] = inbox[d]
          BY <1>5, <3>2
        <4> QED BY <2>1, <2>4, <4>1
      <3> QED BY <3>1, <3>2
    <2>5. \A d \in Conn : link[d] = "unused" => inbox'[d] = <<>>
      BY <1>2, <1>5, <2>1
    <2> QED BY <1>1, <2>1, <2>2, <2>4, <2>5 DEF Lines
  <1>16. \A e \in Entity : Claims(g, e)' => Claims(g, e) \/ \A h \in Game : ~ Claims(h, e)
    BY <1>12
  <1>17. \A e \in Entity : Noted(e) => Noted(e)' \/ Claims(g, e)
    BY <1>12
  <1>18. \A h \in Game \ {g} : Untouched(h)
    BY <1>8
  <1> QED BY <1>1, <1>12, <1>13, <1>14, <1>15, <1>16, <1>17, <1>18, OneGame

-----------------------------------------------------------------------------
(* A process ends                                                           *)

\* Its connection is closed; of what it said, the first n messages got through.
Ending(g, state, file, n) ==
  /\ Exit(g, state, file) /\ n \in 0 .. Len(Sent(g))
  /\ \A c \in Conn : inbox'[c] = IF c = cur[g] THEN SubSeq(inbox[c], 1, n) ELSE inbox[c]
  /\ proc[g] \in {"starting", "running", "freezing"}
  /\ \/ state = "down" /\ file = {}
     \/ state = "frozen" /\ file = live[g] /\ proc[g] = "freezing" /\ inbox' = inbox

LEMMA EndingStep ==
  ASSUME Peers, Calm, NEW g \in Game, Crash(g) \/ DoFreeze(g)
  PROVE  \E state, file, n : Ending(g, state, file, n)
  <1>1. Lives(g)
    BY CalmParts
  <1>2. cur[g] \in Conn \cup {None} /\ inbox \in [Conn -> Seq(Request)]
    BY DEF Peers
  <1>3. cur[g] # None => \A n \in Nat : n <= Len(inbox[cur[g]]) => n \in 0 .. Len(Sent(g)) \/ link[cur[g]] = "gone"
    BY <1>2 DEF Sent
  <1>4. CASE Crash(g)
    <2>1. CASE cur[g] # None /\ link[cur[g]] = "open"
      <3>1. PICK n \in 0 .. Len(inbox[cur[g]]) : inbox' = [inbox EXCEPT ![cur[g]] = SubSeq(@, 1, n)]
        BY <1>4, <2>1 DEF Crash
      <3>2. Sent(g) = inbox[cur[g]]
        BY <2>1 DEF Sent
      <3>3. \A c \in Conn : inbox'[c] = IF c = cur[g] THEN SubSeq(inbox[c], 1, n) ELSE inbox[c]
        BY <1>2, <3>1
      <3>4. Ending(g, "down", {}, n)
        BY <1>4, <3>1, <3>2, <3>3 DEF Ending, Crash
      <3> QED BY <3>4
    <2>2. CASE cur[g] = None
      <3>1. inbox' = inbox /\ Sent(g) = <<>>
        BY <1>4, <2>2 DEF Crash, Sent
      <3>2. 0 \in 0 .. Len(Sent(g))
        BY <3>1
      <3>3. \A c \in Conn : c # cur[g]
        BY <2>2, NoneAssumption
      <3>4. Ending(g, "down", {}, 0)
        BY <1>4, <3>1, <3>2, <3>3 DEF Ending, Crash
      <3> QED BY <3>4
    <2> QED BY <1>1, <1>4, <2>1, <2>2 DEF Lives, Running, Crash
  <1>5. CASE DoFreeze(g)
    <2>1. cur[g] # None /\ link[cur[g]] = "open" /\ cur[g] \in Conn
      BY <1>1, <1>2, <1>5 DEF Lives, Running, DoFreeze
    <2>2. Sent(g) = inbox[cur[g]] /\ inbox[cur[g]] \in Seq(Request)
      BY <1>2, <2>1 DEF Sent
    <2>3. PICK n \in Nat : n = Len(inbox[cur[g]])
      BY <2>2
    <2>4. SubSeq(inbox[cur[g]], 1, n) = inbox[cur[g]] /\ n \in 0 .. Len(Sent(g))
      BY <2>2, <2>3
    <2>5. Ending(g, "frozen", live[g], n)
      BY <1>5, <2>4 DEF Ending, DoFreeze
    <2> QED BY <2>5
  <1> QED BY <1>4, <1>5

\* What is left of the game.
LEMMA EndingViews ==
  ASSUME Peers, Peers', Records, Calm, NEW g \in Game, NEW state, NEW file, NEW n, Ending(g, state, file, n)
  PROVE  /\ Sent(g) \in Seq(Request) /\ n \in 0 .. Len(Sent(g)) /\ Sent(g)' = SubSeq(Sent(g), 1, n)
         /\ Got(g)' = <<>> /\ Wait(g)' = Wait(g)
         /\ cur[g] # None => /\ cur[g] \in Conn /\ link[cur[g]] = "open" /\ Sent(g) = inbox[cur[g]]
                             /\ link'[cur[g]] = "closed" /\ wire'[cur[g]] = <<>>
                             /\ inbox'[cur[g]] = SubSeq(inbox[cur[g]], 1, n)
         /\ \A d \in Conn : d # cur[g] => link'[d] = link[d] /\ wire'[d] = wire[d] /\ inbox'[d] = inbox[d]
         /\ proc'[g] = state /\ live'[g] = {} /\ dump'[g] = file /\ reg'[g] = "off" /\ snap'[g] = {}
         /\ \A e \in Entity : loading'[g][e] = 0
         /\ \A h \in Game \ {g} : Untouched(h)
         /\ UNCHANGED <<edi, gdi, id, cur, used>>
  <1>0. reg \in [Game -> RegState] /\ loading \in [Game -> [Entity -> Nat]]
    BY DEF Records
  <1>1. /\ Exit(g, state, file) /\ proc[g] \in {"starting", "running", "freezing"} /\ n \in 0 .. Len(Sent(g))
        /\ \A c \in Conn : inbox'[c] = IF c = cur[g] THEN SubSeq(inbox[c], 1, n) ELSE inbox[c]
    BY DEF Ending
  <1>2. /\ cur[g] \in Conn \cup {None} /\ inbox \in [Conn -> Seq(Request)] /\ wire \in [Conn -> Seq(Packet)]
        /\ link \in [Conn -> {"unused", "open", "closed", "gone"}]
        /\ live \in [Game -> SUBSET Entity] /\ dump \in [Game -> SUBSET Entity] /\ snap \in [Game -> SUBSET Entity]
        /\ proc \in [Game -> ProcState]
    BY NowTyped DEF Peers, Inv
  <1>3. Lives(g) /\ Linked
    BY CalmParts
  <1>4. cur[g] # None => link[cur[g]] = "open" /\ cur[g] \in Conn
    BY <1>1, <1>2, <1>3 DEF Lives, Running
  <1>5. /\ cur[g] # None => link' = [link EXCEPT ![cur[g]] = "closed"] /\ wire' = [wire EXCEPT ![cur[g]] = <<>>]
        /\ cur[g] = None => link' = link /\ wire' = wire
        /\ UNCHANGED <<edi, gdi, id, cur, used>>
    BY <1>1, <1>4 DEF Exit, Closed
  <1>6. Sent(g) \in Seq(Request) /\ (cur[g] # None => Sent(g) = inbox[cur[g]]) /\ (cur[g] = None => Sent(g) = <<>>)
    BY <1>2, <1>4 DEF Sent
  <1>7. cur[g] # None => /\ link'[cur[g]] = "closed" /\ wire'[cur[g]] = <<>>
                         /\ inbox'[cur[g]] = SubSeq(inbox[cur[g]], 1, n)
    BY <1>1, <1>2, <1>4, <1>5
  <1>8. \A d \in Conn : d # cur[g] => link'[d] = link[d] /\ wire'[d] = wire[d] /\ inbox'[d] = inbox[d]
    BY <1>1, <1>2, <1>4, <1>5
  <1>9. Sent(g)' = SubSeq(Sent(g), 1, n)
    <2>1. cur[g] = None => Sent(g)' = <<>> /\ n = 0
      BY <1>1, <1>5, <1>6 DEF Sent
    <2>2. SubSeq(<<>>, 1, 0) = <<>>
      OBVIOUS
    <2>3. cur[g] # None => Sent(g)' = inbox'[cur[g]]
      BY <1>5, <1>7 DEF Sent
    <2> QED BY <1>6, <1>7, <2>1, <2>2, <2>3
  <1>10. Got(g)' = <<>> /\ Wait(g)' = Wait(g)
    BY <1>5, <1>7 DEF Got, Wait
  <1>11. /\ proc'[g] = state /\ live'[g] = {} /\ dump'[g] = file /\ reg'[g] = "off" /\ snap'[g] = {}
         /\ \A h \in Game \ {g} : /\ proc'[h] = proc[h] /\ live'[h] = live[h] /\ dump'[h] = dump[h]
                                  /\ snap'[h] = snap[h]
    BY <1>1, <1>2, <1>0 DEF Exit
  <1>12. /\ \A e \in Entity : loading'[g][e] = 0
         /\ \A h \in Game \ {g} : loading'[h] = loading[h] /\ reg'[h] = reg[h]
    BY <1>0, <1>1 DEF Exit
  <1>13. ASSUME NEW h \in Game, h # g PROVE Untouched(h)
    <2>1. cur[h] # None => cur[h] \in Conn /\ cur[h] # cur[g]
      BY <1>3, <1>13 DEF Linked, Peers
    <2> QED BY <1>5, <1>8, <1>11, <1>12, <1>13, <2>1 DEF Untouched
  <1> QED BY <1>1, <1>4, <1>5, <1>6, <1>7, <1>8, <1>9, <1>10, <1>11, <1>12, <1>13

LEMMA EndingRight ==
  ASSUME Peers, Peers', Records, Records', Calm, NEW g \in Game, NEW state, NEW file, NEW n,
         Ending(g, state, file, n), NEW e \in Entity
  PROVE  /\ Alone(g, e)' /\ Found(g, e)' /\ InOrder(g, e)' /\ Absent(g, e)'
         /\ Claims(g, e)' => Claims(g, e)
         /\ Noted(e) => Noted(e)' \/ Claims(g, e)
  <1>1. /\ Sent(g) \in Seq(Request) /\ n \in 0 .. Len(Sent(g)) /\ Sent(g)' = SubSeq(Sent(g), 1, n)
        /\ Got(g)' = <<>> /\ Wait(g)' = Wait(g)
        /\ cur[g] # None => /\ cur[g] \in Conn /\ Sent(g) = inbox[cur[g]]
                            /\ inbox'[cur[g]] = SubSeq(inbox[cur[g]], 1, n)
        /\ \A d \in Conn : d # cur[g] => inbox'[d] = inbox[d]
        /\ live'[g] = {} /\ dump'[g] = file /\ reg'[g] = "off" /\ snap'[g] = {}
        /\ loading'[g][e] = 0
        /\ UNCHANGED <<edi, gdi, cur>>
    BY EndingViews
  <1>2. Alone(g, e) /\ Found(g, e) /\ InOrder(g, e) /\ Absent(g, e) /\ Freezes(g)
    BY CalmParts
  <1>3. \/ file = {}
        \/ file = live[g] /\ inbox' = inbox /\ HeldBack(gdi[g])
    BY <1>2 DEF Ending, Freezes
  <1>4. PICK q \in Seq(Request) : q = Sent(g)
    BY <1>1
  <1>5. n \in 0 .. Len(q) /\ Sent(g)' = SubSeq(q, 1, n) /\ Len(SubSeq(q, 1, n)) = n
        /\ \A i \in 1 .. n : SubSeq(q, 1, n)[i] = q[i] /\ i \in 1 .. Len(q)
    BY <1>1, <1>4
  <1>6. ASSUME NEW K
        PROVE  /\ \A i \in At(Sent(g), K, e)' : i \in At(Sent(g), K, e) /\ i <= n
               /\ \A i \in At(Sent(g), K, e) : i <= n => i \in At(Sent(g), K, e)'
               /\ Below(At(Sent(g), K, e)', At(Sent(g), K, e))
    <2>1. At(Sent(g), K, e) = At(q, K, e) /\ At(Sent(g), K, e)' = At(SubSeq(q, 1, n), K, e)
      BY <1>4, <1>5 DEF At
    <2> QED BY <1>5, <2>1, AtPrefix, PrefixBelow
  <1>7. /\ \A i \in Notes(Sent(g), e)' : i \in Notes(Sent(g), e)
        /\ \A i \in Notes(Sent(g), e) : i <= n => i \in Notes(Sent(g), e)'
        /\ \A i \in Ends(Sent(g), e)' : i \in Ends(Sent(g), e) /\ i <= n
        /\ Below(Ends(Sent(g), e)', Ends(Sent(g), e))
    BY <1>6 DEF Notes, Ends
  <1>8. n \in Int /\ Notes(Sent(g), e) \subseteq Int /\ Ends(Sent(g), e) \subseteq Int
    BY <1>4, <1>5 DEF Notes, Ends, At
  <1>9. Ends(Sent(g), e)' # {} => \A i \in Notes(Sent(g), e) : i \in Notes(Sent(g), e)'
    <2>1. ASSUME NEW i \in Notes(Sent(g), e), NEW j \in Ends(Sent(g), e)' PROVE i \in Notes(Sent(g), e)'
      <3>1. j \in Ends(Sent(g), e) /\ j <= n /\ i < j
        BY <1>2, <1>7, <2>1 DEF InOrder
      <3>2. i \in Int /\ j \in Int
        BY <1>8, <3>1
      <3> QED BY <1>7, <1>8, <3>1, <3>2
    <2> QED BY <2>1
  <1>10. Listed(g, e)' => Listed(g, e)
    <2>1. Listed(g, e)' <=> \E i \in 1 .. n : Lists(q[i], e)
      BY <1>1, <1>5 DEF Listed, Lists
    <2>2. (\E i \in 1 .. Len(q) : Lists(q[i], e)) => Listed(g, e)
      BY <1>4 DEF Listed, Lists
    <2> QED BY <1>5, <2>1, <2>2
  <1>11. /\ Bids(Got(g), e)' = {} /\ Bids(Wait(g), e)' = Bids(Wait(g), e)
         /\ ~ Loads(g, e)' /\ (HeldBack(gdi[g])' <=> HeldBack(gdi[g])) /\ (Away(g)' <=> Away(g))
    BY <1>1, AtEmpty DEF Bids, At, Loads, HeldBack, Away
  <1>12. Has(g, e)' => Has(g, e) /\ inbox' = inbox /\ HeldBack(gdi[g])
    BY <1>1, <1>3 DEF Has
  <1>13. Lean(g, e)
    <2>1. loading'[g][e] <= loading[g][e]
      BY <1>1 DEF Records
    <2>2. Below(Bids(Got(g), e)', Bids(Got(g), e)) /\ Below(Bids(Wait(g), e)', Bids(Wait(g), e))
      BY <1>11 DEF Below, One
    <2> QED BY <1>7, <1>10, <1>12, <2>1, <2>2 DEF Lean, Fewer
  <1>14. Alone(g, e)' /\ (Coming(g, e)' => Coming(g, e)) /\ (Claims(g, e)' => Claims(g, e))
    BY <1>2, <1>13, LeanClaims
  <1>15. /\ \A d \in Conn : d # cur[g] => Notes(inbox[d], e)' = Notes(inbox[d], e)
         /\ \A d \in Conn : d = cur[g] => /\ Notes(inbox[d], e) = Notes(Sent(g), e)
                                          /\ Notes(inbox[d], e)' = Notes(Sent(g), e)'
    <2>1. \A d \in Conn : Notes(inbox[d], e)' = Notes(inbox'[d], e)
      BY DEF Notes, At
    <2>2. \A d \in Conn : d # cur[g] => Notes(inbox'[d], e) = Notes(inbox[d], e)
      BY <1>1
    <2>3. \A d \in Conn : d = cur[g] => d # None
      BY NoneAssumption
    <2>4. \A d \in Conn : d = cur[g] => inbox[d] = Sent(g) /\ inbox'[d] = Sent(g)'
      BY <1>1, <2>3
    <2>5. Notes(Sent(g), e)' = Notes(Sent(g)', e)
      BY DEF Notes, At
    <2> QED BY <2>1, <2>2, <2>4, <2>5
  <1>16. Noted(e) => Noted(e)' \/ Notes(Sent(g), e) # {}
    BY <1>15 DEF Noted
  <1>17. Noted(e) /\ (\A i \in Notes(Sent(g), e) : i \in Notes(Sent(g), e)') => Noted(e)'
    BY <1>15 DEF Noted
  <1>18. Notes(Sent(g), e)' # {} => Noted(e)'
    <2>1. Notes(Sent(g), e)' # {} => cur[g] # None
      <3>1. cur[g] = None => Sent(g) = <<>>
        BY DEF Sent
      <3>2. cur[g] = None => Notes(Sent(g), e) = {}
        BY <3>1, AtEmpty DEF Notes
      <3> QED BY <1>7, <3>2
    <2> QED BY <1>1, <1>15, <2>1 DEF Noted
  <1>19. Found(g, e)'
    <2>1. Coming(g, e)' => edi'[e].gameid = g
      BY <1>1, <1>2, <1>14 DEF Found
    <2>2. ASSUME Claims(g, e)', edi[e].gameid # g PROVE edi[e].gameid = None /\ Noted(e)'
      <3>1. edi[e].gameid = None /\ Noted(e) /\ ~ Coming(g, e)'
        BY <1>1, <1>2, <1>14, <2>1, <2>2 DEF Found
      <3>2. CASE Has(g, e)'
        <4>1. inbox' = inbox
          BY <1>12, <3>2
        <4> QED BY <3>1, <4>1 DEF Noted, Notes, At
      <3>3. CASE Ends(Sent(g), e)' # {}
        BY <1>9, <1>17, <3>1, <3>3
      <3>4. CASE Notes(Sent(g), e)' # {}
        BY <1>18, <3>1, <3>4
      <3>5. CASE Listed(g, e)'
        <4>1. Notes(Sent(g), e) = {}
          BY <1>2, <1>10, <3>5 DEF InOrder
        <4> QED BY <1>16, <3>1, <4>1
      <3> QED BY <2>2, <3>1, <3>2, <3>3, <3>4, <3>5 DEF Claims
    <2> QED BY <1>1, <2>1, <2>2 DEF Found
  <1>20. InOrder(g, e)'
    BY <1>2, <1>7, <1>10 DEF InOrder
  <1>21. Absent(g, e)'
    <2>1. Ends(Sent(g), e)' # {} => Ends(Sent(g), e) # {}
      BY <1>7
    <2> QED BY <1>2, <1>9, <1>10, <1>11, <1>12, <2>1 DEF Absent
  <1>22. Noted(e) => Noted(e)' \/ Claims(g, e)
    BY <1>16 DEF Claims
  <1> QED BY <1>14, <1>19, <1>20, <1>21, <1>22

LEMMA EndingCalm ==
  ASSUME Peers, Peers', Records, Records', [Next]_vars, Calm, NEW g \in Game, Crash(g) \/ DoFreeze(g)
  PROVE  Calm'
  <1>1. PICK state, file, n : Ending(g, state, file, n)
    BY EndingStep
  <1>2. /\ Sent(g) \in Seq(Request) /\ n \in 0 .. Len(Sent(g)) /\ Sent(g)' = SubSeq(Sent(g), 1, n)
        /\ Got(g)' = <<>> /\ Wait(g)' = Wait(g)
        /\ cur[g] # None => /\ cur[g] \in Conn /\ link[cur[g]] = "open" /\ Sent(g) = inbox[cur[g]]
                            /\ link'[cur[g]] = "closed" /\ wire'[cur[g]] = <<>>
                            /\ inbox'[cur[g]] = SubSeq(inbox[cur[g]], 1, n)
        /\ \A d \in Conn : d # cur[g] => link'[d] = link[d] /\ wire'[d] = wire[d] /\ inbox'[d] = inbox[d]
        /\ proc'[g] = state /\ live'[g] = {} /\ dump'[g] = file /\ reg'[g] = "off" /\ snap'[g] = {}
        /\ \A e \in Entity : loading'[g][e] = 0
        /\ \A h \in Game \ {g} : Untouched(h)
        /\ UNCHANGED <<edi, gdi, id, cur, used>>
    BY <1>1, EndingViews
  <1>3. \A e \in Entity : /\ Alone(g, e)' /\ Found(g, e)' /\ InOrder(g, e)' /\ Absent(g, e)'
                          /\ Claims(g, e)' => Claims(g, e)
                          /\ Noted(e) => Noted(e)' \/ Claims(g, e)
    BY <1>1, EndingRight
  <1>4. /\ Freezes(g) /\ Lives(g) /\ First(g) /\ Linked
        /\ \A d \in Conn : link[d] = "unused" => inbox[d] = <<>> /\ wire[d] = <<>> /\ id[d] = None
        /\ \A d \in Conn : \A i \in 1 .. Len(inbox[d]) : inbox[d][i].type \in Said
        /\ \A e \in Entity : edi[e].pending \in Seq(Light)
    BY CalmParts, NowTame DEF Tame
  <1>5. \/ state = "down" /\ file = {}
        \/ state = "frozen" /\ proc[g] = "freezing"
    BY <1>1 DEF Ending
  <1>6. \A c \in Conn : inbox[c] \in Seq(Request)
    BY DEF Peers
  <1>7. ASSUME NEW c \in Conn
        PROVE  /\ \A i \in 1 .. Len(inbox'[c]) : i \in 1 .. Len(inbox[c]) /\ inbox'[c][i] = inbox[c][i]
               /\ inbox[c] = <<>> => inbox'[c] = <<>>
    <2>1. CASE c # cur[g]
      BY <1>2, <2>1
    <2>2. CASE c = cur[g]
      <3>1. PICK q \in Seq(Request) : q = inbox[c]
        BY <1>6
      <3>2. inbox'[c] = SubSeq(q, 1, n) /\ n \in 0 .. Len(q)
        BY <1>2, <2>2, <3>1, NoneAssumption
      <3>3. /\ Len(SubSeq(q, 1, n)) = n
            /\ \A i \in 1 .. n : i \in 1 .. Len(q) /\ SubSeq(q, 1, n)[i] = q[i]
        BY <3>2
      <3>4. q = <<>> => SubSeq(q, 1, n) = <<>>
        BY <3>2
      <3> QED BY <3>1, <3>2, <3>3, <3>4
    <2> QED BY <2>1, <2>2
  <1>8. Freezes(g)'
    <2>1. Acks(Got(g))' = {} /\ Acks(Wait(g))' = Acks(Wait(g))
      BY <1>2, AtEmpty DEF Acks
    <2>2. HeldBack(gdi[g])' <=> HeldBack(gdi[g])
      BY <1>2 DEF HeldBack
    <2> QED BY <1>2, <1>4, <1>5, <2>1, <2>2 DEF Freezes
  <1>9. Lives(g)'
    BY <1>2, <1>5 DEF Lives, Running
  <1>10. First(g)'
    <2>1. \A i \in 1 .. Len(inbox'[cur[g]]) : cur[g] # None => i \in 1 .. Len(inbox[cur[g]]) /\ inbox'[cur[g]][i] = inbox[cur[g]][i]
      BY <1>2, <1>7
    <2>2. cur[g] # None /\ inbox'[cur[g]] # <<>> => inbox[cur[g]] # <<>> /\ inbox'[cur[g]][1] = inbox[cur[g]][1]
      <3>1. ASSUME cur[g] # None, inbox'[cur[g]] # <<>> PROVE inbox[cur[g]] # <<>> /\ inbox'[cur[g]][1] = inbox[cur[g]][1]
        <4>1. cur[g] \in Conn /\ inbox'[cur[g]] \in Seq(Request)
          BY <1>2, <3>1 DEF Peers
        <4>2. 1 \in 1 .. Len(inbox'[cur[g]])
          BY <3>1, <4>1
        <4> QED BY <1>7, <3>1, <4>1, <4>2
      <3> QED BY <3>1
    <2>3. ~ Running(g)'
      BY <1>2, <1>5 DEF Running
    <2>4. cur[g] # None => (id[cur[g]] = g => gdi[g].clientProxy = cur[g])
      BY <1>2, <1>4 DEF First
    <2> QED BY <1>2, <1>4, <2>1, <2>2, <2>3, <2>4 DEF First
  <1>11. Lines'
    <2>1. Linked'
      BY <1>2, <1>4, LinkedStep
    <2>2. \A d \in Conn : \A i \in 1 .. Len(inbox'[d]) : inbox'[d][i].type \in Said
      BY <1>4, <1>7
    <2>3. ASSUME NEW d \in Conn, link'[d] = "unused" PROVE inbox'[d] = <<>> /\ wire'[d] = <<>> /\ id'[d] = None
      <3>1. d # cur[g]
        BY <1>2, <2>3, NoneAssumption
      <3> QED BY <1>2, <1>4, <2>3, <3>1
    <2> QED BY <1>2, <1>4, <2>1, <2>2, <2>3 DEF Lines
  <1>12. ASSUME NEW e \in Entity PROVE Unborn(e)'
    <2>1. Unborn(e) /\ \A h \in Game : Claims(h, e)' => Claims(h, e)
      BY <1>2, <1>3, UntouchedSame, CalmParts
    <2>2. ASSUME NEW c \in Conn, NEW K PROVE \A i \in At(inbox[c], K, e)' : i \in At(inbox[c], K, e)
      <3>1. At(inbox[c], K, e)' = At(inbox'[c], K, e)
        BY DEF At
      <3> QED BY <1>7, <3>1 DEF At
    <2>3. \A c \in Conn : \A i \in Makes(inbox[c], e)' : i \in Makes(inbox[c], e)
      BY <2>2 DEF Makes
    <2>4. \A c \in Conn : e \notin used => At(inbox[c], {"notify", "destroy", "create", "load"}, e)' = {}
      BY <2>1, <2>2 DEF Unborn
    <2>5. edi'[e].gameid = edi[e].gameid /\ (e \in used' <=> e \in used)
      BY <1>2
    <2> QED BY <2>1, <2>3, <2>4, <2>5, UnbornStays
  <1>13. edi' = edi
    BY <1>2
  <1>14. \A e \in Entity : Claims(g, e)' => Claims(g, e) \/ \A h \in Game : ~ Claims(h, e)
    BY <1>3
  <1> QED BY <1>2, <1>3, <1>8, <1>9, <1>10, <1>11, <1>12, <1>13, <1>14, OneGame

-----------------------------------------------------------------------------
(* Every step keeps the cluster calm                                        *)

LEMMA StutterCalm ==
  ASSUME Calm, inbox' = inbox, used' = used,
         UNCHANGED <<edi, gdi, id, link, wire, proc, live, loading, dump, cur, reg, snap>>
  PROVE  Calm'
  <1>1. \A g \in Game : /\ Sent(g)' = Sent(g) /\ Got(g)' = Got(g) /\ Wait(g)' = Wait(g)
                        /\ Running(g)' <=> Running(g)
    BY DEF Sent, Got, Wait, Running
  <1>2. ASSUME NEW g \in Game PROVE Untouched(g)
    BY DEF Untouched
  <1>3. \A g \in Game, e \in Entity : /\ Alone(g, e)' /\ InOrder(g, e)' /\ Absent(g, e)'
                                      /\ (Claims(g, e)' <=> Claims(g, e)) /\ (Coming(g, e)' <=> Coming(g, e))
    BY <1>2, UntouchedSame, CalmParts
  <1>4. \A g \in Game : Freezes(g)' /\ Lives(g)' /\ First(g)'
    BY <1>2, UntouchedGame, CalmParts
  <1>5. \A e \in Entity : Noted(e)' <=> Noted(e)
    BY DEF Noted, Notes, At
  <1>6. \A g \in Game, e \in Entity : Found(g, e)'
    BY <1>3, <1>5, FoundStays, CalmParts
  <1>7. Apart'
    BY <1>3, ApartStays, CalmParts
  <1>8. ASSUME NEW e \in Entity PROVE Unborn(e)'
    <2>1. Unborn(e)
      BY CalmParts
    <2>2. \A c \in Conn : \A K : At(inbox[c], K, e)' = At(inbox[c], K, e)
      BY DEF At
    <2>3. \A c \in Conn : Makes(inbox[c], e)' = Makes(inbox[c], e)
      BY <2>2 DEF Makes
    <2>4. \A c \in Conn : e \notin used => At(inbox[c], {"notify", "destroy", "create", "load"}, e)' = {}
      BY <2>1, <2>2 DEF Unborn
    <2>5. edi'[e].gameid = edi[e].gameid /\ (e \in used' <=> e \in used)
      OBVIOUS
    <2> QED BY <1>3, <2>1, <2>3, <2>4, <2>5, UnbornStays
  <1>9. Lines'
    BY CalmParts DEF Calm, Lines, Linked
  <1> QED BY <1>3, <1>4, <1>6, <1>7, <1>8, <1>9, CalmFrom

LEMMA CopyStep ==
  ASSUME CopyInv, [CNext]_cvars
  PROVE  CopyInv'
  <1>1. Peers /\ Records /\ Inv
    BY DEF CopyInv, Peers
  <1>2. Peers' /\ [Next]_vars /\ Records'
    BY <1>1, ClusterStep, RecordsStep
  <1>3. SUFFICES ASSUME ~ misled' PROVE Calm'
    BY <1>2 DEF CopyInv
  <1>4. ~ misled
    <2>1. ASSUME misled' = misled PROVE ~ misled
      BY <1>3, <2>1
    <2>2. ASSUME NEW c \in Conn, Serve(c) PROVE ~ misled
      BY <1>3, <2>2 DEF Serve
    <2>3. ASSUME NEW g \in Game, GameTimeout(g) \/ BreakConn(g) PROVE ~ misled
      BY <1>3, <2>3 DEF GameTimeout, BreakConn
    <2>4. ASSUME NEW c \in Conn, Disconnected(c) PROVE misled' = misled
      BY <2>4 DEF Disconnected, history
    <2>5. ASSUME NEW e \in Entity, EntityTimeout(e) PROVE misled' = misled
      BY <2>5 DEF EntityTimeout, history
    <2>6. ASSUME NEW g \in Game, Connect(g) \/ TakeSnapshot(g) \/ Register(g) \/ Start(g)
          PROVE  misled' = misled
      BY <2>6 DEF Connect, TakeSnapshot, Register, Start, history
    <2>7. ASSUME NEW g \in Game, Crash(g) \/ StartFreeze(g) \/ DoFreeze(g) \/ FreezeFails(g)
          PROVE  misled' = misled
      BY <2>7 DEF Crash, StartFreeze, DoFreeze, FreezeFails, Exit, Ask, history
    <2>8. ASSUME NEW g \in Game, HandlePacket(g) PROVE misled' = misled
      BY <2>8 DEF HandlePacket, Handle, OnSetGameIDAck, OnNotifyDeploymentReady, OnCreateEntitySomewhere,
         OnLoadEntitySomewhere, OnCall, OnGameConnected, OnGameDisconnected, OnStartFreezeGameAck, history
    <2>9. ASSUME NEW g \in Game, NEW e \in Entity,
                 \/ CreateEntity(g, e) \/ CreateEntitySomewhere(g, e) \/ DestroyEntity(g, e)
                 \/ LoadEntityAnywhere(g, e) \/ Loaded(g, e) \/ LoadFailed(g, e)
                 \/ Call(g, e)
          PROVE  misled' = misled
      BY <2>9 DEF CreateEntity, CreateEntitySomewhere, DestroyEntity, LoadEntityAnywhere, Loaded,
         LoadFailed, Call, Ask, history
    <2>10. ASSUME UNCHANGED cvars PROVE misled' = misled
      BY <2>10 DEF cvars, history
    <2> QED BY <2>1, <2>2, <2>3, <2>4, <2>5, <2>6, <2>7, <2>8, <2>9, <2>10 DEF CNext
  <1>5. Calm
    BY <1>4 DEF CopyInv
  <1>6. ASSUME NEW c \in Conn, Serve(c) PROVE Calm'
    BY <1>1, <1>2, <1>3, <1>5, <1>6, ServeCalm
  <1>7. ASSUME NEW c \in Conn, Disconnected(c) PROVE Calm'
    BY <1>1, <1>2, <1>5, <1>7, DisconnectedCalm
  <1>8. ASSUME NEW e \in Entity, EntityTimeout(e) PROVE Calm'
    BY <1>1, <1>2, <1>5, <1>8, EntityTimeoutCalm
  <1>9. ASSUME NEW g \in Game, GameTimeout(g) \/ BreakConn(g) PROVE Calm'
    BY <1>3, <1>9 DEF GameTimeout, BreakConn
  <1>10. ASSUME NEW g \in Game, Connect(g) PROVE Calm'
    BY <1>1, <1>2, <1>5, <1>10, ConnectCalm
  <1>11. ASSUME NEW g \in Game, TakeSnapshot(g) PROVE Calm'
    BY <1>1, <1>2, <1>5, <1>11, TakeSnapshotCalm
  <1>12. ASSUME NEW g \in Game, Register(g) PROVE Calm'
    BY <1>1, <1>2, <1>5, <1>12, RegisterCalm
  <1>13. ASSUME NEW g \in Game, Start(g) PROVE Calm'
    BY <1>1, <1>2, <1>5, <1>13, StartCalm
  <1>14. ASSUME NEW g \in Game, Crash(g) \/ DoFreeze(g) PROVE Calm'
    BY <1>1, <1>2, <1>5, <1>14, EndingCalm
  <1>15. ASSUME NEW g \in Game,
                \/ FreezeFails(g) \/ StartFreeze(g)
                \/ \E e \in Entity : LoadEntityAnywhere(g, e) \/ Call(g, e)
         PROVE  Calm'
    BY <1>1, <1>2, <1>5, <1>15, AskedCalm
  <1>16. ASSUME NEW g \in Game, HandlePacket(g) PROVE Calm'
    BY <1>1, <1>2, <1>5, <1>16, HandleCalm
  <1>17. ASSUME NEW g \in Game, NEW e \in Entity, CreateEntity(g, e) PROVE Calm'
    BY <1>1, <1>2, <1>5, <1>17, CreateEntityCalm
  <1>18. ASSUME NEW g \in Game, NEW e \in Entity, CreateEntitySomewhere(g, e) PROVE Calm'
    BY <1>1, <1>2, <1>5, <1>18, CreateSomewhereCalm
  <1>19. ASSUME NEW g \in Game, NEW e \in Entity, DestroyEntity(g, e) PROVE Calm'
    BY <1>1, <1>2, <1>5, <1>19, DestroyEntityCalm
  <1>20. ASSUME NEW g \in Game, NEW e \in Entity, Loaded(g, e) PROVE Calm'
    BY <1>1, <1>2, <1>5, <1>20, LoadedCalm
  <1>21. ASSUME NEW g \in Game, NEW e \in Entity, LoadFailed(g, e) PROVE Calm'
    BY <1>1, <1>2, <1>5, <1>21, LoadFailedCalm
  <1>22. ASSUME UNCHANGED cvars PROVE Calm'
    <2>1. Now' = Now /\ inbox' = inbox /\ used' = used
          /\ UNCHANGED <<edi, gdi, id, link, wire, proc, live, loading, dump, cur, reg, snap>>
      BY <1>22 DEF cvars, vars, gameVars, Now
    <2> QED BY <1>5, <2>1, StutterCalm
  <1> QED BY <1>6, <1>7, <1>8, <1>9, <1>10, <1>11, <1>12, <1>13, <1>14, <1>15, <1>16, <1>17, <1>18,
             <1>19, <1>20, <1>21, <1>22 DEF CNext

LEMMA CopyInit == CInit => CopyInv
  <1> SUFFICES ASSUME CInit PROVE CopyInv
    OBVIOUS
  <1>1. Peers /\ Records
    BY ClusterInit DEF ClusterInv
  <1>2. \A g \in Game : /\ proc[g] = "down" /\ live[g] = {} /\ dump[g] = {} /\ cur[g] = None
                        /\ reg[g] = "off" /\ \A e \in Entity : loading[g][e] = 0
    BY DEF CInit
  <1>3. /\ \A c \in Conn : inbox[c] = <<>> /\ wire[c] = <<>> /\ id[c] = None
        /\ \A g \in Game : gdi[g].pending = <<>> /\ gdi[g].clientProxy = None
        /\ \A e \in Entity : edi[e].pending = <<>> /\ edi[e].gameid = None
    BY DEF CInit, Init, NoGameInfo, NoEntityInfo
  <1>4. \A g \in Game : Sent(g) = <<>> /\ Got(g) = <<>> /\ Wait(g) = <<>>
    BY <1>2, <1>3 DEF Sent, Got, Wait
  <1>5. \A K, e : At(<<>>, K, e) = {} /\ Acks(<<>>) = {}
    BY AtEmpty
  <1>6. \A g \in Game, e \in Entity :
          /\ Bids(Got(g), e) = {} /\ Bids(Wait(g), e) = {} /\ Notes(Sent(g), e) = {} /\ Ends(Sent(g), e) = {}
          /\ ~ Listed(g, e) /\ ~ Has(g, e) /\ ~ Loads(g, e)
    <2> TAKE g \in Game, e \in Entity
    <2>1. reg[g] = "off"
      BY <1>2
    <2>2. ~ Listed(g, e)
      BY <1>4, <2>1, Quiets
    <2> QED BY <1>2, <1>4, <1>5, <2>2 DEF Bids, Notes, Ends, Has, Loads
  <1>7. \A g \in Game, e \in Entity : ~ Claims(g, e) /\ ~ Coming(g, e)
    BY <1>6 DEF Claims, Coming
  <1>8. \A g \in Game, e \in Entity : Alone(g, e)
    <2> TAKE g \in Game, e \in Entity
    <2>1. loading[g][e] = 0 /\ loading[g][e] <= 1
      BY <1>2
    <2>2. ~ Has(g, e) /\ ~ Loads(g, e) /\ ~ Coming(g, e)
      BY <1>6, <1>7
    <2>3. Bids(Got(g), e) = {} /\ Bids(Wait(g), e) = {} /\ Ends(Sent(g), e) = {}
      BY <1>6
    <2>4. One(Bids(Got(g), e)) /\ One(Bids(Wait(g), e)) /\ One(Ends(Sent(g), e))
      BY <2>3 DEF One
    <2> QED BY <2>1, <2>2, <2>3, <2>4 DEF Alone
  <1>9. \A g \in Game, e \in Entity : Found(g, e) /\ InOrder(g, e) /\ Absent(g, e)
    BY <1>6, <1>7 DEF Found, InOrder, Absent
  <1>10. \A e \in Entity : Unborn(e)
    <2>1. \A c \in Conn : \A K, e : At(inbox[c], K, e) = {}
      BY <1>3, <1>5
    <2> QED BY <1>3, <1>7, <2>1 DEF Unborn, Makes
  <1>11. \A g \in Game : Freezes(g) /\ Lives(g) /\ First(g)
    <2> TAKE g \in Game
    <2>1. Acks(Got(g)) = {} /\ Acks(Wait(g)) = {}
      BY <1>4, <1>5
    <2> QED BY <1>2, <2>1 DEF Freezes, Lives, First, Running
  <1>12. Linked
    <2>1. \A g \in Game : cur[g] = None /\ gdi[g].clientProxy = None
      BY <1>2, <1>3
    <2> QED BY <2>1 DEF Linked
  <1>13. Lines
    <2>1. <<>> \in Seq(Light) /\ Len(<<>>) = 0
      OBVIOUS
    <2>2. \A c \in Conn : \A i \in 1 .. Len(inbox[c]) : inbox[c][i].type \in Said
      <3> SUFFICES ASSUME NEW c \in Conn, NEW i \in 1 .. Len(inbox[c]) PROVE FALSE
        OBVIOUS
      <3>1. Len(inbox[c]) = 0
        BY <1>3, <2>1
      <3> QED BY <3>1
    <2>3. \A e \in Entity : edi[e].pending \in Seq(Light)
      <3> TAKE e \in Entity
      <3>1. edi[e].pending = <<>>
        BY <1>3
      <3> QED BY <3>1, <2>1
    <2>4. \A c \in Conn : link[c] = "unused" => inbox[c] = <<>> /\ wire[c] = <<>> /\ id[c] = None
      BY <1>3
    <2> QED BY <1>12, <2>2, <2>3, <2>4 DEF Lines
  <1>14. Calm
    BY <1>7, <1>8, <1>9, <1>10, <1>11, <1>13 DEF Calm, Apart
  <1> QED BY <1>1, <1>14 DEF CopyInv

LEMMA CopyView == CopyInv => SingleCopy
  <1> SUFFICES ASSUME CopyInv, ~ misled, NEW g \in Game, NEW h \in Game, g # h
               PROVE  live[g] \cap (live[h] \cup dump[h]) = {}
    BY DEF SingleCopy
  <1>1. Apart /\ live \in [Game -> SUBSET Entity]
    BY CalmParts DEF CopyInv, Peers
  <1>2. ASSUME NEW e \in live[g], e \in live[h] \cup dump[h] PROVE FALSE
    <2>1. e \in Entity /\ Has(g, e) /\ Has(h, e)
      BY <1>1, <1>2 DEF Has
    <2>2. Claims(g, e) /\ Claims(h, e)
      BY <2>1 DEF Claims
    <2> QED BY <1>1, <2>1, <2>2 DEF Apart
  <1> QED BY <1>2

-----------------------------------------------------------------------------
(* Theorems about the cluster                                               *)

\* The cluster implements the dispatcher's specification: what games send, from
\* SET_GAME_ID with its list of entities to REAL_MIGRATE, and what connections
\* lose, is traffic for which the dispatcher's promises hold.
THEOREM ClusterImplements == CSpec => DispatcherSpec
<1>1. CInit => Init
  BY DEF CInit
<1>2. Peers /\ [CNext]_cvars => Peers'
  BY ClusterStep
<1>3. Peers /\ [CNext]_cvars => [Next]_vars
  BY ClusterStep
<1> QED BY <1>1, <1>2, <1>3, InitPeers, PTL DEF CSpec, DispatcherSpec, Spec

\* What the dispatcher promises to any peers holds in the cluster: nothing is held
\* without a block or a reason, proxies match identities, and calls keep their order.
THEOREM ClusterKeepsPromises ==
  CSpec => [](PendingOnlyWhileBlocked /\ ProxyIdentity /\ HeldForAReason /\ CallOrder)
<1>1. CSpec => Spec
  BY ClusterImplements DEF DispatcherSpec
<1> QED BY <1>1, NothingForgotten, ProxiesIdentified, HeldOnlyForAReason, CallsInOrder, PTL

\* The cluster's state is well formed, in every state of any cluster; in particular
\* a game executes only calls the dispatcher took, and every counter stays within its
\* bound.  The queues of the dispatcher have to be followed for that: each call under
\* way or held is one that HandleCallEntityMethod took.
THEOREM ClusterTyped == CSpec => []CTypeOK
<1>1. ClusterInv /\ [CNext]_cvars => ClusterInv'
  BY ClusterStep, BudgetStep, RecordsStep, CallsStep DEF ClusterInv
<1> QED BY <1>1, ClusterInit, ClusterTypes, PTL DEF CSpec

\* A game that has read all it was sent knows exactly the games that are connected (one
\* that is being reloaded may be in its set or not), and misses no deployment that is
\* ready, in whatever order the acks and notices of handleSetGameID, handleGameDown and
\* checkDeploymentReady were sent, held and read, and whichever games froze, crashed or
\* lost their connections meanwhile.  The dispatcher has to be able to hold a packet for a
\* game (GAME_PENDING_PACKET_QUEUE_MAX_LEN is a million): where it holds none, a notice
\* is lost without trace.
THEOREM ViewsConverge == GameQueueMax # 0 => (CSpec => []ClusterView)
<1> SUFFICES ASSUME GameQueueMax # 0 PROVE CSpec => []ClusterView
  OBVIOUS
<1>1. SightInv /\ [CNext]_cvars => SightInv'
  BY SightStep
<1> QED BY <1>1, SightInit, SightView, PTL DEF CSpec

\* No entity is on two games, running there or in the file of a frozen one, whatever
\* games create, load, destroy, freeze, restore or lose in a crash, and wherever
\* HandleLoadEntitySomewhere and HandleCreateEntitySomewhere send them, as long as nothing
\* misled the dispatcher: no running game lost its connection, no freeze outlasted its
\* block, no game was heard of late (Late), no load overtook a creation (Early), and none
\* was for a game that turned out to be down (Lost).  Games and dispatcher may disagree
\* for long all the same: a copy counts from the load or creation that is on its way, held
\* for a frozen game or waiting for the storage until the notice of its end is read.
THEOREM OneCopyEach == CSpec => []SingleCopy
<1>1. CopyInv /\ [CNext]_cvars => CopyInv'
  BY CopyStep
<1> QED BY <1>1, CopyInit, CopyView, PTL DEF CSpec

\* On every game, a space and its entities agree on who is in it, whatever entities
\* ask for, however they migrate, and whichever games freeze, restart or crash.
THEOREM SpacesAgree == MSpec => []MembersAgree
<1>1. MigrationInv => MembersAgree
  BY DEF MigrationInv, Housing, Housed, MembersAgree
<1> QED BY <1>1, MigrationInit, MigrationStep, PTL DEF MSpec

=============================================================================
