------------------------------ MODULE Migration ------------------------------
(***************************************************************************)
(* Entities that move between spaces: within a game, and by migration from *)
(* the game they are on to the game of the space, while calls to them are  *)
(* under way, games are frozen and restored, and entities and spaces are   *)
(* destroyed (engine/entity/Entity.go, Space.go, EntityManager.go).        *)
(*                                                                         *)
(* Every game also has a nil space, in which an entity is when it is in no *)
(* other; the nil spaces are left out.                                     *)
(***************************************************************************)
EXTENDS Cluster, Functions

CONSTANTS
  Space,        \* the spaces, entities themselves
  Home,         \* [Entity -> Game] : where each entity is created
  FirstConn,    \* [Game -> Conn] : the connection each game has at first
  MaxEnters,    \* bound: requests to enter a space
  MaxExpiries   \* bound: requests that are answered too late

ASSUME MigrationAssumption ==
  /\ Space \subseteq Entity
  /\ Home \in [Entity -> Game] /\ FirstConn \in [Game -> Conn]
  /\ \A g, h \in Game : g # h => FirstConn[g] # FirstConn[h]
  /\ MaxEnters \in Nat /\ MaxExpiries \in Nat

VARIABLES
  spaceOf,   \* [Game -> [Entity -> Space or None]] : e.Space, None for a nil space
  members,   \* [Game -> [Space -> entities]] : space.entities
  ghosts,    \* [Game -> [Space -> entities]] : the destroyed ones among them
  request,   \* [Game -> [Entity -> ...]] : e.enteringSpaceRequest
  posted,    \* [Game -> <<entity, space>> or None] : what enterLocalSpace posted
  flying,    \* [Entity -> Space or None] : the space in the data of REAL_MIGRATE
  gone,      \* history: entities destroyed
  expired,   \* history: a dispatcher's migrate block has timed out
  crossed,   \* history: a freeze has come in the middle of a migration
  limits     \* what remains of MaxEnters and MaxExpiries

moveVars == <<spaceOf, members, ghosts, request, posted>>
mvars == <<cvars, moveVars, flying, gone, expired, crossed, limits>>

Mobile == Entity \ Space
NoRequest == [space |-> None, entering |-> FALSE, sent |-> FALSE]

\* A game is in the main loop, its posted functions done: post.Tick runs them
\* before the next packet or tick.
AtLoop(g) == Running(g) /\ posted[g] = None

-----------------------------------------------------------------------------
(* Spaces                                                                  *)

\* What is destroyed with some entities: spaces take their members along.
WithMembers(g, S) == S \cup UNION {members[g][s] : s \in S \cap Space}

\* Mutant: the spaces that stay keep their members.
LeaveMutant(g, S) ==
  /\ spaceOf' = [spaceOf EXCEPT ![g] = [e \in Entity |-> IF e \in S THEN None ELSE @[e]]]
  /\ members' = [members EXCEPT ![g] = [s \in Space |-> IF s \in S THEN {} ELSE @[s]]]
  /\ ghosts' = [ghosts EXCEPT ![g] = [s \in Space |-> IF s \in S THEN {} ELSE @[s]]]
  /\ request' = [request EXCEPT ![g] =
                   [e \in Entity |-> IF e \in S THEN NoRequest ELSE @[e]]]

\* Space.leave for entities that go, and the end of the spaces among them.
Leave(g, S) ==
  /\ spaceOf' = [spaceOf EXCEPT ![g] = [e \in Entity |-> IF e \in S THEN None ELSE @[e]]]
  /\ members' = [members EXCEPT ![g] =
                   [s \in Space |-> IF s \in S THEN {} ELSE @[s] \ S]]
  /\ ghosts' = [ghosts EXCEPT ![g] = [s \in Space |-> IF s \in S THEN {} ELSE @[s]]]
  /\ request' = [request EXCEPT ![g] =
                   [e \in Entity |-> IF e \in S THEN NoRequest ELSE @[e]]]

\* Space.enter of a new copy of e, or of one that has left its space.
Enter(g, e, s) ==
  /\ spaceOf' = [spaceOf EXCEPT ![g][e] = s]
  /\ members' = [members EXCEPT ![g] =
                   [t \in Space |-> IF t = s THEN @[t] \cup {e} ELSE @[t] \ {e}]]

\* Entity.Destroy; a space first destroys its members.
Destroy(g, e) ==
  LET S == WithMembers(g, {e})
  IN /\ Running(g) /\ e \in live[g] /\ Spend("destroy")
     /\ live' = [live EXCEPT ![g] = @ \ S]
     /\ Tell(g, DestroyNotices(S \ {e}) \o <<[type |-> "destroy", entity |-> e]>>)
     /\ Leave(g, S)
     /\ gone' = gone \cup S
     /\ UNCHANGED <<vars, proc, loading, dump, cur, reg, snap, online, deployed, used, history>>
     /\ UNCHANGED <<posted, flying, expired, crossed, limits>>

-----------------------------------------------------------------------------
(* Entering a space                                                        *)

\* A request gets the time of day; whether it was sent to the dispatcher in an
\* earlier attempt is not reset.
Requested(g, e, s) ==
  request' = [request EXCEPT ![g][e] = [@ EXCEPT !.space = s, !.entering = TRUE]]

\* EnterSpace, for an entity that is not entering a space already.
EnterSpace(g, e, s) ==
  /\ AtLoop(g) /\ e \in live[g] \cap Mobile /\ ~request[g][e].entering
  /\ s # spaceOf[g][e]
  /\ limits.enter > 0 /\ limits' = [limits EXCEPT !.enter = @ - 1]
  /\ Requested(g, e, s)
  /\ \/ s \in live[g] /\ posted' = [posted EXCEPT ![g] = <<e, s>>] /\ UNCHANGED inbox
     \/ /\ s \notin live[g] /\ UNCHANGED posted
        /\ Tell(g, <<[type |-> "query", entity |-> e, space |-> s]>>)
  /\ UNCHANGED <<vars, gameVars, used, history, budget, spaceOf, members, ghosts>>
  /\ UNCHANGED <<flying, gone, expired, crossed>>

\* Mutant: the dispatcher is not told.
CancelMutant(g, e) ==
  /\ request' = [request EXCEPT ![g][e] = NoRequest]
  /\ UNCHANGED inbox

\* cancelEnterSpace
Cancel(g, e) ==
  /\ request' = [request EXCEPT ![g][e] = NoRequest]
  /\ Tell(g, IF request[g][e].sent THEN <<[type |-> "cancel", entity |-> e]>> ELSE <<>>)

\* The posted function of enterLocalSpace. It looks at the space, but not at
\* the entity: one destroyed meanwhile enters all the same.
EnterLocalSpace(g) ==
  /\ Running(g) /\ posted[g] # None
  /\ posted' = [posted EXCEPT ![g] = None]
  /\ LET e == posted[g][1]  s == posted[g][2]
     IN /\ Cancel(g, e)
        /\ \/ s \notin live[g] /\ UNCHANGED <<spaceOf, members, ghosts>>
           \/ s \in live[g] /\ e \in live[g] /\ Enter(g, e, s) /\ UNCHANGED ghosts
           \/ /\ s \in live[g] /\ e \notin live[g]
              /\ ghosts' = [ghosts EXCEPT ![g][s] = @ \cup {e}]
              /\ UNCHANGED <<spaceOf, members>>
  /\ UNCHANGED <<vars, gameVars, used, history, budget, flying, gone, expired, crossed, limits>>

\* An answer counts if the entity is still there and entering that space.
Awaited(g, e, s) ==
  e \in live[g] /\ request[g][e].entering /\ request[g][e].space = s

OnQuerySpaceGameIDForMigrateAck(g, e, s, h) ==
  /\ \/ /\ ~Awaited(g, e, s) /\ UNCHANGED <<request, inbox>>
     \/ Awaited(g, e, s) /\ h = None /\ Cancel(g, e)
     \/ /\ Awaited(g, e, s) /\ h # None
        /\ request' = [request EXCEPT ![g][e].sent = TRUE]
        /\ Tell(g, <<[type |-> "migrate", entity |-> e, space |-> s, game |-> h]>>)
  /\ UNCHANGED <<live, spaceOf, members, ghosts, flying>>

\* Mutant: the entity stays when its data is sent.
OnMigrateRequestAckMutant(g, e, s, h) ==
  /\ \/ ~Awaited(g, e, s) /\ UNCHANGED <<inbox, spaceOf, members, ghosts, request, flying>>
     \/ /\ Awaited(g, e, s)
        /\ Leave(g, {e})
        /\ flying' = [flying EXCEPT ![e] = s]
        /\ Tell(g, <<[type |-> "real", entity |-> e, game |-> h]>>)
  /\ UNCHANGED live

\* realMigrateTo: the data of the entity, the end of the entity, REAL_MIGRATE.
OnMigrateRequestAck(g, e, s, h) ==
  \/ /\ ~Awaited(g, e, s)
     /\ UNCHANGED <<live, inbox, spaceOf, members, ghosts, request, flying>>
  \/ /\ Awaited(g, e, s)
     /\ live' = [live EXCEPT ![g] = @ \ {e}]
     /\ Leave(g, {e})
     /\ flying' = [flying EXCEPT ![e] = s]
     /\ Tell(g, <<[type |-> "real", entity |-> e, game |-> h]>>)

\* OnRealMigrate panics if the entity is there; a space that is not leaves it
\* in the nil space.
OnRealMigrate(g, e) ==
  LET s == flying[e]
  IN /\ UNCHANGED <<inbox, ghosts, request>>
     /\ \/ e \in live[g] /\ UNCHANGED <<live, spaceOf, members, flying>>
        \/ /\ e \notin live[g]
           /\ live' = [live EXCEPT ![g] = @ \cup {e}]
           /\ flying' = [flying EXCEPT ![e] = None]
           /\ IF s \in live[g] THEN Enter(g, e, s) ELSE UNCHANGED <<spaceOf, members>>

MigrationTypes == {"spaceGame", "migrateAck", "realMigrate"}

HandleMigration(g) ==
  /\ AtLoop(g) /\ cur[g] # None
  /\ Read(cur[g])
  /\ LET p == Head(wire[cur[g]])
     IN \/ /\ p.type = "spaceGame"
           /\ OnQuerySpaceGameIDForMigrateAck(g, p.entity, p.space, p.game)
        \/ /\ p.type = "migrateAck"
           /\ OnMigrateRequestAck(g, p.entity, p.space, p.game)
        \/ p.type = "realMigrate" /\ OnRealMigrate(g, p.entity)
  /\ UNCHANGED <<proc, loading, dump, cur, reg, snap, online, deployed, used, history>>
  /\ crossed' = (crossed \/ (gdi[g].isBlocked /\ live'[g] # live[g] /\ live'[g] \subseteq live[g]))
  /\ UNCHANGED <<budget, posted, gone, expired, limits>>

\* Any other packet, as in Cluster; a rejected space takes its members along.
HandleOther(g) ==
  /\ AtLoop(g) /\ cur[g] # None
  /\ Read(cur[g])
  /\ LET p    == Head(wire[cur[g]])
         dead == IF p.type = "setGameIDAck" THEN WithMembers(g, p.reject \cap live[g]) ELSE {}
     IN /\ p.type \notin MigrationTypes
        /\ Handle(g, IF dead = {} THEN p ELSE [p EXCEPT !.reject = dead])
        /\ Leave(g, dead)
        /\ gone' = gone \cup dead
  /\ UNCHANGED <<dump, cur, reg, snap, used, budget, posted, flying, expired, crossed, limits>>

-----------------------------------------------------------------------------
(* Time                                                                    *)

\* Two minutes have passed since the request: it no longer counts, nor keeps
\* the entity from entering another space.
RequestExpires(g, e) ==
  /\ Running(g) /\ request[g][e].entering /\ posted[g] = None
  /\ limits.expiry > 0 /\ limits' = [limits EXCEPT !.expiry = @ - 1]
  /\ request' = [request EXCEPT ![g][e].entering = FALSE]
  /\ UNCHANGED <<cvars, spaceOf, members, ghosts, posted, flying, gone, expired, crossed>>

BlockExpires(e) ==
  /\ EntityTimeout(e)
  /\ limits.expiry > 0 /\ limits' = [limits EXCEPT !.expiry = @ - 1]
  /\ expired' = TRUE
  /\ UNCHANGED <<moveVars, flying, gone, crossed>>

-----------------------------------------------------------------------------
(* Freeze, restore, crash                                                  *)

NoSpaces(g) ==
  /\ members' = [members EXCEPT ![g] = [s \in Space |-> {}]]
  /\ ghosts' = [ghosts EXCEPT ![g] = [s \in Space |-> {}]]
  /\ request' = [request EXCEPT ![g] = [e \in Entity |-> NoRequest]]
  /\ posted' = [posted EXCEPT ![g] = None]

\* doFreeze: the data of an entity holds its space, but no request.
Freeze(g) ==
  /\ posted[g] = None
  /\ DoFreeze(g)
  /\ NoSpaces(g)
  /\ crossed' = (crossed \/ \E e \in live[g] : request[g][e].sent)
  /\ UNCHANGED <<spaceOf, flying, gone, expired, limits>>

\* RestoreFreezedEntities: spaces first, then the others enter theirs.
Restore(g) ==
  /\ Start(g)
  /\ members' = [members EXCEPT ![g] =
                   [s \in Space |-> {e \in dump[g] : s \in dump[g] /\ spaceOf[g][e] = s}]]
  /\ spaceOf' = [spaceOf EXCEPT ![g] =
                   [e \in Entity |-> IF e \in dump[g] /\ @[e] \in dump[g] THEN @[e] ELSE None]]
  /\ UNCHANGED <<ghosts, request, posted, flying, gone, expired, crossed, limits>>

Crashes(g) ==
  /\ Crash(g)
  /\ NoSpaces(g)
  /\ spaceOf' = [spaceOf EXCEPT ![g] = [e \in Entity |-> None]]
  /\ UNCHANGED <<flying, gone, expired, crossed, limits>>

-----------------------------------------------------------------------------
\* The deployment is up: every game connected, and its entities known.
MInit ==
  /\ edi = [e \in Entity |-> [NoEntityInfo EXCEPT !.known = TRUE, !.gameid = Home[e]]]
  /\ gdi = [g \in Game |-> [NoGameInfo EXCEPT !.known = TRUE, !.clientProxy = FirstConn[g]]]
  /\ gates = [t \in Gate |-> None]
  /\ id = [c \in Conn |-> IF \E g \in Game : FirstConn[g] = c
                          THEN CHOOSE g \in Game : FirstConn[g] = c ELSE None]
  /\ link = [c \in Conn |-> IF id[c] = None THEN "unused" ELSE "open"]
  /\ wire = [c \in Conn |-> <<>>]
  /\ ready = TRUE /\ syncs = {} /\ msgs = 0
  /\ proc = [g \in Game |-> "running"]
  /\ live = [g \in Game |-> {e \in Entity : Home[e] = g}]
  /\ loading = [g \in Game |-> [e \in Entity |-> 0]]
  /\ dump = [g \in Game |-> {}]
  /\ cur = FirstConn
  /\ reg = [g \in Game |-> "registered"]
  /\ snap = [g \in Game |-> {}]
  /\ inbox = [c \in Conn |-> <<>>]
  /\ online = [g \in Game |-> Game] /\ deployed = [g \in Game |-> TRUE]
  /\ used = Entity
  /\ accepted = {} /\ executed = {} /\ misled = FALSE
  /\ budget = Limits
  /\ spaceOf = [g \in Game |-> [e \in Entity |-> None]]
  /\ members = [g \in Game |-> [s \in Space |-> {}]]
  /\ ghosts = [g \in Game |-> [s \in Space |-> {}]]
  /\ request = [g \in Game |-> [e \in Entity |-> NoRequest]]
  /\ posted = [g \in Game |-> None]
  /\ flying = [e \in Entity |-> None]
  /\ gone = {} /\ expired = FALSE /\ crossed = FALSE
  /\ limits = [enter |-> MaxEnters, expiry |-> MaxExpiries]

\* What Cluster does that moves nothing; a freeze neither fails nor takes the ten
\* seconds after which the dispatcher would no longer wait for it.
Unmoved ==
  /\ \/ \E c \in Conn : Serve(c) \/ Disconnected(c)
     \/ \E g \in Game :
          \/ Connect(g) \/ TakeSnapshot(g) \/ Register(g) \/ BreakConn(g)
          \/ posted[g] = None /\ StartFreeze(g)
          \/ \E e \in Mobile : posted[g] = None /\ Call(g, e)
  /\ UNCHANGED <<moveVars, flying, gone, expired, crossed, limits>>

MNext ==
  \/ Unmoved
  \/ \E g \in Game :
       \/ HandleMigration(g) \/ HandleOther(g) \/ EnterLocalSpace(g)
       \/ Freeze(g) \/ Restore(g) \/ Crashes(g)
       \/ \E e \in Entity :
            \/ Destroy(g, e) \/ RequestExpires(g, e)
            \/ \E s \in Space : EnterSpace(g, e, s)
  \/ \E e \in Entity : BlockExpires(e)

MSpec == MInit /\ [][MNext]_mvars

-----------------------------------------------------------------------------
(* Properties                                                              *)

\* Where a copy of e is: in a game, in its freeze file, or as the data of a
\* REAL_MIGRATE on the way to the dispatcher, held there, or on the way on.
Copies(e) ==
  LET real(q) == Len(SelectSeq(q, LAMBDA m : m.type \in {"real", "realMigrate"} /\ m.entity = e))
      sum(f) == FoldFunctionOnSet(+, 0, f, DOMAIN f)
  IN   sum([g \in Game |-> Cardinality({e} \cap live[g]) + Cardinality({e} \cap dump[g])
                           + real(gdi[g].pending)])
     + sum([c \in Conn |-> real(inbox[c]) + real(wire[c])])

\* There is never more than one copy of an entity, and without a crash or a lost
\* connection always one, unless it was destroyed: not in the middle of a
\* migration, not when a freeze comes in between (realMigrateTo, OnRealMigrate).
OneCopy ==
  \A e \in Mobile : /\ Copies(e) <= 1
                    /\ budget.failure = MaxFailures /\ e \notin gone => Copies(e) = 1

\* A space and an entity agree on whether the one is in the other, and no entity
\* is in two (Space.enter, Space.leave, restoreEntity).
MembersAgree ==
  \A g \in Game : Running(g) => \A s \in Space :
    members[g][s] = {e \in live[g] : s \in live[g] /\ spaceOf[g][e] = s}

\* Every message and packet has been handled, with no failure, no migrate block
\* that timed out, no entity destroyed.
Settled ==
  /\ \A c \in Conn : inbox[c] = <<>> /\ link[c] # "closed"
  /\ \A g \in Game : UpToDate(g) /\ proc[g] = "running" /\ posted[g] = None
  /\ ~expired /\ gone = {} /\ budget.failure = MaxFailures

\* Once everything is handled, a call waits for an entity only while its game
\* remembers to have asked for a migration, and so can end the block; every other
\* call that was taken has been executed: the calls held while their entity
\* migrates follow it. It takes that no freeze comes in the middle: an entity may
\* migrate out of a game that is freezing, and a freeze drops the requests of its
\* entities, so that nobody ends their migrate blocks.
CallsFollow ==
  Settled /\ ~crossed =>
    \/ executed = accepted
    \/ \E g \in Game : \E e \in live[g] : edi[e].pending # <<>> /\ request[g][e].sent
=============================================================================
