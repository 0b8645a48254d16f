# A verification development of GoWorld

GoWorld is a distributed game server: *game* processes hold entities and
spaces, *gates* hold client connections, *dispatchers* route every message
between them. This directory holds TLA+ models of its core, the TLC
configurations that check them on small instances, and TLAPS proofs of the main
safety properties of dispatcher, games, gate, services, storage and jobs, packets, timers and
publish/subscribe for every size of the system. Paths below are relative to the repository's root.

    tlc -workers 2 -config MCDispatcher.cfg MCDispatcher
    tlapm DispatcherProofs.tla

## 1. The system

| Component | State | Operations | Talks to |
|---|---|---|---|
| dispatcher (`components/dispatcher`) | route, block and held packets per entity; connection, freeze block and held packets per game; gate connections; sync cache; deployment ready; service registry; load heap | one handler per message type, run one at a time by `messageLoop`; a tick that runs posted functions and flushes the sync cache | games and gates, one TCP connection each |
| game (`components/game`) | run state, online games, deployment ready | handlers of dispatcher packets, ticks, posted callbacks, signals (freeze, terminate) | dispatchers; storage and kvdb through queues |
| entities and spaces (`engine/entity`) | per entity: attributes, timers, space, client, entering-space request; per space: its members | create, load, destroy, call, enter space, migrate, freeze, restore; attribute and timer operations | dispatcher, clients (change notices) |
| dispatcher client (`engine/dispatchercluster`) | current connection of each dispatcher, isReconnect | connect, announce (SET_GAME_ID with the entity list), receive, reconnect after a second | dispatchers |
| gate (`components/gate`) | client proxies, filter trees, batched sync packets | client connect/disconnect, forward calls, filtered broadcasts, heartbeat | clients, dispatchers |
| services (`engine/service`, `engine/srvdis`) | registry of service shards | check and register, create missing service entities | dispatchers |
| storage (`engine/storage`) | operation queue, engine, records | save (retried), load, exists, list, shutdown | database; callbacks posted to the main routine |
| jobs (`engine/async`, `kvdb`, `rank`, `ext/db`) | job groups with a worker each, engines and sessions | append, run, drain; get, put, get-or-put, range, ranking | databases; callbacks posted |
| publish/subscribe (`ext/pubsub`) | trie of subjects, maps per subscriber, attributes | subscribe, unsubscribe, publish, freeze, restore | entities (calls) |
| packets (`engine/netutil`, `engine/proto`) | reference counts, payload buffers and their pools, pending packets per connection | allocate, append, receive, send, release; a flush goroutine per connection that compresses and writes | sockets |

Hard behaviour, by kind (the list with lines is `hazards` in PROJECT.json):

- **Interleaving.** Every process has one main loop, but connections are served
  by goroutines. The dispatcher learns of a lost connection through a posted
  function, so a disconnect overtakes, or is overtaken by, messages of the same
  connection; a game lists its entities for SET_GAME_ID in the receive
  goroutine while the main loop creates and destroys them; packets are shared by the
  main goroutine and the flush goroutines of the connections they are sent to.
- **Failure.** Games crash, connections break and come back, a freeze fails
  half-way, a load or a save fails, a database connection is lost.
- **Ordering.** Calls are held per entity (load, migrate) and per game (freeze);
  each of the ways a block ends has to send what was held before anything newer.
- **Timeouts.** Blocks end lazily, when the next packet finds them expired; an
  entering-space request outlives the dispatcher's block for it.
- **Moving house.** Attributes, timers, subscriptions and members of spaces are dumped
  by a freeze or a migration and built anew elsewhere, and sometimes the freeze fails and
  the dumped entity lives on.

What makes each component correct:

- dispatcher: held packets are never forgotten or overtaken; a game's proxy is a
  live announcement of that game; stale disconnects do no harm; a freeze keeps
  routes and packets, any other disconnect drops the routes.
- game: one copy of an entity in the cluster; a reload loses no call; the view of
  online games and of deployment ready converges.
- migration: an entity is neither doubled nor lost, spaces and entities agree, calls follow.
- entity: what clients see of the attributes is what they are; timers fire once, in
  time, and never at an entity that is gone.
- gate: a client has one owner, and notices reach it; filter trees agree with
  the clients' properties.
- services: one registered shard per id; a missing one is created in the end.
- storage and jobs: answers come in the order of the requests and see what was asked
  before; a game that exits has lost nothing.
- publish/subscribe: a set of subscriptions, whatever happens to the game.
- packets: what is written is what was sent; buffers are owned once.

## 2. Modules

| Module | Models | Rests on |
|---|---|---|
| `Dispatcher` | one dispatcher, with any peer sending any message | |
| `Cluster` | game processes with the dispatcher: connect, announce, create, load, destroy, call, freeze, restore, crash | `Dispatcher`; implements its `Spec` |
| `Migration` | entities and spaces: enter, leave, migrate, freeze and restore with members, time-outs | `Cluster` |
| `Clients` | who owns a client: gate, client, the game's entities, messages over several dispatchers | |
| `Services` | the service registry: games racing to host a service, crashes of games and dispatchers | |
| `Async` | what the queues of a game promise: answers in order, each at most once | |
| `Jobs` | job groups, posted functions, key-value database, ranking, database helpers | |
| `Storage` | the storage routine and its backends | `Jobs` |
| `Persistence` | the main routine over both, and the two ways a game stops | `Storage`; implements `Async` |
| `Attributes` | the attribute tree and the copies clients keep | |
| `Timers` | timers of an entity and the raw timers behind them | |
| `Entity` | both through freeze, migration, restore and destruction | `Attributes`, `Timers` |
| `Broker` | what publish/subscribe promises: a set of subscriptions | |
| `PubSub` | the service: trie, maps, attributes, reloads | implements `Broker` |
| `Packets` | packets, buffers, pools, connections with flush goroutines | |
| `DispatcherProofs`, `ClientsProofs`, `ServicesProofs`, `PubSubProofs`, `EntityProofs`, `PacketsProofs`, `PersistenceProofs` | theorems about the module of that name | TLAPS |
| `ClusterProofs` | theorems about `Cluster` and `Migration` | `DispatcherProofs`, which ends with what games have to know of the dispatcher |
| `MC...` | constants for TLC | |

### Dispatcher

The module is *open*: a connected peer may send any protocol message at any time.
That is the abstract specification of the system; `Cluster` refines it.

- `edi` is `entityDispatchInfos`, `gdi` is `games`, `gates`, `ready` and `syncs`
  are the fields of the same purpose; `id` is the gameid/gateid of a
  `dispatcherClientProxy`. `link` is the state of a connection as its serve
  goroutine will see it, `wire` what was written and not yet read.
- A block's time is `"zero"`, `"future"` or `"past"`: all the code compares.
- Each handler of DispatcherService.go is an action `Handle...`. A handler works on
  a snapshot of the routing state (`Now`), transforms it by operators that stand for
  the functions it calls (`Dispatch`, `Unblock`, `BlockRPC`, `GameDisconnected`...)
  and ends with `Commit`. `DispatchDown` is one handler's calls of
  `gameDispatchInfo.dispatchPacket`, which may find expired freezes and clean
  games up in the middle of a broadcast (`handleGameDown`).
- Several notices of games cleaned up in one handler are one packet with a set of
  games: the order within a broadcast is Go map order and no game can tell.
- Panics that lose a message (`games[gameid]` is nil) are modelled as the message
  having no effect; the panicking flush of the sync cache repeats.
- `chooseGame` is any game ever connected: the heap's order depends on CPU load.
- Not in the module: the service registry (see `Services`), client notices (see
  `Clients`), and packets that go to gates unchanged.

### Cluster

`Cluster` adds the game processes: `proc` (run state), `live` (entity map),
`loading` (storage loads in flight), `dump` (freeze file), `cur`/`reg`/`snap`
(progress of `assureConnected`), `inbox` (sent, not yet handled by the
dispatcher), `online`, `deployed`. Serving the oldest message of a connection is
the dispatcher's action on it; `HandlePacket` is the game's main loop on the oldest
packet it received. `Crash` loses any suffix of what was sent; `DoFreeze` flushes,
exits and keeps the file; `BreakConn` is a lost connection of a game that lives on.
`TakeSnapshot` lists the entities for SET_GAME_ID in one step, before the list is sent; what the
main loop does between the two is modelled, what it does during the walk is not (limit 14).

History variables: `accepted` and `executed` calls, and `misled`: something happened
after which the dispatcher may be wrong about where an entity lives. A running game lost its
connection; a freeze outlasted its block; a game was heard of after the disconnect of the
process that sent the message was handled, or after the game was started again (`Late`); a load overtook the
message that the entity is, or is to be, created (`Early`); the game a load was for turned out
to be down (`Lost`). What then happens is in limits 1, 12 and 13. There is one dispatcher: routing state is per entity
and entities are sharded, so dispatchers share nothing but the games.

`DispatcherSpec` is the refinement: the dispatcher's variables are the same, so it is
`Dispatcher!Spec` itself, and every step of the cluster must be a step of the open
specification or leave these variables alone.

### Migration

`Migration` extends the games of `Cluster` with their spaces. `spaceOf` is `e.Space`,
`members` is `space.entities` (with `ghosts`, the destroyed ones that the posted half of
`enterLocalSpace` may put there), `request` is `enteringSpaceRequest`, `posted` the
function `enterLocalSpace` posts, `flying` the space in the data of a REAL_MIGRATE. The
messages of the handshake (query space, migrate request, cancel, real migrate and their
answers) are handled by the dispatcher's own actions from `Dispatcher` and by
`HandleMigration` of the game. `RequestExpires` and `BlockExpires` are the two
minutes of the game and the one of the dispatcher. `expired`, `gone` and `crossed` are
history: they name the cases in which the code itself gives a claim up.

### Clients

One gate, one game, and as many dispatchers as wished: the point of the module is
that messages about one client take different dispatchers (`DispatcherOf`, by the
entity they are about), which keep no order among each other.

- `owner`, `prop` and `tree` are a proxy's `ownerEntityID`, its `filterProps` and the
  gate's `filterTrees`, for one property; `owner[c] = None` means that `c` is not in
  `clientProxies`. `posts` are functions posted by the connections' goroutines and
  run by `PostTick`. `view` is what the client itself was told.
- `Via(q, e, m)` is the queues `q` after `m` was written to the dispatcher of `e`; a
  handler that writes several packets nests it. `Release` and `Adopt` are the two halves of
  `SetClient`; `GiveClientTo` releases the old owner *on the way of the new one*,
  which is the trick of Entity.go:763.
- `Visit` follows FilterTree.Visit, range by range of the tree's order, and `Holds` is
  what the operators promise. Keys are doubled so that `NextLargerKey` is a key of
  its own.
- `route` is the part of the dispatchers' routing state that matters: a disconnect
  notice for an unrouted owner is dropped (DispatcherService.go:675).
- `Eager = FALSE` restricts `GiveClientTo` to clients whose owner the gate knows, as
  when the client itself asked for it (login, then handing over to an avatar).
  Limit 3 of section 5 is what happens without the restriction.

### Services

One service (they do not interact), its two registry entries, `"name"` and `"eid"`,
kept by the dispatchers that `DispatcherOfKey` names.

- `registry` is `srvdisRegisterMap` of all dispatchers, `srvmap` the copy of each game,
  `serviceMap` what `CallService` uses, `ents` the service entities on a game.
- `CheckServices` is checkServices: its three cases for local entities are
  `KeepLocal`, `CreateServiceEntity`/`ReportServiceEntity`/`DropOtherEntities`, and it may
  start the random delay after which `RegisterName` tries to take the service.
- A game is *ready* with the first acknowledgement it reads; how the dispatcher
  decides that the deployment is ready is in `Dispatcher` and `Cluster`.
- `GameCrash` cuts what the game had sent at any point, `DispatcherCrash` loses its part
  of the registry; both are limited by `MaxCrashes`.

### Async, Jobs, Storage, Persistence

Requests have numbers, in the order in which the main routine made them; a value
written is the number of the request that wrote it, so that an answer tells what it saw.
`operationQueue` and `jobs` hold the requests not answered; `callbacks` are posted answers;
`worker` is the state of a group's goroutine and channel. A backend is a record of what
the code relies on: which errors count as a lost connection, which reads answer a missing record
with an error (`missing`), when a list of IDs may come short and without an error (`cuts`),
whether keys of different hash names are apart (`KvMongodb`, `Redis`...). Files and MySQL cut
a list short by a fault, a Redis cluster at any time, MongoDB and a single Redis never
(`ListCutShort`, limit 10); `cut` is the history of such lists. `Stop`
to `Exit` follow doTerminate and doFreeze: posted functions, WaitClear, both again
until there were no workers, then destruction of the entities, and the signal goroutine's
shutdown of the storage. `Pending` and `log` map the queues to `Async`.

### Attributes, Timers, Entity

A document is a set of `<<path, leaf>>` pairs; `view` is the client's document as it
applies the notices, so a lost, misdirected or misplaced notice shows as a difference.
`owner`, `flag`, `parent`, `pkey` and `path` are the fields of a node. Four things a program
may do leave the code behind (`misused`: using a node after it was overwritten, setting a
node that hangs somewhere, appending a map that holds nodes, clearing the root); they
are in the model, and the properties are claimed until one happens.

`timers` and `raws` are the two faces of a timer: the entity's map by id and the heap of
the timer library. Time passes in units of 10 ms. `dumpTimers` leaves the map nil, as in
the code, which matters when the freeze fails (`FailedFreeze`). In `Entity` a step of the
main loop is an operation on either, and `Leaves`, `Returns` and `Destroyed` take both along.

### Broker, PubSub

`subs` is the trie: for each kind of subscription and subject the subscribers of its
node (`known` says which nodes exist); `avatar` the two maps by subscriber; `attrs` the
attributes that OnFreeze writes and OnRestored reads, never emptied in between. A subject
is a sequence of characters, so that "prefix" is what it is in the trie. `Held` is
the refinement mapping: the subscriptions in the trie, or in the freeze file. `Broker`
knows nothing of freezes: they must be invisible.

### Packets

A payload is a number with a size class: in the packet, in a buffer, in a buffer and
long enough to be compressed. `content` is what a buffer holds, so a buffer that is
reused too early shows another payload. Steps of the main goroutine are atomic between
calls; those of a flush goroutine are as fine as the accesses to what it shares
(`StartCompress`, `Compress`, `Reclaim`, `Swap`, `Write`). `Broadcast = FALSE` keeps packets
that may be compressed to one connection, as all traffic but a gate's filtered
calls is; `packets_broadcast` drops that. A write may fail, and the buffered writer then fails
for ever: `broken` is the connections on which one did. Flush ignores the error while it has
several packets, so the goroutine releases what it did not write, and ends (`Write`,
`ReleaseFlushed`, the guard of `Flush`). A closed connection, or one whose last flush of the
writer fails, is one whose flush goroutine takes no more steps. `HasUnreadPayload` and other readers of fields are not modelled.

## 3. What the runs check

| Run | Bounds | Shows |
|---|---|---|
| `dispatcher` | 2 games, 1 gate, 1 entity, 2 connections, 4 messages, queue limits 2 and 3 | with any traffic: no packet held without a block, proxies match identities, held packets have a reason, calls keep their order, a freeze survives a disconnect, a plain disconnect removes all routes, a stale one does nothing |
| `cluster_failures` | 2 games, 3 connections; up to three of: a freeze (it may fail or time out), 2 loads, 1 failed load, 1 destroy, 1 crash or lost connection; a freeze and loads together only with nothing else, and until the dispatcher is misled (`FewEvents`) | views of online games and deployment ready are right whenever a game has read everything; an entity is never on two games; `Cluster` implements `Dispatcher!Spec` |
| `cluster_reload` | 1 reload, 1 creation, 2 calls | no call lost or reordered by a reload, each one executed in the end |
| `cluster_load_twice` | 1 lost connection, 2 loads | violation: a second copy is loaded (finding 1) |
| `clients` | 2 clients (symmetric), 2 entities on 2 dispatchers, 2 operations of the game, 1 end of the gate | filtered calls exact; no entity keeps a client that is gone; game, gate and client agree on the owner; no stale filter |
| `services` | 2 games, 2 dispatchers, 1 crash of either, 2 entity ids | one entity unless a dispatcher crashed; a game that has read everything knows the registry; in the end one entity that all games know |
| `persistence` | 1 entity, 3 requests, 1 fault, 8 deployments over the kinds of storage and key-value backends | answers in order and in sight of earlier requests; an exit loses nothing; one winner of get-or-put; every request settled; `Async` implemented |
| `migration` | 2 games with a space each, 1 mobile entity, 2 requests, 1 call; one failure, or two of: freeze, destroyed entity or space, expired request (`FewMishaps`) | one copy, always, and no fewer without a failure; spaces and entities agree; calls follow |
| `entity` | root, 1 map, 1 list, 2 keys with different flags, lists of 2, depth 3; 2 callbacks, 1 repeat timer's worth of ids, delays 0 and 1, time to 3 | clients' copies agree; nodes know their place; timers and raw timers match; callbacks once, in time, and in the end |
| `pubsub` | 2 subscribers, subjects "", "a", "ab", 2 subscriptions at a time | maps and trie agree; the service implements `Broker` |
| `packets` | 2 packets, 4 buffers, 2 compressing connections, 2 payloads, 2 references held | what is written is what was sent; references and owners are counted |
| `packets_broadcast` | the same, with broadcasts of compressible packets | violation: two flush goroutines compress one packet (finding 2) |

Why these bounds are enough to be interesting: two games are needed for a notice,
a rejection or a second copy; two connections for a reconnect; the dispatcher's
handlers treat entities independently, so one entity shows every interaction
with games. Four messages reach a freeze, a held call, a reconnect and a
disconnect handled late. In the cluster runs nothing but the budgets named in the
configuration and the constraints named above limit the games.

In `clients`, two entities are on different dispatchers, so every pair of messages of
two owners can be reordered; two operations are enough to give a client away and
destroy its owner, or set a property and give it away. Entity ids are not used
twice, as in the code: a third entity would only repeat. In `services`, two ids are
as many as one crash can make the games create (no game ever
needs a third), one register message per connection and one unread answer per
game and dispatcher (`MaxQueue`, `MaxAnswers`) still let the two dispatchers' messages
arrive in any order; with two unread answers the run holds as well, in 1.8 million
states.

In `persistence` three requests give a save, what comes after it and what its callback
asks for, while the game stops at any point; a fault comes before, after or instead of
the effect of an operation. In `migration` one mobile entity meets both spaces and both
games in either direction; the second request is what comes back, or what is refused while
the first is under way. In `entity` depth 3 has a node in a node in the root, which is where
a stale path or flag can differ from the right one; attributes and timers do not touch
each other, so a behaviour uses one of them (`uses`). In `pubsub` each subject is a prefix of
the next, and two subscriptions can be of two subscribers, two subjects or two kinds. In
`packets` four buffers are as many as two packets and two compressions can own at a time.

`FreezeTimeout` says whether a freeze may expire while the game is still
connected (it is slow, or failed) or after it exited. `HeldForAReason` and
`CallOrder` are claimed without the first case: limit 2 of section 5 is what happens in it.

**Fairness.** `CFairness`: weak fairness of the dispatcher serving a connection's
messages and noticing a lost one, of a game handling its packets, of each step of
(re)connecting, of finishing a freeze and starting the frozen game again, and of
a block's timeout. The code runs these in loops that block only on their input;
starting again is what `goworld reload` does. Crashes, losses, loads and calls are
not fair: they may never happen. The subscripts name only the variable each
step must change, which keeps ENABLED cheap and asks for nothing else.
`services` assumes (`Fairness`) that connected processes handle what they receive,
that lost connections are made again, that timers fire (the check is repeated every
minute, the random delay ends), and that a crashed game is started again. Crashes are
not fair. `persistence` assumes weak fairness of the main routine and the service
goroutines together: as requests and faults are bounded, each has its turn; that faults end
is the assumption under which a save, retried for ever, is ever done. `entity` assumes
that the main loop fires what is due and that time passes.

### Findings

1. *A second copy* (EntityManager.go:407). "LoadEntityAnywhere has no effect if
   entity already exists on any game" fails while a running game is
   disconnected: `handleGameDown` deleted its routes.
2. *A packet compressed twice* (Packet.go:564, GateService.go:385-409). A filtered call
   puts one packet into the queues of many clients. If the clients' connections
   compress and the packet is long enough, their flush goroutines compress it in place, at
   the same time; `compress` gives the packet's buffer back to its pool and replaces it
   without a lock, so another goroutine compresses what is compressed already, or
   writes a buffer that has a new owner. The round-trip test (netutil_test.go:122) has one
   receiver.

## 4. What is proved

`DispatcherProofs` proves, for any sets of games, gates, entities and connections,
any queue limits and any number of messages, from `NoneAssumption`,
`KindAssumption` and `BoundAssumption` only, and, where an order is claimed or
DispatchDown is followed, `FiniteAssumption` (the dispatcher's maps are finite):

| Theorem | Statement |
|---|---|
| `Inductive` | `Inv /\ [Next]_vars => Inv'` |
| `TypeCorrect` | `Spec => []TypeOK` |
| `NothingForgotten` | `Spec => []PendingOnlyWhileBlocked` |
| `ProxiesIdentified` | `Spec => []ProxyIdentity` |
| `HeldOnlyForAReason` | `Spec => []HeldForAReason` |
| `StaleDisconnects` | `Spec => StaleDisconnectHarmless` |
| `RoutesCleaned` | `Spec => DownCleansRoutes` |
| `FreezeSurvives` | `Spec => FreezeSurvivesDisconnect` |
| `CallsInOrder` | `Spec => []CallOrder` |

None of the invariants is inductive alone. `HeldForAReason` needs `Queue`: a
reconnect clears the block's time and leaves `isBlocked` set, so one must know that
such a game holds nothing, or the next dispatch would lift the block and leave
packets behind; and sending to a game whose proxy is set needs `Identified`.
`Inv` is stated of a snapshot (`Good(s)`), as handlers are: each operator a
handler is made of has a lemma that it maps good snapshots to good ones and keeps
the identities (`DispatchDownGood`, `UnblockGood`, `GameDisconnectedGood`,
`AdoptProxyGood`...), each handler a lemma that composes them, and `Inductive`
is the case split over `Next`. `StaleDisconnects` adds that only the posted
disconnect of a connection makes it `"gone"`. `RoutesCleaned` needs that an entry that is
not in the map has no route (`Entry`): the code deletes map entries, the model keeps
a record with `known` false.

`CallOrder` compares calls in three kinds of places: held for the entity, held for a
game, written to the game's connection. It is not inductive. `Order(s, f)` adds where
calls to `f` can be and in which order: those held for `f` itself are younger than
those held for any game or written to any connection, those held for a connected game are
younger than those on its wire, nobody else holds calls to `f`, and a connection
with no identity was never sent one (it may become a game's connection).
`Fits(s, out, f)` says of packets about to be dispatched that they lie between what is
held for `f` and what games have; it is what makes the release of held packets safe, in
whatever order games take them. `Upto(n)` bounds all numbers by that of the last call.
A broadcast walks over games in an order nobody chooses and concatenates what they are
told; facts about such concatenations (`FlattenSteps`, `FlattenInduct`) are proved by
the least prefix for which they fail, as the library's induction theorems are not
available. The theorem is claimed for every `FreezeTimeout` without `"connected"`,
see limit 2.

`ClusterProofs` proves, for any games, entities, spaces, connections and bounds, from the
assumptions above and those named in `Cluster` and `Migration`:

| Theorem | Statement |
|---|---|
| `ClusterImplements` | `CSpec => DispatcherSpec` |
| `ClusterTyped` | `CSpec => []CTypeOK` |
| `ViewsConverge` | `GameQueueMax # 0 => (CSpec => []ClusterView)` |
| `OneCopyEach` | `CSpec => []SingleCopy` |
| `ClusterKeepsPromises` | `CSpec => [](PendingOnlyWhileBlocked /\ ProxyIdentity /\ HeldForAReason /\ CallOrder)` |
| `SpacesAgree` | `MSpec => []MembersAgree` |

The open dispatcher accepts any *well-formed* message, so the refinement needs to know what
is in flight: `Peers` says that games send requests (`Request`), that a list of
entities a game announces is one the dispatcher accepts from a peer (`Reports`), and that the
dispatcher's own invariant holds. Then serving the oldest message of a connection is one of
`Next`'s actions with that message, a crash or a lost connection is the network's,
and every other step leaves the dispatcher's variables alone, case by case (`ClusterStep`).
`CTypeOK` contains `executed \subseteq accepted`, which does not follow from types: one must
follow each call through the dispatcher's queues. `From(P, s)` says that every packet in a
snapshot is one of `P`; each handler's lemma shows what it adds to that (`Carries`).

`ClusterView` says something only of a game that has read everything. Its invariant `Sight`
says it of what is still to come: the last word on each game in the packets on the wire (`Seen`), or what
the game knows already if they say nothing, is right, and so for deployment ready
(`Informed`). It is claimed only while the dispatcher feeds the game, that is, the game's
connection is open and nothing is held for it (`Fed`). Nothing need be known of what is held:
it is sent with a reconnect only, and the acknowledgement behind it says
everything anew. What is held for an entity says nothing of games (`Letters`), two games never
share a connection, and a new connection is not yet known to the dispatcher (`Linked`). Each
handler is shown to keep this (`Keeps`, `Stays` of `DispatcherProofs`), the acknowledgement of SET_GAME_ID with
the notices that overtake it being the hard one. A queue of length zero would drop
the notice that is to be held; the code's limit is a million.

`SingleCopy` speaks of the entities that live on a game or are in its freeze file. What makes an entity
live there is decided elsewhere and long before: the dispatcher chooses a game, the load travels
or is held for a game that freezes, the game reads it, the storage answers. Its invariant,
`CopyInv`, therefore counts as a *claim* of a game (`Claims`) a copy at any of these
points, and from the copy's birth to the moment its end is reported: a notice that is still in the connection, a destroy
notice too, the list of SET_GAME_ID the game is about to send. As long as nothing misled the dispatcher:

- two games have no claim to one entity (`Apart`), and the parts of one claim exclude
  each other: one load on its way, and none where the entity lives (`Alone`);
- the dispatcher's route names the game with the claim, or there is no route and the notice that makes
  one is in a connection (`Found`); this is why a load that comes first goes to a second
  game, which is what `Early` excludes;
- a game's notices of an entity come in order, and what SET_GAME_ID lists is not
  announced as well (`InOrder`);
- a game that the dispatcher does not speak to loads nothing and has nothing that it will not report,
  unless it is frozen and held back (`Absent`): so the routes that `cleanupGameInfo` deletes
  are those of entities that are gone, or will be announced again;
- an entity still to be made is nowhere, and is made once (`Unborn`);
- who freezes, or has the acknowledgement on its way, is held back and keeps its identity
  (`Freezes`); what a process that is down, starting or running has (`Lives`); a
  game's first message, and no other, is SET_GAME_ID (`First`); and nothing travels on
  a connection that was not accepted (`Lines`).

The proof has one lemma for each message the dispatcher serves and each step of a game
(`ServeCalm`, `DisconnectedCalm`, `AskedCalm`, `StartCalm`, `EndingCalm`, ...). The dispatcher's
steps are described by what they leave of routes, identities, queues and wires (`Mild` of `DispatcherProofs`, `Joins`), the
games' by what they are to each entity (`Spares`, `Leaves`, `Comes`, `Starts`), so that each part of the
invariant is shown once for each kind. HandleSetGameID is the hard one: within one step it
cuts the game's old connection, may clean up games that are down, rejects from the list what another
game has, takes over the rest, and sends what was held. Two of the cases of `misled`
came of attempts at this proof (known limits 12 and 13).

`MembersAgree` relates `e.Space` and `space.entities` of one game. Alone it is not
inductive: an entity that migrates in, is restored or created could find
traces of an earlier stay. `Housed` therefore also says that an entity that is not on the
game is in no space there, and one that is, in none that is not there; only a frozen game keeps
the space of an entity that is not live, as the freeze file does. `Asked` says
that what asks for a space is no space itself, and that `enteringSpaceRequest`, the posted
function and the data of a migration name spaces. Both are needed by
`EnterSpace`, whose second half runs later as a posted function.

`PacketsProofs` proves, for any packets, buffers, connections and payloads:

| Theorem | Statement |
|---|---|
| `PacketsInvariant` | `(Compressing => ~Broadcast) => (Spec => []IInv)` |
| `PacketsTyped` | `(Compressing => ~Broadcast) => (Spec => []TypeOK)` |
| `StreamsKept` | `(Compressing => ~Broadcast) => (Spec => []WrittenAsSent)` |
| `PacketsCounted` | `(Compressing => ~Broadcast) => (Spec => []CountedAndOwned)` |

The hypothesis is the case of finding 2: with both constants true the run
`packets_broadcast` shows the properties fail. It covers connections between servers, which
broadcast and do not compress, and client connections that are sent packets of their own.
What is on the wire is right because of what happened to a packet since it was sent;
so `IInv` follows it: references are counted (`Counted`), and a packet without any is
cleared (`Cleared`), hence allocation hands out nothing old; a buffer belongs to one
packet or one flush goroutine, or is in its pool (`Owned`, with the moment between the two
halves of a compression excepted, `Swapping`); a packet that is queued holds what was
sent (`Holds`); one that a connection may compress was sent to that connection alone
(`Alone`); and what is on the wire, with the goroutine and in the queue is what was sent on
the connection, in this order, until a write fails, after which the wire is a prefix of
it and stays as it is (`Lines`, `Stages`).

`ClientsProofs` and `ServicesProofs` prove, from the assumptions named in `Clients` and
`Services` only, for any clients, entities, values, games, dispatchers, placement of
entities and registry entries, and bounds:

| Theorem | Statement |
|---|---|
| `ClientsProofs!Inductive`, `ServicesProofs!Inductive` | `Inv /\ [Next]_vars => Inv'` |
| `ClientsProofs!TypeCorrect`, `ServicesProofs!TypeCorrect` | `Spec => []TypeOK` |
| `ClientsProofs!FilteredCallsExact` | `Spec => []VisitExact` |
| `ClientsProofs!OwnershipInductive` | `~Eager => (Inv /\ OwnerInv /\ [Next]_vars => OwnerInv')` |
| `ClientsProofs!GoneClientsLeft` | `~Eager => (Spec => []NoGhosts)` |
| `ClientsProofs!OwnersKnown` | `~Eager => (Spec => []OwnerKnown)` |
| `ClientsProofs!OneEntityShown` | `~Eager => (Spec => []OneOwnEntity)` |
| `ClientsProofs!ViewsAgree` | `~Eager => (Spec => []ViewAgrees)` |
| `ClientsProofs!FiltersFollow` | `~Eager => (Spec => []NoStaleFilter)` |
| `ServicesProofs!OneInstanceAlways` | `Spec => []OneInstance` |
| `ServicesProofs!RegistryViewAlways` | `Spec => []RegistryView` |

`VisitExact` speaks of what a visit returns; the invariant behind it (`Filtered`) is about
the tree: it holds `<<v, c>>` exactly when the gate was last told `v` for `c`, and a proxy
that was not cleared remembers that value. The second part is needed because
an item is removed by the value its proxy remembers; it is an implication, since
handleClearClientFilterProps leaves the proxy's map alone, and the proof is where it
shows that this does no harm. `VisitItems` then compares the ranges of the tree with
the operators.

The five theorems about owners compare game, gate and client when nothing is on its way; the
invariant behind them, `OwnerInv`, is about what is. `Up` and `Down` join the two wires of a
dispatcher, so that forwarding moves nothing; `Has`, `Pre` and `Final` say that a queue
holds a message, holds one before another, and what its last word of a kind is. While the
gate lives, `Following` holds, part by part: a client is announced once, for an entity that
is not born yet (`Announcing`); a connection that is shut has its close posted, after
its announcement (`Closing`); a live entity has a route or the notice that makes one
is on its way, which is why a disconnect is not dropped (`Routed`); an entity has
one client and of a client at most one create is on its way, behind the notice of the
entity's birth (`Creating`); the gate knows the owner, or will be told, or has told the owner
that the client is gone (`Owning`); what a client shows is its owner, or the message that takes
it away is ahead of the one that shows the next (`Showing`); and the last word about the
filter property is the owner's (`Filtering`). After the gate's end only `Ended` is left:
each dispatcher will still notice it, after what it announced before. `Showing` is where
several dispatchers matter: `GiveClientTo` writes the destroy on the new owner's way, so that
the two keep their order. The hypothesis `~Eager` excludes known limit 3; the run `clients`
checks the same case. It is needed: with `Eager = TRUE` on the instance of `clients`, TLC finds
each of the first four violated. `NoStaleFilter` holds on that instance in either case, but
is proved here with the others, from the invariant they share.

`OneInstance` is about entities; its invariant is about information: every copy of the
name entry, in a game's `srvmap`, in a notice or in an acknowledgement on its way, is
the registry's (`Agrees`, and the message set `Told`), and a game with an entity is the
one the registry names (`Hosts`). Because nobody forces a name (`Said`), the entry
changes only from empty, when all copies are empty. `DispatcherCrash` makes
`lost` true, and from then on the claim is given up, as in the code.

`RegistryView` compares the registry with what a game knows when nothing is on its way. Its
invariant, `Fresh`, follows what is: for a game that a dispatcher broadcasts to, the last
notice or acknowledgement of an entry that is on its way says what the registry says,
and if there is none the game knows it already (`Current`). Two things could break it: an entry
that reaches the game from another dispatcher, and a game that is broadcast to before it was
sent an acknowledgement. `Placed` excludes both: entries travel only to and from the
dispatcher `DispatcherOfKey` names, and a game is in `known` only while it is linked.
It holds through crashes of dispatchers and games, unlike `OneInstance`.

`PersistenceProofs` proves, for any entities, deployments, number of requests, faults and
saves in the queue, from `LimitAssumption` (bounds are numbers, `Entity` is finite: OnGameTerminating
saves each entity once more) and `DeploymentAssumption` (a deployment uses the backends of
the module and asks of the queues what there is to ask, `Askable`):

| Theorem | Statement |
|---|---|
| `Inductive` | `Inv /\ [Next]_vars => Inv' /\ Classified` |
| `PersistenceTypeCorrect` | `Spec => []PersistenceTypeOK` |
| `AnswersSeeEarlierAlways` | `Spec => []AnswersSeeEarlierRequests` |
| `ExitLosesNothingAlways` | `Spec => []ExitLosesNothing` |
| `ClaimOnceAlways` | `Spec => []ClaimOnce` |
| `AnswersInOrderAlways` | `Spec => AnswersInOrder` (module `Async` is implemented) |

All five rest on what a queue is. `Order` says that it holds requests made to it, in the order
they were made, and that everything older has left it; `Done(q)` is what has left, and `Kept`
that a job leaves no other way than with an answer, run or posted, or as `lost`. What an
answer sees depends on the state when it was made, not when it runs: `StoredNewest` says
that the backend holds of each entity the newest save among `Done`, or, when the save at the
head of the queue failed after it had reached the backend, that one already; so
the operation at the head always sees what was asked before it. `SessionOpen` says the same of a
MongoDB handle and its Close, and `Seen` keeps it for answers that wait, as later requests
change nothing about earlier ones (`LastSave` and the history below a number). Of a list it
keeps that every ID was saved before, and, unless the list is in `cut`, that none is missing;
a number enters `cut` only with its answer. `Once`
says that who found the key empty left a value there, and that no job has read it
empty since: `oldVal` is what a GetOrPut has read and not yet used, so this is where the two halves of
a get-or-put by one worker matter. `Stopping` follows the way to the exit: without a worker there
are no jobs; a WaitClear that found no worker leaves only answers of the storage; the
storage routine ends with an empty queue. `Drained` is what that means for the jobs. Every step is
shown to be of one of a few kinds (`Classified`): a request is made of a queue (`Asks`), the head
of one is answered (`Replies`) or leaves without an answer (`Drops`), the oldest answer
runs (`Runs`), or none of these; a callback that asks for something does two of these at once.
Each kind is a step of `Async` or leaves its variables alone.

`PubSubProofs` proves, for any sets of subscribers, characters and subjects, from
`SubjectAssumption` only:

| Theorem | Statement |
|---|---|
| `Inductive` | `Inv /\ [Next]_vars => Inv'` |
| `TypeCorrect` | `Spec => []TypeOK` |
| `MapsComplete` | `Spec => []MapsAgree` |
| `Implements` | `Spec => BrokerSpec` |

`MapsAgree` says nothing of a frozen service, and a restore builds everything from the
attributes; so `Inv` adds that no attribute names a subject the trie does not have
(`AttrsCovered`): OnFreeze overwrites only subjects in the trie, and a left-over one
would come back to life. That nodes never leave the trie (unsubscribe keeps them) is what
makes this true. For `Implements` each operation is shown to be the broker's on `Held`:
what it does to the trie is translated subscription by subscription (`HeldIs`), for
`UnsubscribeAll` with the help of the maps, for `Publish` by the lemma that the nodes a walk
comes by are the prefixes that are subjects (`Prefixes`).

`EntityProofs` proves, for any callbacks, delays and bounds, from `TimersAssumption` only:

| Theorem | Statement |
|---|---|
| `TimersInvariant` | `EntitySpec => []Inv` |
| `TimersAlwaysMatch` | `EntitySpec => []TimersMatch` |
| `CallbacksOnceAndInTime` | `EntitySpec => []OnceAndInTime` |

A callback must not run again after a restore; the two maps that could bring it back are
the timer map and the freeze data. `Inv` says of both (`Pending`) that a callback in them
is still to run, is not cancelled, is there once and has the time it was added for, and of
the heap (`Match`) that a raw timer stands for a timer in the map, alone, and for a callback
has exactly its time. Only a live entity misses no raw timer (`Complete`): one destroyed
while `LateCallback` adds a timer may. Where the freeze data is non-empty the heap is empty
(`Placed`), which is why a migration must clear the raw timers. The claims hold for
every value of `LateCallback`; the nil map a failed freeze leaves is excepted in
`TimersMatch`, as in the code.

Only model-checked: `ReloadLosesNoCall` and `ExecutedInOrder` of
`Cluster`, `OneCopy` and `CallsFollow` of `Migration`, those of attributes in
`Entity`, and liveness (ENABLED and fairness are beyond the prover).
`Attributes` uses recursive operators, and what they compute can only be proved
by induction over data, which the prover does not have here.

## 5. Known limits of the code

What the models show the code does, where no line promises otherwise or the promise is
loose. The properties are claimed outside of these cases, by the history variable or
constant named.

1. A destroy notice deletes the route of the entity whoever sends it: that of a copy the
   dispatcher rejected, or one still queued when its game's disconnect is handled, deletes the
   route to the game that has the entity by then, and a later load makes a second copy
   (DispatcherService.go:655). A creation notice or SET_GAME_ID that comes so late misleads the dispatcher as
   well. `misled` in `SingleCopy` (`Late`).
2. After a freeze that fails or takes longer than ten seconds the dispatcher's block lapses
   but the packets it held stay in the queue; newer ones overtake them
   (DispatcherService.go:105-141). `FreezeTimeout`, `MaxFailedFreezes`.
3. A client that is given away before the gate knows its owner can end with two
   entities of its own, or with an owner the gate does not know: the old owner's create, on
   another dispatcher, arrives last (Entity.go:763). `Eager`.
4. The posted disconnect of a gate overtakes a queued connect notice: a boot entity keeps
   a client of a dead gate (DispatcherService.go:568-593, 666-670). `late` in
   `NoGhosts`.
5. The service registry never forgets a game: a service of a game that is gone for good is
   not created elsewhere (DispatcherService.go:742). `Restarts`.
6. An entity may migrate out of a game that freezes, and a freeze drops the requests of the
   entities in it: calls to such an entity wait until the migrate block's minute is over
   (Entity.go:632, DispatcherService.go:880). `crossed` in `CallsFollow`.
7. An entity whose timers were dumped by a freeze that fails has no timers any more, and
   panics when it adds one (Entity.go:359). `failedFreeze` in `CallbacksRun`.
8. A callback that OnClientDisconnected adds while the entity is destroyed stays in the heap
   (Entity.go:151). `LateCallback`.
9. Get-or-put is atomic within a game only (kvdb.go:188); `ClaimOnce` is about one game.
10. A ranking iterator ends when it should report an error, so a range may be cut
    short (rank_redis.go:133); `persistence` does not claim what a range contains. A list of
    entity IDs may be short as well: mysqlEntityStorage.List does not ask `rows.Err` after its
    loop (entity_storage_mysql.go:75-83), filepath.Glob ignores I/O errors (filesystem.go:78), and
    a SCAN of a Redis cluster is answered by one node (entity_storage_redis_cluster.go:56),
    although ListEntityIDs "gets all saved entity ids" (goworld.go:104). A service that
    does not find its entity in the list creates another (service.go:201-203). `cut` in
    `AnswersSeeEarlierRequests`.
11. Subscriptions are lost with the game that crashes: they are saved by a freeze only.
12. A restored game stays marked as blocked until a packet reaches it. If it crashes before, the
    dispatcher takes the disconnect for that of a freeze; the load that is next dispatched to it
    finds the block expired and has the game cleaned up, the load's own route included, and the load
    is then held for the dead game: the next load goes to another game, and the
    entity lives twice once the first is back (DispatcherService.go:106). `misled` (`Lost`).
13. Until the notice of its creation is handled, an entity has no route, and a load is
    dispatched to any game (DispatcherService.go:693). `misled` (`Early`).
14. GetEntityIDsForDispatcher walks the entity map in the goroutine that receives, without a lock,
    while the main loop may change the map (game.go:234-241): a data race, which Go's runtime
    may end the process for. It takes a reconnection of a running game, after which `SingleCopy`
    claims nothing any more (`misled`); a game that starts connects before its main loop. In
    the model the walk is one step (`TakeSnapshot`).

## 6. Not modelled, and what is left to do

Not modelled: the load heap (any choice of game covers it), crontab (sequential, no
state that others share), AOI (an external library) and position sync, the contents of
messages, readers of packet fields, the queries of the database helpers one by one,
configuration, logging and commands (no run-time state that others depend on).

Left to do:

1. Persistent services (loading them through the dispatcher), on top of `Services`;
   several gates, client calls and position sync, on top of `Clients`; clients of entities
   that migrate.
2. Proofs: `OneCopy` and `CallsFollow` of `Migration`, `ReloadLosesNoCall` of `Cluster`.
3. `LbcHeap` and `Crontab` as pure algorithms.
