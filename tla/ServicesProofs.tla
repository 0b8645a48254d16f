--------------------------- MODULE ServicesProofs ---------------------------
(***************************************************************************)
(* Theorems about services, for any games, dispatchers, placement of the   *)
(* registry's entries and number of crashes: the types, that two games     *)
(* never host a service while no dispatcher has lost the registry, and     *)
(* that a game that has read everything knows the registry as it is.       *)
(***************************************************************************)
EXTENDS Services, TLAPS

Wire(S) == [Game -> [Dispatcher -> Seq(S)]]

\* The first game that registers the name keeps it: whoever reads an entry for the
\* name anywhere reads that game, unless a dispatcher has lost the registry.
Agrees(k, info) ==
  \/ k = "name" /\ info \in Game /\ (~ lost => info = registry["name"])
  \/ k = "eid" /\ info \in Id

\* Messages to a game whose entries agree with the registry.
Told ==
  {m \in Messages :
     /\ m.type = "watch" => Agrees(m.key, m.info)
     /\ m.type = "ack" => \A k \in Key : m.map[k] # None => Agrees(k, m.map[k])}

\* Messages of games: nobody forces a name.
Said ==
  {SetGameID, Stale}
    \cup {Register("name", g, FALSE) : g \in Game}
    \cup {Register("eid", x, TRUE) : x \in Id}

Typed ==
  /\ registry \in [Key -> Info \cup {None}]
  /\ registry["name"] \in Game \cup {None} /\ registry["eid"] \in Id \cup {None}
  /\ known \in [Dispatcher -> SUBSET Game]
  /\ up \in [Game -> BOOLEAN] /\ ready \in [Game -> BOOLEAN]
  /\ linked \in [Game -> SUBSET Dispatcher]
  /\ srvmap \in [Game -> [Key -> Info \cup {None}]]
  /\ serviceMap \in [Game -> Id \cup {None}]
  /\ ents \in [Game -> SUBSET (1 .. nextId)]
  /\ delayed \in [Game -> BOOLEAN]
  /\ toDisp \in Wire(Said)
  /\ toGame \in Wire(Told)
  /\ nextId \in 0 .. MaxIds /\ budget \in 0 .. MaxCrashes /\ lost \in BOOLEAN

\* What the games know agrees with the registry, and so does who hosts the service.
Copies == \A g \in Game, k \in Key : srvmap[g][k] # None => Agrees(k, srvmap[g][k])
Hosts == ~ lost => \A g \in Game : ents[g] # {} => registry["name"] = g

Inv == Typed /\ Copies /\ Hosts

-----------------------------------------------------------------------------
(* Queues                                                                   *)

LEMMA AppendTyped ==
  ASSUME NEW S, NEW q \in Wire(S), NEW g \in Game, NEW d \in Dispatcher, NEW m \in S
  PROVE  [q EXCEPT ![g][d] = Append(@, m)] \in Wire(S)
  <1>1. q[g] \in [Dispatcher -> Seq(S)] /\ q[g][d] \in Seq(S)
    BY DEF Wire
  <1>2. Append(q[g][d], m) \in Seq(S)
    BY <1>1
  <1> QED BY <1>1, <1>2 DEF Wire

LEMMA TailTyped ==
  ASSUME NEW S, NEW q \in Wire(S), NEW g \in Game, NEW d \in Dispatcher, q[g][d] # <<>>
  PROVE  Head(q[g][d]) \in S /\ [q EXCEPT ![g][d] = Tail(@)] \in Wire(S)
  <1>1. q[g] \in [Dispatcher -> Seq(S)] /\ q[g][d] \in Seq(S)
    BY DEF Wire
  <1>2. Head(q[g][d]) \in S /\ Tail(q[g][d]) \in Seq(S)
    BY <1>1
  <1> QED BY <1>1, <1>2 DEF Wire

LEMMA WireMonotonic ==
  ASSUME NEW S, NEW T, S \subseteq T, NEW q \in Wire(S)
  PROVE  q \in Wire(T)
  <1>1. ASSUME NEW g \in Game, NEW d \in Dispatcher PROVE q[g][d] \in Seq(T)
    <2>1. q[g][d] \in Seq(S)
      BY DEF Wire
    <2> QED BY <2>1
  <1>2. ASSUME NEW g \in Game PROVE q[g] \in [Dispatcher -> Seq(T)]
    BY <1>1 DEF Wire
  <1> QED BY <1>2 DEF Wire

LEMMA CutTyped ==
  ASSUME NEW S, NEW q \in Wire(S), NEW r \in Cuts(q)
  PROVE  r \in Wire(S)
  <1>1. ASSUME NEW g \in Game, NEW d \in Dispatcher PROVE r[g][d] \in Seq(S)
    <2>1. r[g][d] \in UNION {Prefixes(q[x][y]) : x \in Game, y \in Dispatcher}
      BY DEF Cuts
    <2>2. PICK x \in Game, y \in Dispatcher : r[g][d] \in Prefixes(q[x][y])
      BY <2>1
    <2>3. q[x][y] \in Seq(S)
      BY DEF Wire
    <2>4. PICK n \in 0 .. Len(q[x][y]) : r[g][d] = SubSeq(q[x][y], 1, n)
      BY <2>2 DEF Prefixes
    <2> QED BY <2>3, <2>4
  <1>2. ASSUME NEW g \in Game PROVE r[g] \in [Dispatcher -> Seq(S)]
    BY <1>1 DEF Cuts
  <1> QED BY <1>2 DEF Cuts, Wire

LEMMA TellTyped ==
  ASSUME NEW q \in Wire(Said), NEW g \in Game, NEW k \in Key, NEW m \in Said
  PROVE  Tell(q, g, k, m) \in Wire(Said)
  <1>1. DispatcherOfKey[k] \in Dispatcher
    BY KeyAssumption
  <1>2. [q EXCEPT ![g][DispatcherOfKey[k]] = Append(@, m)] \in Wire(Said)
    BY <1>1, AppendTyped
  <1> QED BY <1>2 DEF Tell

LEMMA OutdatedTyped ==
  ASSUME NEW q \in Seq(Said)
  PROVE  Outdated(q) \in Seq(Said)
  <1>1. Stale \in Said
    BY DEF Said
  <1>2. \A i \in 1 .. Len(q) : q[i] \in Said
    OBVIOUS
  <1> QED BY <1>1, <1>2 DEF Outdated

LEMMA SaidInMessages ==
  Said \subseteq Messages
  <1>1. "name" \in Key /\ "eid" \in Key /\ Game \subseteq Info /\ Id \subseteq Info
    BY DEF Key, Info
  <1>2. ASSUME NEW k \in Key, NEW i \in Info, NEW f \in BOOLEAN
        PROVE  Register(k, i, f) \in Messages
    BY DEF Messages
  <1>3. SetGameID \in Messages /\ Stale \in Messages
    BY DEF Messages
  <1> QED BY <1>1, <1>2, <1>3 DEF Said

-----------------------------------------------------------------------------
(* Agreement                                                                *)

\* While a dispatcher has not lost it, the registered name stays.
LEMMA AgreesKept ==
  ASSUME lost' = lost,
         lost \/ registry["name"] = None \/ registry'["name"] = registry["name"],
         NEW k \in Key, NEW info, Agrees(k, info)
  PROVE  Agrees(k, info)'
  BY InfoAssumption DEF Agrees

LEMMA ToldKept ==
  ASSUME lost' = lost,
         lost \/ registry["name"] = None \/ registry'["name"] = registry["name"]
  PROVE  Told \subseteq Told'
  <1> SUFFICES ASSUME NEW m \in Told PROVE m \in Told'
    OBVIOUS
  <1>1. m \in Messages
    BY DEF Told
  <1>2. ASSUME m.type = "watch" PROVE Agrees(m.key, m.info)'
    <2>1. m.key \in Key
      BY <1>1, <1>2 DEF Messages, Register, Watch, Ack, SetGameID, Stale
    <2> QED BY <1>2, <2>1, AgreesKept DEF Told
  <1>3. ASSUME m.type = "ack", NEW k \in Key, m.map[k] # None PROVE Agrees(k, m.map[k])'
    BY <1>3, AgreesKept DEF Told
  <1> QED BY <1>1, <1>2, <1>3 DEF Told

-----------------------------------------------------------------------------
(* Each action keeps the invariant                                          *)

LEMMA InitInv ==
  Init => Inv
  <1> SUFFICES ASSUME Init PROVE Inv
    OBVIOUS
  <1>1. <<>> \in Seq(Said) /\ <<>> \in Seq(Told)
    OBVIOUS
  <1>2. toDisp \in Wire(Said) /\ toGame \in Wire(Told)
    BY <1>1 DEF Init, Wire
  <1>3. nextId \in 0 .. MaxIds /\ budget \in 0 .. MaxCrashes
    BY LimitAssumption DEF Init
  <1>4. Typed
    BY <1>2, <1>3 DEF Init, Typed, NoInfo, Key
  <1> QED BY <1>4 DEF Init, Inv, Copies, Hosts, NoInfo

\* A step that changes neither the registry nor what a game knows of it.
LEMMA NothingLearned ==
  ASSUME Inv, UNCHANGED <<registry, srvmap, lost>>
  PROVE  Copies' /\ Told' = Told
  <1>1. ASSUME NEW k, NEW info PROVE Agrees(k, info)' <=> Agrees(k, info)
    BY DEF Agrees
  <1> QED BY <1>1 DEF Inv, Copies, Told

LEMMA ConnectInv ==
  ASSUME Inv, NEW g \in Game, NEW d \in Dispatcher, Connect(g, d)
  PROVE  Inv'
  <1>1. /\ UNCHANGED <<registry, known, up, ready, srvmap, serviceMap, ents, delayed,
                       toGame, nextId, lost, budget>>
        /\ linked' = [linked EXCEPT ![g] = @ \cup {d}]
        /\ toDisp' = [toDisp EXCEPT ![g][d] = Append(@, SetGameID)]
    BY DEF Connect
  <1>2. SetGameID \in Said /\ toDisp \in Wire(Said)
    BY DEF Said, Inv, Typed
  <1>3. toDisp' \in Wire(Said)
    BY <1>1, <1>2, AppendTyped
  <1>4. linked' \in [Game -> SUBSET Dispatcher]
    BY <1>1 DEF Inv, Typed
  <1>5. Copies' /\ Told' = Told
    BY <1>1, NothingLearned
  <1>6. Typed'
    BY <1>1, <1>3, <1>4, <1>5 DEF Inv, Typed
  <1>7. Hosts'
    BY <1>1 DEF Inv, Hosts
  <1> QED BY <1>5, <1>6, <1>7 DEF Inv

LEMMA GameCrashInv ==
  ASSUME Inv, NEW g \in Game, GameCrash(g)
  PROVE  Inv'
  <1>1. /\ UNCHANGED <<registry, nextId, lost>>
        /\ srvmap' = [srvmap EXCEPT ![g] = NoInfo]
        /\ ents' = [ents EXCEPT ![g] = {}]
        /\ toGame' = [toGame EXCEPT ![g] = [d \in Dispatcher |-> <<>>]]
        /\ budget' = budget - 1 /\ budget > 0
    BY DEF GameCrash
  <1>2. toDisp' \in Wire(Said)
    <2>1. PICK r \in Cuts(toDisp) :
            toDisp' = [r EXCEPT ![g] = [d \in Dispatcher |-> Outdated(r[g][d])]]
      BY DEF GameCrash
    <2>2. r \in Wire(Said)
      BY CutTyped DEF Inv, Typed
    <2>3. ASSUME NEW d \in Dispatcher PROVE Outdated(r[g][d]) \in Seq(Said)
      BY <2>2, OutdatedTyped DEF Wire
    <2> QED BY <2>1, <2>2, <2>3 DEF Wire
  <1>3. ASSUME NEW k, NEW info PROVE Agrees(k, info)' <=> Agrees(k, info)
    BY <1>1 DEF Agrees
  <1>4. Told' = Told
    BY <1>3 DEF Told
  <1>5. toGame' \in Wire(Told')
    <2>1. [d \in Dispatcher |-> <<>>] \in [Dispatcher -> Seq(Told)]
      OBVIOUS
    <2> QED BY <1>1, <1>4, <2>1 DEF Inv, Typed, Wire
  <1>6. /\ known' \in [Dispatcher -> SUBSET Game]
        /\ linked' \in [Game -> SUBSET Dispatcher]
        /\ serviceMap' \in [Game -> Id \cup {None}]
    BY DEF GameCrash, Inv, Typed
  <1>7. /\ up' \in [Game -> BOOLEAN] /\ ready' \in [Game -> BOOLEAN]
        /\ delayed' \in [Game -> BOOLEAN]
    BY DEF GameCrash, Inv, Typed
  <1>8. srvmap' \in [Game -> [Key -> Info \cup {None}]]
        /\ ents' \in [Game -> SUBSET (1 .. nextId)]
    BY <1>1 DEF Inv, Typed, NoInfo
  <1>9. budget' \in 0 .. MaxCrashes
    BY <1>1, LimitAssumption DEF Inv, Typed
  <1>10. Typed'
    BY <1>1, <1>2, <1>5, <1>6, <1>7, <1>8, <1>9 DEF Inv, Typed
  <1>11. Copies'
    <2> SUFFICES ASSUME NEW h \in Game, NEW k \in Key, srvmap'[h][k] # None
                 PROVE  Agrees(k, srvmap[h][k])' 
      BY DEF Copies
    <2>1. h # g /\ srvmap'[h] = srvmap[h]
      BY <1>1 DEF Inv, Typed, NoInfo
    <2> QED BY <1>3, <2>1 DEF Inv, Copies
  <1>12. Hosts'
    BY <1>1 DEF Inv, Typed, Hosts
  <1> QED BY <1>10, <1>11, <1>12 DEF Inv

LEMMA GameRestartInv ==
  ASSUME Inv, NEW g \in Game, GameRestart(g)
  PROVE  Inv'
  <1>1. UNCHANGED <<registry, known, linked, ready, srvmap, serviceMap, ents, delayed,
                    toDisp, toGame, nextId, lost, budget>>
    BY DEF GameRestart
  <1>2. up' \in [Game -> BOOLEAN]
    BY DEF GameRestart, Inv, Typed
  <1>3. Copies' /\ Told' = Told
    BY <1>1, NothingLearned
  <1>4. Typed'
    BY <1>1, <1>2, <1>3 DEF Inv, Typed
  <1>5. Hosts'
    BY <1>1 DEF Inv, Hosts
  <1> QED BY <1>3, <1>4, <1>5 DEF Inv

\* What a dispatcher forgets is lost; what was told before agrees with anything.
LEMMA DispatcherCrashInv ==
  ASSUME Inv, NEW d \in Dispatcher, DispatcherCrash(d)
  PROVE  Inv'
  <1>1. /\ UNCHANGED <<up, ready, srvmap, serviceMap, ents, delayed, nextId>>
        /\ registry' = [k \in Key |-> IF DispatcherOfKey[k] = d THEN None ELSE registry[k]]
        /\ known' = [known EXCEPT ![d] = {}]
        /\ linked' = [g \in Game |-> linked[g] \ {d}]
        /\ toDisp' = [g \in Game |-> [toDisp[g] EXCEPT ![d] = <<>>]]
        /\ toGame' \in Cuts(toGame)
        /\ lost' = TRUE /\ budget' = budget - 1 /\ budget > 0
    BY DEF DispatcherCrash
  <1>2. ASSUME NEW k, NEW info, Agrees(k, info) PROVE Agrees(k, info)'
    BY <1>1, <1>2 DEF Agrees
  <1>3. Told \subseteq Told'
    BY <1>2 DEF Told
  <1>4. toGame' \in Wire(Told)
    BY <1>1, CutTyped DEF Inv, Typed
  <1>5. toGame' \in Wire(Told')
    BY <1>3, <1>4, WireMonotonic
  <1>6. toDisp' \in Wire(Said)
    <2>1. ASSUME NEW g \in Game PROVE [toDisp[g] EXCEPT ![d] = <<>>] \in [Dispatcher -> Seq(Said)]
      BY DEF Inv, Typed, Wire
    <2> QED BY <1>1, <2>1 DEF Wire
  <1>7. registry' \in [Key -> Info \cup {None}]
        /\ registry'["name"] \in Game \cup {None} /\ registry'["eid"] \in Id \cup {None}
    BY <1>1 DEF Inv, Typed, Key
  <1>8. known' \in [Dispatcher -> SUBSET Game] /\ linked' \in [Game -> SUBSET Dispatcher]
    BY <1>1 DEF Inv, Typed
  <1>9. budget' \in 0 .. MaxCrashes
    BY <1>1, LimitAssumption DEF Inv, Typed
  <1>10. Typed'
    BY <1>1, <1>5, <1>6, <1>7, <1>8, <1>9 DEF Inv, Typed
  <1>11. Copies'
    BY <1>1, <1>2 DEF Inv, Copies
  <1>12. Hosts'
    BY <1>1 DEF Hosts
  <1> QED BY <1>10, <1>11, <1>12 DEF Inv

LEMMA HandleSetGameIDInv ==
  ASSUME Inv, NEW g \in Game, NEW d \in Dispatcher, HandleSetGameID(g, d)
  PROVE  /\ known' \in [Dispatcher -> SUBSET Game] /\ toGame' \in Wire(Told)
         /\ registry' = registry
  <1> DEFINE map == [k \in Key |-> IF DispatcherOfKey[k] = d THEN registry[k] ELSE None]
  <1>1. map \in [Key -> Info \cup {None}]
    <2>1. registry \in [Key -> Info \cup {None}]
      BY DEF Inv, Typed
    <2> QED BY <2>1
  <1>2. Ack(map) \in Messages
    <2>1. \A f \in [Key -> Info \cup {None}] : Ack(f) \in Messages
      BY DEF Messages
    <2> QED BY <1>1, <2>1
  <1>3. ASSUME NEW k \in Key, map[k] # None PROVE Agrees(k, map[k])
    <2>1. map[k] = registry[k]
      BY <1>3
    <2> QED BY <1>3, <2>1 DEF Agrees, Key, Inv, Typed
  <1>4. Ack(map).type = "ack" /\ Ack(map).map = map
    BY DEF Ack
  <1> HIDE DEF map
  <1>5. Ack(map) \in Told
    BY <1>2, <1>3, <1>4 DEF Told
  <1>6. [toGame EXCEPT ![g][d] = Append(@, Ack(map))] \in Wire(Told)
    BY <1>5, AppendTyped DEF Inv, Typed
  <1> QED BY <1>6 DEF HandleSetGameID, Inv, Typed, map

\* Of the registrations of a name only the first is accepted.
LEMMA HandleSrvdisRegisterInv ==
  ASSUME Inv, NEW d \in Dispatcher, NEW m \in Said, m.type = "register",
         HandleSrvdisRegister(d, m), UNCHANGED <<linked, lost>>
  PROVE  /\ known' = known /\ toGame' \in Wire(Told')
         /\ registry' \in [Key -> Info \cup {None}]
         /\ registry'["name"] \in Game \cup {None} /\ registry'["eid"] \in Id \cup {None}
         /\ registry["name"] = None \/ registry'["name"] = registry["name"]
  <1>1. \/ m.key = "name" /\ m.info \in Game /\ m.force = FALSE
        \/ m.key = "eid" /\ m.info \in Id
    BY DEF Said, Register, SetGameID, Stale
  <1>2. m.key \in Key /\ m.info \in Info /\ m.info # None
    BY <1>1, InfoAssumption DEF Key, Info, Id
  <1>3. "name" \in Key /\ "eid" \in Key /\ registry \in [Key -> Info \cup {None}]
    BY DEF Key, Inv, Typed
  <1>4. CASE ~ Accepted(m)
    <2>1. registry' = registry /\ toGame' = toGame /\ known' = known
      BY <1>4 DEF HandleSrvdisRegister
    <2>2. Told \subseteq Told'
      BY <2>1, ToldKept
    <2>3. toGame' \in Wire(Told')
      BY <2>1, <2>2, WireMonotonic DEF Inv, Typed
    <2> QED BY <2>1, <2>3 DEF Inv, Typed
  <1>5. CASE Accepted(m)
    <2>1. /\ registry' = [registry EXCEPT ![m.key] = m.info] /\ known' = known
          /\ toGame' = [h \in Game |-> IF h \in known[d] /\ d \in linked[h]
                                    THEN [toGame[h] EXCEPT ![d] = Append(@, Watch(m.key, m.info))]
                                    ELSE toGame[h]]
      BY <1>5 DEF HandleSrvdisRegister
    <2>2. registry["name"] = None \/ registry'["name"] = registry["name"]
      BY <1>1, <1>3, <1>5, <2>1 DEF Accepted
    <2>3. registry' \in [Key -> Info \cup {None}]
      BY <1>2, <1>3, <2>1
    <2>4. registry'["name"] \in Game \cup {None} /\ registry'["eid"] \in Id \cup {None}
      BY <1>1, <1>3, <2>1 DEF Inv, Typed
    <2>5. registry'[m.key] = m.info
      BY <1>2, <1>3, <2>1
    <2>6. Agrees(m.key, m.info)'
      BY <1>1, <2>5 DEF Agrees
    <2>7. Watch(m.key, m.info) \in Messages
      BY <1>2 DEF Messages
    <2>8. Watch(m.key, m.info).type = "watch" /\ Watch(m.key, m.info).key = m.key
          /\ Watch(m.key, m.info).info = m.info
      BY DEF Watch
    <2>9. Watch(m.key, m.info) \in Told'
      BY <2>6, <2>7, <2>8 DEF Told
    <2>10. Told \subseteq Told'
      BY <2>2, ToldKept
    <2>11. toGame \in Wire(Told')
      BY <2>10, WireMonotonic DEF Inv, Typed
    <2>12. ASSUME NEW h \in Game
           PROVE  [toGame[h] EXCEPT ![d] = Append(@, Watch(m.key, m.info))]
                    \in [Dispatcher -> Seq(Told')]
      <3>1. toGame[h] \in [Dispatcher -> Seq(Told')] /\ toGame[h][d] \in Seq(Told')
        BY <2>11 DEF Wire
      <3>2. Append(toGame[h][d], Watch(m.key, m.info)) \in Seq(Told')
        BY <2>9, <3>1
      <3> QED BY <3>1, <3>2
    <2>13. toGame' \in Wire(Told')
      BY <2>1, <2>11, <2>12 DEF Wire
    <2> QED BY <2>1, <2>2, <2>3, <2>4, <2>13
  <1> QED BY <1>4, <1>5

LEMMA ServeInv ==
  ASSUME Inv, NEW g \in Game, NEW d \in Dispatcher, Serve(g, d)
  PROVE  Inv'
  <1> DEFINE m == Head(toDisp[g][d])
  <1>1. m \in Said /\ toDisp' \in Wire(Said)
    BY TailTyped DEF Serve, Inv, Typed
  <1>2. UNCHANGED <<up, linked, ready, srvmap, serviceMap, ents, delayed, nextId, lost, budget>>
    BY DEF Serve, gameVars
  <1>3. \/ HandleSetGameID(g, d)
        \/ UNCHANGED <<registry, known, toGame>>
        \/ m.type = "register" /\ HandleSrvdisRegister(d, m)
    BY DEF Serve
  <1> HIDE DEF m
  <1>4. /\ known' \in [Dispatcher -> SUBSET Game] /\ toGame' \in Wire(Told')
        /\ registry' \in [Key -> Info \cup {None}]
        /\ registry'["name"] \in Game \cup {None} /\ registry'["eid"] \in Id \cup {None}
        /\ registry["name"] = None \/ registry'["name"] = registry["name"]
    <2>1. CASE HandleSetGameID(g, d) \/ UNCHANGED <<registry, known, toGame>>
      <3>1. registry' = registry /\ known' \in [Dispatcher -> SUBSET Game] /\ toGame' \in Wire(Told)
        BY <2>1, HandleSetGameIDInv DEF Inv, Typed
      <3>2. Told' = Told
        BY <1>2, <3>1, NothingLearned
      <3> QED BY <3>1, <3>2 DEF Inv, Typed
    <2>2. CASE m.type = "register" /\ HandleSrvdisRegister(d, m)
      BY <1>1, <1>2, <2>2, HandleSrvdisRegisterInv DEF Inv, Typed
    <2> QED BY <1>3, <2>1, <2>2
  <1>5. Typed'
    BY <1>1, <1>2, <1>4 DEF Inv, Typed
  <1>6. Copies'
    BY <1>2, <1>4, AgreesKept DEF Inv, Copies
  <1>7. Hosts'
    BY <1>2, <1>4, InfoAssumption DEF Inv, Hosts
  <1> QED BY <1>5, <1>6, <1>7 DEF Inv

LEMMA HandlePacketInv ==
  ASSUME Inv, NEW g \in Game, NEW d \in Dispatcher, HandlePacket(g, d)
  PROVE  Inv'
  <1> DEFINE m == Head(toGame[g][d])
  <1>1. m \in Told /\ toGame' \in Wire(Told)
    BY TailTyped DEF HandlePacket, Inv, Typed
  <1>2. /\ UNCHANGED <<registry, known, up, linked, serviceMap, ents, delayed, toDisp,
                       nextId, lost, budget>>
        /\ \/ m.type = "ack" /\ srvmap' = OnSetGameIDAck(g, d, m)
           \/ m.type = "watch" /\ srvmap' = [srvmap EXCEPT ![g][m.key] = m.info]
        /\ ready' = [ready EXCEPT ![g] = TRUE] \/ ready' = ready
    BY DEF HandlePacket
  <1> HIDE DEF m
  <1>3. ASSUME NEW k, NEW info PROVE Agrees(k, info)' <=> Agrees(k, info)
    BY <1>2 DEF Agrees
  <1>4. Told' = Told
    BY <1>3 DEF Told
  <1>5. ready' \in [Game -> BOOLEAN]
    BY <1>2 DEF Inv, Typed
  <1>6. srvmap \in [Game -> [Key -> Info \cup {None}]]
    BY DEF Inv, Typed
  <1>7. /\ srvmap' \in [Game -> [Key -> Info \cup {None}]]
        /\ \A h \in Game, k \in Key : srvmap'[h][k] # None => Agrees(k, srvmap'[h][k])
    <2>1. CASE m.type = "ack" /\ srvmap' = OnSetGameIDAck(g, d, m)
      <3>1. m.map \in [Key -> Info \cup {None}]
        BY <1>1, <2>1 DEF Told, Messages, Register, Watch, Ack, SetGameID, Stale
      <3>2. \A k \in Key : m.map[k] # None => Agrees(k, m.map[k])
        BY <1>1, <2>1 DEF Told
      <3>3. srvmap' = [srvmap EXCEPT ![g] =
                         [k \in Key |-> IF DispatcherOfKey[k] = d THEN m.map[k] ELSE srvmap[g][k]]]
        BY <2>1 DEF OnSetGameIDAck
      <3>4. srvmap' \in [Game -> [Key -> Info \cup {None}]]
        BY <1>6, <3>1, <3>3
      <3>5. ASSUME NEW h \in Game, NEW k \in Key
            PROVE  srvmap'[h][k] = srvmap[h][k] \/ srvmap'[h][k] = m.map[k]
        BY <1>6, <3>3
      <3> QED BY <3>2, <3>4, <3>5 DEF Inv, Copies
    <2>2. CASE m.type = "watch" /\ srvmap' = [srvmap EXCEPT ![g][m.key] = m.info]
      <3>1. m.key \in Key /\ m.info \in Info /\ Agrees(m.key, m.info)
        BY <1>1, <2>2 DEF Told, Messages, Register, Watch, Ack, SetGameID, Stale
      <3>2. srvmap' \in [Game -> [Key -> Info \cup {None}]]
        BY <1>6, <2>2, <3>1
      <3>3. ASSUME NEW h \in Game, NEW k \in Key
            PROVE  srvmap'[h][k] = srvmap[h][k] \/ (k = m.key /\ srvmap'[h][k] = m.info)
        BY <1>6, <2>2
      <3> QED BY <3>1, <3>2, <3>3 DEF Inv, Copies
    <2> QED BY <1>2, <2>1, <2>2
  <1>8. Typed'
    BY <1>1, <1>2, <1>4, <1>5, <1>7 DEF Inv, Typed
  <1>9. Copies'
    BY <1>3, <1>7 DEF Copies
  <1>10. Hosts'
    BY <1>2 DEF Inv, Hosts
  <1> QED BY <1>8, <1>9, <1>10 DEF Inv

\* Only the game the registry names creates an entity.
LEMMA CheckServicesInv ==
  ASSUME Inv, NEW g \in Game, CheckServices(g)
  PROVE  Inv'
  <1>1. /\ UNCHANGED <<registry, known, up, linked, ready, srvmap, toGame, lost, budget>>
        /\ serviceMap' = [serviceMap EXCEPT ![g] = IF Found(g) THEN srvmap[g]["eid"] ELSE None]
        /\ delayed' = [delayed EXCEPT ![g] = @ \/ srvmap[g]["name"] = None]
    BY DEF CheckServices
  <1>2. "name" \in Key /\ "eid" \in Key
    BY DEF Key
  <1>3. Copies' /\ Told' = Told
    BY <1>1, NothingLearned
  <1>4. serviceMap' \in [Game -> Id \cup {None}]
    <2>1. srvmap[g]["eid"] # None => srvmap[g]["eid"] \in Id
      BY <1>2 DEF Inv, Copies, Agrees
    <2> QED BY <1>1, <2>1 DEF Inv, Typed, Found
  <1>5. delayed' \in [Game -> BOOLEAN]
    BY <1>1 DEF Inv, Typed
  <1>6. nextId \in 0 .. MaxIds /\ ents \in [Game -> SUBSET (1 .. nextId)] /\ MaxIds \in Nat
    BY LimitAssumption DEF Inv, Typed
  <1>7. Needed(g) => lost \/ registry["name"] = g
    BY <1>2, InfoAssumption DEF Needed, Inv, Copies, Agrees
  <1>8. /\ nextId' \in 0 .. MaxIds /\ ents' \in [Game -> SUBSET (1 .. nextId')]
        /\ toDisp' \in Wire(Said)
        /\ \A h \in Game : ents'[h] # {} => ents[h] # {} \/ (h = g /\ Needed(g))
    <2>1. CASE KeepLocal(g)
      BY <1>6, <2>1 DEF KeepLocal, Inv, Typed
    <2>2. CASE CreateServiceEntity(g)
      <3>1. /\ Needed(g) /\ nextId < MaxIds /\ nextId' = nextId + 1
            /\ ents' = [ents EXCEPT ![g] = {nextId + 1}]
            /\ toDisp' = Tell(toDisp, g, "eid", Register("eid", nextId + 1, TRUE))
        BY <2>2 DEF CreateServiceEntity
      <3>2. nextId' \in 0 .. MaxIds /\ nextId + 1 \in Id /\ 1 .. nextId \subseteq 1 .. nextId'
            /\ nextId + 1 \in 1 .. nextId'
        BY <1>6, <3>1 DEF Id
      <3>3. ents' \in [Game -> SUBSET (1 .. nextId')]
        BY <1>6, <3>1, <3>2
      <3>4. Register("eid", nextId + 1, TRUE) \in Said
        BY <3>2 DEF Said
      <3>5. toDisp' \in Wire(Said)
        BY <1>2, <3>1, <3>4, TellTyped DEF Inv, Typed
      <3> QED BY <1>6, <3>1, <3>2, <3>3, <3>5
    <2>3. CASE ReportServiceEntity(g)
      <3>1. ents' = ents /\ nextId' = nextId
        BY <2>3 DEF ReportServiceEntity
      <3>2. PICK x \in ents[g] :
              \/ toDisp' = Tell(toDisp, g, "eid", Register("eid", x, TRUE))
              \/ toDisp' = toDisp
        BY <2>3 DEF ReportServiceEntity
      <3>3. x \in Id
        BY <1>6, <3>2 DEF Id
      <3>4. Register("eid", x, TRUE) \in Said
        BY <3>3 DEF Said
      <3>5. toDisp' \in Wire(Said)
        <4>1. toDisp \in Wire(Said)
          BY DEF Inv, Typed
        <4>2. Tell(toDisp, g, "eid", Register("eid", x, TRUE)) \in Wire(Said)
          BY <1>2, <3>4, <4>1, TellTyped
        <4> QED BY <3>2, <4>1, <4>2
      <3>6. nextId' \in 0 .. MaxIds /\ ents' \in [Game -> SUBSET (1 .. nextId')]
        BY <1>6, <3>1
      <3> QED BY <3>1, <3>5, <3>6
    <2>4. CASE DropOtherEntities(g)
      BY <1>6, <2>4 DEF DropOtherEntities, Inv, Typed
    <2> QED BY <2>1, <2>2, <2>3, <2>4 DEF CheckServices
  <1>9. Typed'
    BY <1>1, <1>3, <1>4, <1>5, <1>8 DEF Inv, Typed
  <1>10. Hosts'
    BY <1>1, <1>7, <1>8 DEF Inv, Hosts
  <1> QED BY <1>3, <1>9, <1>10 DEF Inv

LEMMA RegisterNameInv ==
  ASSUME Inv, NEW g \in Game, RegisterName(g)
  PROVE  Inv'
  <1>1. /\ UNCHANGED <<registry, known, up, linked, ready, srvmap, serviceMap, ents,
                       toGame, nextId, lost, budget>>
        /\ delayed' = [delayed EXCEPT ![g] = FALSE]
        /\ toDisp' = Tell(toDisp, g, "name", Register("name", g, FALSE))
    BY DEF RegisterName
  <1>2. Register("name", g, FALSE) \in Said /\ "name" \in Key
    BY DEF Said, Key
  <1>3. toDisp' \in Wire(Said)
    BY <1>1, <1>2, TellTyped DEF Inv, Typed
  <1>4. delayed' \in [Game -> BOOLEAN]
    BY <1>1 DEF Inv, Typed
  <1>5. Copies' /\ Told' = Told
    BY <1>1, NothingLearned
  <1>6. Typed'
    BY <1>1, <1>3, <1>4, <1>5 DEF Inv, Typed
  <1>7. Hosts'
    BY <1>1 DEF Inv, Hosts
  <1> QED BY <1>5, <1>6, <1>7 DEF Inv

\* The inductive invariant: every step of games and dispatchers keeps the types and
\* the agreement of all copies of the registry on who hosts the service.
THEOREM Inductive ==
  Inv /\ [Next]_vars => Inv'
  <1> SUFFICES ASSUME Inv, [Next]_vars PROVE Inv'
    OBVIOUS
  <1>1. ASSUME NEW g \in Game, GameCrash(g) PROVE Inv'
    BY <1>1, GameCrashInv
  <1>2. ASSUME NEW g \in Game, GameRestart(g) PROVE Inv'
    BY <1>2, GameRestartInv
  <1>3. ASSUME NEW g \in Game, CheckServices(g) PROVE Inv'
    BY <1>3, CheckServicesInv
  <1>4. ASSUME NEW g \in Game, RegisterName(g) PROVE Inv'
    BY <1>4, RegisterNameInv
  <1>5. ASSUME NEW g \in Game, NEW d \in Dispatcher, Connect(g, d) PROVE Inv'
    BY <1>5, ConnectInv
  <1>6. ASSUME NEW g \in Game, NEW d \in Dispatcher, Serve(g, d) PROVE Inv'
    BY <1>6, ServeInv
  <1>7. ASSUME NEW g \in Game, NEW d \in Dispatcher, HandlePacket(g, d) PROVE Inv'
    BY <1>7, HandlePacketInv
  <1>8. ASSUME NEW d \in Dispatcher, DispatcherCrash(d) PROVE Inv'
    BY <1>8, DispatcherCrashInv
  <1>9. CASE UNCHANGED vars
    <2>1. Copies' /\ Told' = Told
      BY <1>9, NothingLearned DEF vars, gameVars
    <2> QED BY <1>9, <2>1 DEF vars, gameVars, Inv, Typed, Hosts
  <1> QED BY <1>1, <1>2, <1>3, <1>4, <1>5, <1>6, <1>7, <1>8, <1>9 DEF Next

-----------------------------------------------------------------------------
(* The registry as its readers know it                                      *)

\* What may be on its way: a SET_GAME_ID only on a connection that is open, and
\* the entries of a dispatcher only to it and from it.
SaidTo(g, d) ==
  {m \in Said : /\ m = SetGameID => d \in linked[g]
                /\ m.type = "register" => DispatcherOfKey[m.key] = d}
ToldBy(d) == {m \in Messages : m.type = "watch" => DispatcherOfKey[m.key] = d}

Placed ==
  \A g \in Game, d \in Dispatcher :
    /\ g \in known[d] => d \in linked[g]
    /\ toDisp[g][d] \in Seq(SaidTo(g, d))
    /\ toGame[g][d] \in Seq(ToldBy(d))

\* The messages that set the entry of k, and what they set it to.
Concerns(m, k) == m.type = "ack" \/ (m.type = "watch" /\ m.key = k)
Entry(m, k) == IF m.type = "ack" THEN m.map[k] ELSE m.info

\* A game that has v for k and reads q will then have r.
Current(q, k, v, r) ==
  \/ v = r /\ \A i \in 1 .. Len(q) : ~ Concerns(q[i], k)
  \/ \E i \in 1 .. Len(q) :
       /\ Concerns(q[i], k) /\ Entry(q[i], k) = r
       /\ \A j \in (i + 1) .. Len(q) : ~ Concerns(q[j], k)

\* Every game a dispatcher broadcasts to will have its entries, once it has read
\* what was sent to it.
Fresh ==
  \A g \in Game, k \in Key :
    g \in known[DispatcherOfKey[k]] =>
      Current(toGame[g][DispatcherOfKey[k]], k, srvmap[g][k], registry[k])

LEMMA CurrentRest ==
  ASSUME NEW k, NEW v, NEW r, Current(<<>>, k, v, r)
  PROVE  v = r
  BY DEF Current

LEMMA CurrentOther ==
  ASSUME NEW S, NEW q \in Seq(S), NEW m \in S, NEW k, NEW v, NEW r,
         ~ Concerns(m, k), Current(q, k, v, r)
  PROVE  Current(Append(q, m), k, v, r)
  <1> DEFINE p == Append(q, m)
  <1>1. Len(p) = Len(q) + 1 /\ Len(q) \in Nat
    OBVIOUS
  <1>2. \A i \in 1 .. Len(q) : p[i] = q[i]
    OBVIOUS
  <1>3. p[Len(q) + 1] = m
    OBVIOUS
  <1> HIDE DEF p
  <1>4. CASE v = r /\ \A i \in 1 .. Len(q) : ~ Concerns(q[i], k)
    <2>1. ASSUME NEW i \in 1 .. Len(p) PROVE ~ Concerns(p[i], k)
      <3>1. i \in 1 .. Len(q) \/ i = Len(q) + 1
        BY <1>1
      <3> QED BY <1>2, <1>3, <1>4, <3>1
    <2> QED BY <1>4, <2>1 DEF Current, p
  <1>5. CASE \E i \in 1 .. Len(q) : /\ Concerns(q[i], k) /\ Entry(q[i], k) = r
                                    /\ \A j \in (i + 1) .. Len(q) : ~ Concerns(q[j], k)
    <2>1. PICK i \in 1 .. Len(q) : /\ Concerns(q[i], k) /\ Entry(q[i], k) = r
                                   /\ \A j \in (i + 1) .. Len(q) : ~ Concerns(q[j], k)
      BY <1>5
    <2>2. i \in 1 .. Len(p) /\ Concerns(p[i], k) /\ Entry(p[i], k) = r
      BY <1>1, <1>2, <2>1
    <2>3. ASSUME NEW j \in (i + 1) .. Len(p) PROVE ~ Concerns(p[j], k)
      <3>1. \/ j \in (i + 1) .. Len(q) /\ j \in 1 .. Len(q)
            \/ j = Len(q) + 1
        BY <1>1
      <3> QED BY <1>2, <1>3, <2>1, <3>1
    <2> QED BY <2>2, <2>3 DEF Current, p
  <1> QED BY <1>4, <1>5 DEF Current

LEMMA CurrentNews ==
  ASSUME NEW S, NEW q \in Seq(S), NEW m \in S, NEW k, NEW v,
         Concerns(m, k)
  PROVE  Current(Append(q, m), k, v, Entry(m, k))
  <1> DEFINE p == Append(q, m)
  <1>1. Len(p) = Len(q) + 1 /\ Len(q) \in Nat /\ p[Len(q) + 1] = m
    OBVIOUS
  <1> HIDE DEF p
  <1>2. \A j \in (Len(p) + 1) .. Len(p) : ~ Concerns(p[j], k)
    BY <1>1
  <1>3. Len(p) \in 1 .. Len(p) /\ p[Len(p)] = m
    BY <1>1
  <1> QED BY <1>2, <1>3 DEF Current, p

LEMMA CurrentRead ==
  ASSUME NEW S, NEW q \in Seq(S), q # <<>>, NEW k, NEW v, NEW r, NEW w,
         Concerns(Head(q), k) => w = Entry(Head(q), k),
         ~ Concerns(Head(q), k) => w = v,
         Current(q, k, v, r)
  PROVE  Current(Tail(q), k, w, r)
  <1> DEFINE p == Tail(q)
  <1>1. Len(p) = Len(q) - 1 /\ Len(q) \in Nat \ {0} /\ Head(q) = q[1]
    OBVIOUS
  <1>2. \A i \in 1 .. Len(p) : p[i] = q[i + 1]
    OBVIOUS
  <1> HIDE DEF p
  <1>3. CASE v = r /\ \A i \in 1 .. Len(q) : ~ Concerns(q[i], k)
    <2>1. w = r
      BY <1>1, <1>3
    <2>2. \A i \in 1 .. Len(p) : ~ Concerns(p[i], k)
      BY <1>1, <1>2, <1>3
    <2> QED BY <2>1, <2>2 DEF Current, p
  <1>4. ASSUME NEW i \in 1 .. Len(q), Concerns(q[i], k), Entry(q[i], k) = r,
               \A j \in (i + 1) .. Len(q) : ~ Concerns(q[j], k)
        PROVE  Current(p, k, w, r)
    <2>1. CASE i = 1
      <3>1. w = r
        BY <1>1, <1>4, <2>1
      <3>2. ASSUME NEW j \in 1 .. Len(p) PROVE ~ Concerns(p[j], k)
        <4>1. j + 1 \in (i + 1) .. Len(q)
          BY <1>1, <2>1
        <4> QED BY <1>2, <1>4, <4>1
      <3> QED BY <3>1, <3>2 DEF Current
    <2>2. CASE i # 1
      <3>1. i - 1 \in 1 .. Len(p) /\ p[i - 1] = q[i]
        BY <1>1, <1>2, <2>2
      <3>2. ASSUME NEW j \in ((i - 1) + 1) .. Len(p) PROVE ~ Concerns(p[j], k)
        <4>1. j + 1 \in (i + 1) .. Len(q) /\ j \in 1 .. Len(p)
          BY <1>1, <2>2
        <4> QED BY <1>2, <1>4, <4>1
      <3> QED BY <1>4, <3>1, <3>2 DEF Current
    <2> QED BY <2>1, <2>2
  <1> QED BY <1>3, <1>4 DEF Current, p

LEMMA SeqSubset ==
  ASSUME NEW S, NEW T, S \subseteq T, NEW q \in Seq(S)
  PROVE  q \in Seq(T)
  OBVIOUS

LEMMA PrefixTyped ==
  ASSUME NEW S, NEW q \in Seq(S), NEW p \in Seq(Messages), IsPrefix(p, q)
  PROVE  p \in Seq(S)
  <1>1. Len(p) <= Len(q) /\ SubSeq(p, 1, Len(p)) = SubSeq(q, 1, Len(p))
    BY DEF IsPrefix
  <1>2. p = SubSeq(p, 1, Len(p))
    OBVIOUS
  <1>3. Len(p) \in Nat /\ SubSeq(q, 1, Len(p)) \in Seq(S)
    BY <1>1
  <1> QED BY <1>1, <1>2, <1>3

\* Each action keeps what is placed and what is fresh.
LEMMA InitSeen ==
  Init => Placed /\ Fresh
  <1> SUFFICES ASSUME Init PROVE Placed /\ Fresh
    OBVIOUS
  <1>1. \A S : <<>> \in Seq(S)
    OBVIOUS
  <1>2. Placed
    BY <1>1 DEF Init, Placed
  <1>3. Fresh
    BY KeyAssumption DEF Init, Fresh
  <1> QED BY <1>2, <1>3

\* A step that sends no SET_GAME_ID and opens no connection.
LEMMA SaidToKept ==
  ASSUME NEW h \in Game, NEW e \in Dispatcher, e \in linked[h] => e \in linked'[h]
  PROVE  SaidTo(h, e) \subseteq SaidTo(h, e)'
  BY DEF SaidTo

LEMMA TellPlaced ==
  ASSUME Inv, Placed, NEW g \in Game, NEW k \in Key, NEW m \in Said,
         m.type = "register", m.key = k,
         NEW h \in Game, NEW e \in Dispatcher
  PROVE  Tell(toDisp, g, k, m)[h][e] \in Seq(SaidTo(h, e))
  <1>1. /\ toDisp[h][e] \in Seq(SaidTo(h, e)) /\ toDisp[g] \in [Dispatcher -> Seq(Said)]
        /\ toDisp \in [Game -> [Dispatcher -> Seq(Said)]]
    BY DEF Placed, Inv, Typed, Wire
  <1>2. CASE DispatcherOfKey[k] \notin linked[g] \/ h # g \/ e # DispatcherOfKey[k]
    <2>1. Tell(toDisp, g, k, m)[h][e] = toDisp[h][e]
      BY <1>1, <1>2 DEF Tell
    <2> QED BY <1>1, <2>1
  <1>3. CASE DispatcherOfKey[k] \in linked[g] /\ h = g /\ e = DispatcherOfKey[k]
    <2>1. Tell(toDisp, g, k, m)[h][e] = Append(toDisp[h][e], m)
      BY <1>1, <1>3 DEF Tell
    <2>2. m \in SaidTo(h, e)
      BY <1>3 DEF SaidTo, SetGameID
    <2> QED BY <1>1, <2>1, <2>2
  <1> QED BY <1>2, <1>3

LEMMA ConnectSeen ==
  ASSUME Inv, Placed, Fresh, NEW g \in Game, NEW d \in Dispatcher, Connect(g, d)
  PROVE  Placed' /\ Fresh'
  <1>1. /\ UNCHANGED <<registry, known, srvmap, toGame>>
        /\ linked' = [linked EXCEPT ![g] = @ \cup {d}]
        /\ toDisp' = [toDisp EXCEPT ![g][d] = Append(@, SetGameID)]
    BY DEF Connect
  <1>2. ASSUME NEW h \in Game, NEW e \in Dispatcher
        PROVE  /\ h \in known'[e] => e \in linked'[h]
               /\ toDisp'[h][e] \in Seq(SaidTo(h, e)')
               /\ toGame'[h][e] \in Seq(ToldBy(e))
    <2>1. linked[h] \subseteq linked'[h] /\ d \in linked'[g]
      BY <1>1 DEF Inv, Typed
    <2>2. toDisp[h][e] \in Seq(SaidTo(h, e)')
      BY <2>1, SaidToKept, SeqSubset DEF Placed
    <2>3. SetGameID \in SaidTo(g, d)'
      BY <2>1 DEF SaidTo, Said, SetGameID
    <2>4. toDisp'[h][e] = toDisp[h][e]
          \/ (h = g /\ e = d /\ toDisp'[h][e] = Append(toDisp[h][e], SetGameID))
      BY <1>1 DEF Inv, Typed, Wire
    <2> QED BY <1>1, <2>1, <2>2, <2>3, <2>4 DEF Placed
  <1>3. Placed'
    BY <1>2 DEF Placed, ToldBy
  <1>4. Fresh'
    BY <1>1 DEF Fresh
  <1> QED BY <1>3, <1>4

LEMMA GameCrashSeen ==
  ASSUME Inv, Placed, Fresh, NEW g \in Game, GameCrash(g)
  PROVE  Placed' /\ Fresh'
  <1>1. /\ registry' = registry
        /\ linked' = [linked EXCEPT ![g] = {}]
        /\ srvmap' = [srvmap EXCEPT ![g] = NoInfo]
        /\ known' = [d \in Dispatcher |-> known[d] \ {g}]
        /\ toGame' = [toGame EXCEPT ![g] = [d \in Dispatcher |-> <<>>]]
    BY DEF GameCrash
  <1>2. PICK r \in Cuts(toDisp) :
          /\ Cut(toDisp, r, {g} \X Dispatcher)
          /\ toDisp' = [r EXCEPT ![g] = [d \in Dispatcher |-> Outdated(r[g][d])]]
    BY DEF GameCrash
  <1>3. r \in Wire(Said)
    BY CutTyped DEF Inv, Typed
  <1>4. ASSUME NEW h \in Game, NEW e \in Dispatcher, h # g
        PROVE  /\ linked'[h] = linked[h] /\ srvmap'[h] = srvmap[h]
               /\ toDisp'[h][e] = toDisp[h][e] /\ toGame'[h][e] = toGame[h][e]
    <2>1. r[h][e] = toDisp[h][e]
      <3>1. <<h, e>> \notin {g} \X Dispatcher
        BY <1>4
      <3> QED BY <1>2, <3>1 DEF Cut
    <2>2. toDisp'[h] = r[h]
      BY <1>2, <1>3, <1>4 DEF Wire
    <2> QED BY <1>1, <1>4, <2>1, <2>2 DEF Inv, Typed, Wire
  <1>5. ASSUME NEW e \in Dispatcher
        PROVE  toDisp'[g][e] \in Seq(SaidTo(g, e)') /\ toGame'[g][e] = <<>>
    <2>1. toDisp'[g][e] = Outdated(r[g][e]) /\ r[g][e] \in Seq(Said)
      BY <1>2, <1>3 DEF Wire
    <2>2. toGame'[g][e] = <<>>
      BY <1>1 DEF Inv, Typed, Wire
    <2>3. IsPrefix(r[g][e], toDisp[g][e])
      BY <1>2 DEF Cut
    <2>4. toDisp[g][e] \in Seq(SaidTo(g, e)) /\ r[g][e] \in Seq(Messages)
      BY <2>1, SaidInMessages, SeqSubset DEF Placed
    <2>5. r[g][e] \in Seq(SaidTo(g, e))
      BY <2>3, <2>4, PrefixTyped
    <2>6. DEFINE p == r[g][e]
    <2> HIDE DEF p
    <2>7. p \in Seq(SaidTo(g, e))
      BY <2>5 DEF p
    <2>8. \A m \in SaidTo(g, e) : m # SetGameID => m \in SaidTo(g, e)'
      BY DEF SaidTo
    <2>9. Stale \in SaidTo(g, e)'
      BY DEF SaidTo, Said, Stale, SetGameID
    <2>10. \A i \in 1 .. Len(p) : Outdated(p)[i] \in SaidTo(g, e)'
      BY <2>7, <2>8, <2>9 DEF Outdated
    <2>11. DOMAIN Outdated(p) = 1 .. Len(p) /\ Len(p) \in Nat
           /\ Outdated(p) = [i \in 1 .. Len(p) |-> Outdated(p)[i]]
      BY <2>7 DEF Outdated
    <2>12. Outdated(p) \in Seq(SaidTo(g, e)')
      BY <2>10, <2>11
    <2> QED BY <2>1, <2>2, <2>12 DEF p
  <1>6. ASSUME NEW h \in Game, NEW e \in Dispatcher
        PROVE  /\ h \in known'[e] => e \in linked'[h]
               /\ toDisp'[h][e] \in Seq(SaidTo(h, e)')
               /\ toGame'[h][e] \in Seq(ToldBy(e))
    <2>1. CASE h = g
      <3>1. <<>> \in Seq(ToldBy(e))
        OBVIOUS
      <3> QED BY <1>1, <1>5, <2>1, <3>1
    <2>2. CASE h # g
      <3>1. SaidTo(h, e) \subseteq SaidTo(h, e)'
        BY <1>4, <2>2, SaidToKept
      <3>2. toDisp[h][e] \in Seq(SaidTo(h, e)')
        BY <3>1, SeqSubset DEF Placed
      <3>3. h \in known'[e] => h \in known[e]
        BY <1>1
      <3> QED BY <1>4, <2>2, <3>2, <3>3 DEF Placed
    <2> QED BY <2>1, <2>2
  <1>7. Placed'
    BY <1>6 DEF Placed, ToldBy
  <1>8. ASSUME NEW h \in Game, NEW k \in Key, h \in known'[DispatcherOfKey[k]]
        PROVE  Current(toGame[h][DispatcherOfKey[k]], k, srvmap[h][k], registry[k])'
    <2>1. PICK e \in Dispatcher : e = DispatcherOfKey[k]
      BY KeyAssumption
    <2>2. h # g /\ h \in known[e]
      BY <1>1, <1>8, <2>1
    <2>3. Current(toGame[h][e], k, srvmap[h][k], registry[k])
      BY <2>1, <2>2 DEF Fresh
    <2> QED BY <1>1, <1>4, <2>1, <2>2, <2>3
  <1>9. Fresh'
    BY <1>8 DEF Fresh
  <1> QED BY <1>7, <1>9

LEMMA DispatcherCrashSeen ==
  ASSUME Inv, Placed, Fresh, NEW d \in Dispatcher, DispatcherCrash(d)
  PROVE  Placed' /\ Fresh'
  <1>1. /\ srvmap' = srvmap
        /\ registry' = [k \in Key |-> IF DispatcherOfKey[k] = d THEN None ELSE registry[k]]
        /\ known' = [known EXCEPT ![d] = {}]
        /\ linked' = [g \in Game |-> linked[g] \ {d}]
        /\ toDisp' = [g \in Game |-> [toDisp[g] EXCEPT ![d] = <<>>]]
        /\ toGame' \in Cuts(toGame) /\ Cut(toGame, toGame', Game \X {d})
    BY DEF DispatcherCrash
  <1>2. ASSUME NEW h \in Game, NEW e \in Dispatcher
        PROVE  /\ h \in known'[e] => e \in linked'[h]
               /\ toDisp'[h][e] \in Seq(SaidTo(h, e)')
               /\ toGame'[h][e] \in Seq(ToldBy(e))
               /\ e # d => known'[e] = known[e] /\ toGame'[h][e] = toGame[h][e]
    <2>1. toGame'[h][e] \in Seq(ToldBy(e)) /\ (e # d => toGame'[h][e] = toGame[h][e])
      <3>1. toGame[h][e] \in Seq(ToldBy(e))
        BY DEF Placed
      <3>2. CASE e # d
        <4>1. <<h, e>> \notin Game \X {d}
          BY <3>2
        <4> QED BY <1>1, <3>1, <4>1 DEF Cut
      <3>3. CASE e = d
        <4>1. IsPrefix(toGame'[h][e], toGame[h][e])
          BY <1>1, <3>3 DEF Cut
        <4>2. toGame' \in Wire(Told)
          BY <1>1, CutTyped DEF Inv, Typed
        <4>3. toGame'[h][e] \in Seq(Told) /\ Told \subseteq Messages
          BY <4>2 DEF Wire, Told
        <4>4. toGame'[h][e] \in Seq(Messages)
          BY <4>3, SeqSubset
        <4> QED BY <3>1, <3>3, <4>1, <4>4, PrefixTyped
      <3> QED BY <3>2, <3>3
    <2>2. toDisp'[h][e] \in Seq(SaidTo(h, e)')
      <3>1. CASE e = d
        <4>1. toDisp'[h][e] = <<>>
          BY <1>1, <3>1 DEF Inv, Typed, Wire
        <4> QED BY <4>1
      <3>2. CASE e # d
        <4>1. toDisp'[h][e] = toDisp[h][e]
          BY <1>1, <3>2 DEF Inv, Typed, Wire
        <4>2. SaidTo(h, e) \subseteq SaidTo(h, e)'
          BY <1>1, <3>2, SaidToKept
        <4> QED BY <4>1, <4>2, SeqSubset DEF Placed
      <3> QED BY <3>1, <3>2
    <2>3. known'[e] = IF e = d THEN {} ELSE known[e]
      BY <1>1 DEF Inv, Typed
    <2> QED BY <1>1, <2>1, <2>2, <2>3 DEF Placed
  <1>3. Placed'
    BY <1>2 DEF Placed, ToldBy
  <1>4. ASSUME NEW h \in Game, NEW k \in Key, h \in known'[DispatcherOfKey[k]]
        PROVE  Current(toGame[h][DispatcherOfKey[k]], k, srvmap[h][k], registry[k])'
    <2>1. PICK e \in Dispatcher : e = DispatcherOfKey[k]
      BY KeyAssumption
    <2>2. e # d
      BY <1>1, <1>4, <2>1 DEF Inv, Typed
    <2>3. Current(toGame[h][e], k, srvmap[h][k], registry[k])
      BY <1>2, <1>4, <2>1, <2>2 DEF Fresh
    <2>4. registry'[k] = registry[k]
      BY <1>1, <2>1, <2>2
    <2> QED BY <1>1, <1>2, <2>1, <2>2, <2>3, <2>4
  <1>5. Fresh'
    BY <1>4 DEF Fresh
  <1> QED BY <1>3, <1>5

\* checkServices and the timer write only registrations, to the dispatcher of the key.
LEMMA RegisteringSeen ==
  ASSUME Inv, Placed, Fresh, UNCHANGED <<registry, known, linked, srvmap, toGame>>,
         \/ toDisp' = toDisp
         \/ \E g \in Game, k \in Key, m \in Said :
              m.type = "register" /\ m.key = k /\ toDisp' = Tell(toDisp, g, k, m)
  PROVE  Placed' /\ Fresh'
  <1>1. ASSUME NEW h \in Game, NEW e \in Dispatcher
        PROVE  toDisp'[h][e] \in Seq(SaidTo(h, e))
    BY TellPlaced DEF Placed
  <1>2. ASSUME NEW h \in Game, NEW e \in Dispatcher PROVE SaidTo(h, e)' = SaidTo(h, e)
    BY DEF SaidTo
  <1>3. Placed'
    BY <1>1, <1>2 DEF Placed, ToldBy
  <1> QED BY <1>3 DEF Fresh

LEMMA CheckServicesSeen ==
  ASSUME Inv, Placed, Fresh, NEW g \in Game, CheckServices(g)
  PROVE  Placed' /\ Fresh'
  <1>1. UNCHANGED <<registry, known, linked, srvmap, toGame>>
    BY DEF CheckServices
  <1>2. \/ toDisp' = toDisp
        \/ \E x \in Id : toDisp' = Tell(toDisp, g, "eid", Register("eid", x, TRUE))
    <2>1. nextId \in Nat /\ MaxIds \in Nat /\ nextId <= MaxIds /\ ents[g] \subseteq 1 .. nextId
      BY LimitAssumption DEF Inv, Typed
    <2>2. CASE CreateServiceEntity(g)
      <3>1. nextId + 1 \in Id
        BY <2>1, <2>2 DEF CreateServiceEntity, Id
      <3> QED BY <2>2, <3>1 DEF CreateServiceEntity
    <2>3. CASE ReportServiceEntity(g)
      <3>1. ents[g] \subseteq Id
        BY <2>1 DEF Id
      <3> QED BY <2>3, <3>1 DEF ReportServiceEntity
    <2>4. CASE KeepLocal(g) \/ DropOtherEntities(g)
      BY <2>4 DEF KeepLocal, DropOtherEntities
    <2> QED BY <2>2, <2>3, <2>4 DEF CheckServices
  <1>3. \A x \in Id : /\ Register("eid", x, TRUE) \in Said
                      /\ Register("eid", x, TRUE).type = "register"
                      /\ Register("eid", x, TRUE).key = "eid"
    BY DEF Said, Register
  <1>4. "eid" \in Key
    BY DEF Key
  <1> QED BY <1>1, <1>2, <1>3, <1>4, RegisteringSeen

LEMMA RegisterNameSeen ==
  ASSUME Inv, Placed, Fresh, NEW g \in Game, RegisterName(g)
  PROVE  Placed' /\ Fresh'
  <1>1. /\ UNCHANGED <<registry, known, linked, srvmap, toGame>>
        /\ toDisp' = Tell(toDisp, g, "name", Register("name", g, FALSE))
    BY DEF RegisterName
  <1>2. /\ Register("name", g, FALSE) \in Said /\ Register("name", g, FALSE).type = "register"
        /\ Register("name", g, FALSE).key = "name" /\ "name" \in Key
    BY DEF Said, Register, Key
  <1> QED BY <1>1, <1>2, RegisteringSeen

\* Whom a dispatcher begins to broadcast to is given all entries; an accepted
\* registration goes to all it broadcasts to.
LEMMA ServeSeen ==
  ASSUME Inv, Placed, Fresh, NEW g \in Game, NEW d \in Dispatcher, Serve(g, d)
  PROVE  Placed' /\ Fresh'
  <1> DEFINE m == Head(toDisp[g][d])
  <1>1. /\ toDisp[g][d] # <<>> /\ toDisp' = [toDisp EXCEPT ![g][d] = Tail(@)]
        /\ linked' = linked /\ srvmap' = srvmap
        /\ \/ m.type = "setGameID" /\ HandleSetGameID(g, d)
           \/ UNCHANGED <<registry, known, toGame>>
           \/ m.type = "register" /\ HandleSrvdisRegister(d, m)
    BY DEF Serve, gameVars
  <1>2. toDisp[g][d] \in Seq(SaidTo(g, d))
    BY DEF Placed
  <1>3. m \in SaidTo(g, d) /\ Tail(toDisp[g][d]) \in Seq(SaidTo(g, d))
    BY <1>1, <1>2
  <1>4. ASSUME NEW h \in Game, NEW e \in Dispatcher
        PROVE  toGame[h][e] \in Seq(Messages) /\ toGame[h][e] \in Seq(ToldBy(e))
    <2>1. toGame[h][e] \in Seq(Told) /\ Told \subseteq Messages
      BY DEF Inv, Typed, Wire, Told
    <2> QED BY <2>1, SeqSubset DEF Placed
  <1> HIDE DEF m
  <1>5. ASSUME NEW h \in Game, NEW e \in Dispatcher
        PROVE  toDisp'[h][e] \in Seq(SaidTo(h, e)')
    <2>1. SaidTo(h, e)' = SaidTo(h, e)
      BY <1>1 DEF SaidTo
    <2>2. toDisp'[h][e] = toDisp[h][e]
          \/ (h = g /\ e = d /\ toDisp'[h][e] = Tail(toDisp[g][d]))
      BY <1>1 DEF Inv, Typed, Wire
    <2> QED BY <1>3, <2>1, <2>2 DEF Placed
  <1>6. CASE UNCHANGED <<registry, known, toGame>>
    BY <1>1, <1>5, <1>6 DEF Placed, Fresh, ToldBy
  <1>7. CASE m.type = "setGameID" /\ HandleSetGameID(g, d)
    <2> DEFINE a == Ack([k \in Key |-> IF DispatcherOfKey[k] = d THEN registry[k] ELSE None])
    <2>1. /\ known' = [known EXCEPT ![d] = @ \cup {g}] /\ registry' = registry
          /\ toGame' = [toGame EXCEPT ![g][d] = Append(@, a)]
      BY <1>7 DEF HandleSetGameID
    <2>2. a \in Messages
      <3>1. [k \in Key |-> IF DispatcherOfKey[k] = d THEN registry[k] ELSE None]
              \in [Key -> Info \cup {None}]
        BY DEF Inv, Typed
      <3>2. \A f \in [Key -> Info \cup {None}] : Ack(f) \in Messages
        BY DEF Messages
      <3> QED BY <3>1, <3>2
    <2>3. a \in ToldBy(d) /\ \A k : Concerns(a, k)
      BY <2>2 DEF ToldBy, Concerns, Ack
    <2>4. \A k \in Key : DispatcherOfKey[k] = d => Entry(a, k) = registry[k]
      BY DEF Entry, Ack
    <2> HIDE DEF a
    <2>5. m = SetGameID
      BY <1>3, <1>7 DEF SaidTo, Said, SetGameID, Stale, Register
    <2>6. d \in linked[g]
      BY <1>3, <2>5 DEF SaidTo
    <2>7. ASSUME NEW h \in Game, NEW e \in Dispatcher
          PROVE  /\ h \in known'[e] => h \in known[e] \/ (h = g /\ e = d)
                 /\ \/ toGame'[h][e] = toGame[h][e] /\ (h # g \/ e # d)
                    \/ h = g /\ e = d /\ toGame'[h][e] = Append(toGame[h][e], a)
      BY <2>1 DEF Inv, Typed, Wire
    <2>8. Placed'
      <3>1. ASSUME NEW h \in Game, NEW e \in Dispatcher
            PROVE  toGame'[h][e] \in Seq(ToldBy(e)) /\ (h \in known'[e] => e \in linked'[h])
        <4>1. toGame[h][e] \in Seq(ToldBy(e)) /\ (e = d => a \in ToldBy(e))
          BY <2>3 DEF Placed
        <4>2. e = d => Append(toGame[h][e], a) \in Seq(ToldBy(e))
          BY <4>1
        <4>3. toGame'[h][e] \in Seq(ToldBy(e))
          BY <2>7, <4>1, <4>2
        <4> QED BY <1>1, <2>6, <2>7, <4>3 DEF Placed
      <3> QED BY <1>5, <3>1 DEF Placed, ToldBy
    <2>9. ASSUME NEW h \in Game, NEW k \in Key, h \in known'[DispatcherOfKey[k]]
          PROVE  Current(toGame[h][DispatcherOfKey[k]], k, srvmap[h][k], registry[k])'
      <3>1. PICK e \in Dispatcher : e = DispatcherOfKey[k]
        BY KeyAssumption
      <3>2. CASE h = g /\ e = d
        <4>1. Current(Append(toGame[h][e], a), k, srvmap[h][k], Entry(a, k))
          BY <1>4, <2>2, <2>3, <3>1, CurrentNews
        <4>2. toGame'[h][e] = Append(toGame[h][e], a)
          BY <2>7, <3>2
        <4>3. registry'[k] = Entry(a, k)
          BY <2>1, <2>4, <3>1, <3>2
        <4>4. srvmap' = srvmap
          BY <1>1
        <4> QED BY <3>1, <4>1, <4>2, <4>3, <4>4
      <3>3. CASE h # g \/ e # d
        <4>1. Current(toGame[h][e], k, srvmap[h][k], registry[k])
          BY <2>7, <2>9, <3>1, <3>3 DEF Fresh
        <4> QED BY <1>1, <2>1, <2>7, <3>1, <3>3, <4>1
      <3> QED BY <3>2, <3>3
    <2> QED BY <2>8, <2>9 DEF Fresh
  <1>8. CASE m.type = "register" /\ HandleSrvdisRegister(d, m)
    <2>1. /\ m.key \in Key /\ DispatcherOfKey[m.key] = d /\ m.info \in Info /\ known' = known
      BY <1>3, <1>8 DEF SaidTo, Said, SetGameID, Stale, Register, Key, Info, HandleSrvdisRegister
    <2>2. CASE ~ Accepted(m)
      <3>1. UNCHANGED <<registry, known, toGame>>
        BY <1>8, <2>2 DEF HandleSrvdisRegister
      <3> QED BY <1>6, <3>1
    <2>3. CASE Accepted(m)
      <3> DEFINE w == Watch(m.key, m.info)
      <3>1. /\ registry' = [registry EXCEPT ![m.key] = m.info]
            /\ toGame' = [h \in Game |-> IF h \in known[d] /\ d \in linked[h]
                                         THEN [toGame[h] EXCEPT ![d] = Append(@, w)]
                                         ELSE toGame[h]]
        BY <1>8, <2>3 DEF HandleSrvdisRegister
      <3>2. w \in Messages /\ w \in ToldBy(d)
        BY <2>1 DEF Messages, Watch, ToldBy
      <3>3. /\ Concerns(w, m.key) /\ Entry(w, m.key) = m.info
            /\ \A k : k # m.key => ~ Concerns(w, k)
        BY DEF Concerns, Entry, Watch
      <3> HIDE DEF w
      <3>4. ASSUME NEW h \in Game, NEW e \in Dispatcher
            PROVE  \/ toGame'[h][e] = toGame[h][e] /\ (e # d \/ h \notin known[d])
                   \/ e = d /\ toGame'[h][e] = Append(toGame[h][e], w)
        BY <3>1 DEF Placed, Inv, Typed, Wire
      <3>5. Placed'
        <4>1. ASSUME NEW h \in Game, NEW e \in Dispatcher
              PROVE  toGame'[h][e] \in Seq(ToldBy(e)) /\ (h \in known'[e] => e \in linked'[h])
          <5>1. toGame[h][e] \in Seq(ToldBy(e)) /\ (e = d => w \in ToldBy(e))
            BY <3>2 DEF Placed
          <5>2. e = d => Append(toGame[h][e], w) \in Seq(ToldBy(e))
            BY <5>1
          <5>3. toGame'[h][e] \in Seq(ToldBy(e))
            BY <3>4, <5>1, <5>2
          <5> QED BY <1>1, <2>1, <5>3 DEF Placed
        <4> QED BY <1>5, <4>1 DEF Placed, ToldBy
      <3>6. ASSUME NEW h \in Game, NEW k \in Key, h \in known'[DispatcherOfKey[k]]
            PROVE  Current(toGame[h][DispatcherOfKey[k]], k, srvmap[h][k], registry[k])'
        <4>1. PICK e \in Dispatcher : e = DispatcherOfKey[k]
          BY KeyAssumption
        <4>2. Current(toGame[h][e], k, srvmap[h][k], registry[k])
          BY <2>1, <3>6, <4>1 DEF Fresh
        <4>3. registry \in [Key -> Info \cup {None}] /\ toGame[h][e] \in Seq(Messages)
          BY <1>4, <4>1 DEF Inv, Typed
        <4>4. CASE e # d
          <5>1. k # m.key /\ registry'[k] = registry[k]
            BY <2>1, <3>1, <4>1, <4>3, <4>4
          <5> QED BY <1>1, <3>4, <4>1, <4>2, <4>4, <5>1
        <4>5. CASE e = d
          <5>1. toGame'[h][e] = Append(toGame[h][e], w)
            BY <2>1, <3>4, <3>6, <4>1, <4>5
          <5>2. CASE k = m.key
            <6>1. Current(Append(toGame[h][e], w), k, srvmap[h][k], Entry(w, k))
              BY <3>2, <3>3, <4>3, <5>2, CurrentNews
            <6>2. registry'[k] = Entry(w, k)
              BY <3>1, <3>3, <4>3, <5>2
            <6> QED BY <1>1, <4>1, <5>1, <6>1, <6>2
          <5>3. CASE k # m.key
            <6>1. Current(Append(toGame[h][e], w), k, srvmap[h][k], registry[k])
              BY <3>2, <3>3, <4>2, <4>3, <5>3, CurrentOther
            <6>2. registry'[k] = registry[k]
              BY <3>1, <4>3, <5>3
            <6> QED BY <1>1, <4>1, <5>1, <6>1, <6>2
          <5> QED BY <5>2, <5>3
        <4> QED BY <4>4, <4>5
      <3> QED BY <3>5, <3>6 DEF Fresh
    <2> QED BY <2>2, <2>3
  <1> QED BY <1>1, <1>6, <1>7, <1>8

LEMMA HandlePacketSeen ==
  ASSUME Inv, Placed, Fresh, NEW g \in Game, NEW d \in Dispatcher, HandlePacket(g, d)
  PROVE  Placed' /\ Fresh'
  <1> DEFINE m == Head(toGame[g][d])
  <1>1. /\ toGame[g][d] # <<>> /\ toGame' = [toGame EXCEPT ![g][d] = Tail(@)]
        /\ UNCHANGED <<registry, known, linked, toDisp>>
        /\ \/ m.type = "ack" /\ srvmap' = OnSetGameIDAck(g, d, m)
           \/ m.type = "watch" /\ srvmap' = [srvmap EXCEPT ![g][m.key] = m.info]
    BY DEF HandlePacket
  <1>2. /\ toGame[g][d] \in Seq(ToldBy(d)) /\ toGame[g][d] \in Seq(Messages)
        /\ srvmap \in [Game -> [Key -> Info \cup {None}]]
    <2>1. toGame[g][d] \in Seq(Told) /\ Told \subseteq Messages
      BY DEF Inv, Typed, Wire, Told
    <2> QED BY <2>1, SeqSubset DEF Placed, Inv, Typed
  <1>3. m \in ToldBy(d) /\ Tail(toGame[g][d]) \in Seq(ToldBy(d))
    BY <1>1, <1>2
  <1>4. ASSUME NEW h \in Game, NEW e \in Dispatcher
        PROVE  \/ toGame'[h][e] = toGame[h][e] /\ (h # g \/ e # d)
               \/ h = g /\ e = d /\ toGame'[h][e] = Tail(toGame[g][d])
    BY <1>1 DEF Inv, Typed, Wire
  <1>5. Placed'
    <2>1. ASSUME NEW h \in Game, NEW e \in Dispatcher PROVE SaidTo(h, e)' = SaidTo(h, e)
      BY <1>1 DEF SaidTo
    <2>2. ASSUME NEW h \in Game, NEW e \in Dispatcher
          PROVE  /\ h \in known'[e] => e \in linked'[h]
                 /\ toDisp'[h][e] \in Seq(SaidTo(h, e)')
                 /\ toGame'[h][e] \in Seq(ToldBy(e))
      BY <1>1, <1>3, <1>4, <2>1 DEF Placed
    <2> QED BY <2>2 DEF Placed, ToldBy
  <1> HIDE DEF m
  <1>6. ASSUME NEW h \in Game, NEW k \in Key, h \in known'[DispatcherOfKey[k]]
        PROVE  Current(toGame[h][DispatcherOfKey[k]], k, srvmap[h][k], registry[k])'
    <2>1. PICK e \in Dispatcher : e = DispatcherOfKey[k]
      BY KeyAssumption
    <2>2. Current(toGame[h][e], k, srvmap[h][k], registry[k])
      BY <1>1, <1>6, <2>1 DEF Fresh
    <2>3. CASE h # g \/ e # d
      <3>1. srvmap'[h][k] = srvmap[h][k]
        <4>1. CASE m.type = "ack" /\ srvmap' = OnSetGameIDAck(g, d, m)
          BY <1>2, <2>1, <2>3, <4>1 DEF OnSetGameIDAck
        <4>2. CASE m.type = "watch" /\ srvmap' = [srvmap EXCEPT ![g][m.key] = m.info]
          <5>1. DispatcherOfKey[m.key] = d
            BY <1>3, <4>2 DEF ToldBy
          <5> QED BY <1>2, <2>1, <2>3, <4>2, <5>1
        <4> QED BY <1>1, <4>1, <4>2
      <3> QED BY <1>1, <1>4, <2>1, <2>2, <2>3, <3>1
    <2>4. CASE h = g /\ e = d
      <3>1. /\ Concerns(m, k) => srvmap'[h][k] = Entry(m, k)
            /\ ~ Concerns(m, k) => srvmap'[h][k] = srvmap[h][k]
        <4>1. CASE m.type = "ack" /\ srvmap' = OnSetGameIDAck(g, d, m)
          <5>1. srvmap'[h][k] = m.map[k]
            BY <1>2, <2>1, <2>4, <4>1 DEF OnSetGameIDAck
          <5> QED BY <4>1, <5>1 DEF Concerns, Entry
        <4>2. CASE m.type = "watch" /\ srvmap' = [srvmap EXCEPT ![g][m.key] = m.info]
          <5>1. m.type # "ack" /\ (Concerns(m, k) <=> m.key = k) /\ Entry(m, k) = m.info
            BY <4>2 DEF Concerns, Entry
          <5> QED BY <1>2, <2>4, <4>2, <5>1
        <4> QED BY <1>1, <4>1, <4>2
      <3>2. Current(Tail(toGame[h][e]), k, srvmap'[h][k], registry[k])
        BY <1>1, <1>2, <2>2, <2>4, <3>1, CurrentRead DEF m
      <3> QED BY <1>1, <1>4, <2>1, <2>4, <3>2
    <2> QED BY <2>3, <2>4
  <1> QED BY <1>5, <1>6 DEF Fresh

LEMMA SeenNext ==
  Inv /\ Placed /\ Fresh /\ [Next]_vars => Placed' /\ Fresh'
  <1> SUFFICES ASSUME Inv, Placed, Fresh, [Next]_vars PROVE Placed' /\ Fresh'
    OBVIOUS
  <1>1. ASSUME NEW g \in Game, GameCrash(g) PROVE Placed' /\ Fresh'
    BY <1>1, GameCrashSeen
  <1>2. ASSUME NEW g \in Game, GameRestart(g) PROVE Placed' /\ Fresh'
    BY <1>2, RegisteringSeen DEF GameRestart
  <1>3. ASSUME NEW g \in Game, CheckServices(g) PROVE Placed' /\ Fresh'
    BY <1>3, CheckServicesSeen
  <1>4. ASSUME NEW g \in Game, RegisterName(g) PROVE Placed' /\ Fresh'
    BY <1>4, RegisterNameSeen
  <1>5. ASSUME NEW g \in Game, NEW d \in Dispatcher, Connect(g, d) PROVE Placed' /\ Fresh'
    BY <1>5, ConnectSeen
  <1>6. ASSUME NEW g \in Game, NEW d \in Dispatcher, Serve(g, d) PROVE Placed' /\ Fresh'
    BY <1>6, ServeSeen
  <1>7. ASSUME NEW g \in Game, NEW d \in Dispatcher, HandlePacket(g, d) PROVE Placed' /\ Fresh'
    BY <1>7, HandlePacketSeen
  <1>8. ASSUME NEW d \in Dispatcher, DispatcherCrash(d) PROVE Placed' /\ Fresh'
    BY <1>8, DispatcherCrashSeen
  <1>9. CASE UNCHANGED vars
    BY <1>9, RegisteringSeen DEF vars, gameVars
  <1> QED BY <1>1, <1>2, <1>3, <1>4, <1>5, <1>6, <1>7, <1>8, <1>9 DEF Next

-----------------------------------------------------------------------------
(* The theorems                                                             *)

LEMMA SpecInv ==
  Spec => []Inv
  <1> QED BY InitInv, Inductive, PTL DEF Spec

\* Registry, its copies, service entities and messages keep their types; entities
\* have ids that were given out.
THEOREM TypeCorrect ==
  Spec => []TypeOK
  <1>1. Inv => TypeOK
    <2> SUFFICES ASSUME Inv PROVE TypeOK
      OBVIOUS
    <2>1. Told \subseteq Messages /\ Said \subseteq Messages
      BY SaidInMessages DEF Told
    <2>2. toDisp \in Wire(Messages) /\ toGame \in Wire(Messages)
      BY <2>1, WireMonotonic DEF Inv, Typed
    <2> QED BY <2>2 DEF Inv, Typed, TypeOK, Wire
  <1> QED BY <1>1, SpecInv, PTL

\* Two games never have an entity of the service while no dispatcher has crashed,
\* however many games race, crash and come back, and however messages of different
\* dispatchers are ordered (handleSrvdisRegister, checkServices).
THEOREM OneInstanceAlways ==
  Spec => []OneInstance
  <1>1. Inv => OneInstance
    BY DEF Inv, Hosts, OneInstance
  <1> QED BY <1>1, SpecInv, PTL

\* A game that is connected to the dispatcher of an entry and has read all it was
\* sent has the entry as the dispatcher has it, through any crashes of games and
\* dispatchers and any number of accepted registrations (handleSrvdisRegister,
\* handleSetGameID, ClearByDispatcher).
THEOREM RegistryViewAlways ==
  Spec => []RegistryView
  <1>1. Placed /\ Fresh => RegistryView
    BY CurrentRest DEF Fresh, RegistryView
  <1> QED BY <1>1, InitSeen, SeenNext, SpecInv, PTL DEF Spec
=============================================================================
