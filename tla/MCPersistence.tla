---------------------------- MODULE MCPersistence ----------------------------
EXTENDS Persistence

StorageOnly ==
  {<<"storage", k, e>> : k \in {"save", "load", "exists"}, e \in Entity}
    \cup {<<"storage", "list", NoEntity>>}
KvdbOnly ==
  {<<"kvdb", "get", "h">>, <<"kvdb", "put", "h">>,
   <<"kvdb", "getorput", "">>, <<"kvdb", "range", "">>}
RankAndMongo == {<<"rank", k, "">> : k \in {"put", "list"}}
    \cup {<<"mongodb", k, "">> : k \in {"do", "close"}}
Mixed == {<<"storage", "save", e>> : e \in Entity}
    \cup {<<"kvdb", "getorput", "">>, <<"redis", "do", "">>}

Uses(storage, kvdb, requested) ==
  [storage |-> storage, kvdb |-> kvdb, requests |-> requested]
MCDeployment ==
  {Uses(s, KvMongodb, StorageOnly) : s \in {Filesystem, MySQL, MongoDB, RedisCluster}}
    \cup {Uses(Filesystem, k, KvdbOnly) : k \in {KvMysql, KvRedis}}
    \cup {Uses(Redis, KvRedisCluster, RankAndMongo), Uses(MySQL, KvMysql, Mixed)}
=============================================================================
