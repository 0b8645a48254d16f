-------------------------------- MODULE Jobs --------------------------------
(***************************************************************************)
(* The asynchronous jobs of a game process (engine/async, engine/post) and *)
(* the stores they work on: the key-value database (engine/kvdb), the      *)
(* ranking (engine/rank), and the MongoDB and Redis helpers of ext/db.     *)
(*                                                                         *)
(* A job group has one worker goroutine and one FIFO channel.  A job's     *)
(* result is posted to the main routine, which runs it from post.Tick.     *)
(* Requests carry numbers in the order the main routine made them; a       *)
(* written value is the number of the request that wrote it, 0 is the      *)
(* empty string, and Foreign is a value written by another game.           *)
(***************************************************************************)
EXTENDS Integers, Sequences, FiniteSets

CONSTANTS
  Entity,       \* persistent entities of the game
  MaxRequests,  \* bound: requests made in one life of the process
  MaxFaults,    \* bound: failures of the backends
  MaxQueue      \* consts.ASYNC_JOB_QUEUE_MAXLEN

ASSUME LimitAssumption ==
  /\ IsFiniteSet(Entity)
  /\ {MaxRequests, MaxFaults, MaxQueue} \subseteq Nat

VARIABLES
  asked,        \* history: the requests in order, [to, kind, on]
  callbacks,    \* posted answers not run yet: [id, error, value, ids]
  worker,       \* [Group -> {"none", "open", "closed"}]
  jobs,         \* [Group -> Seq(Nat)] : job channels; the head is being run
  engine,       \* [{"kvdb", "rank"} -> BOOLEAN] : is the engine connected?
  kvBackend,    \* the configured backend of the key-value database
  kv,           \* [Name -> Nat] : the value of one key, by hash name
  oldVal,       \* what a running GetOrPut has read, or NotRead
  session,      \* is the session of the gwmongo handle open?
  rank,         \* [score, details : BOOLEAN] : the two records of one player
  faults,       \* backend failures so far
  lost          \* requests whose job panicked

jobVars == <<worker, jobs, engine, kvBackend, kv, oldVal, session, rank, lost>>

Group == {"kvdb", "rank", "mongodb", "redis"}
Name == {"", "h"}        \* Get and Put use "", HGet and HPut a hash name
Foreign == MaxRequests + 1
NotRead == MaxRequests + 2
NoEntity == "-"

\* Contracts of the key-value backends: do hash names separate keys, does
\* Find work, which errors count as a lost connection, may opening panic?
KvMongodb == [names |-> FALSE, finds |-> TRUE,  eof |-> BOOLEAN, panics |-> FALSE]
KvMysql   == [names |-> FALSE, finds |-> TRUE,  eof |-> {TRUE},  panics |-> FALSE]
KvRedis   == [names |-> TRUE,  finds |-> FALSE, eof |-> BOOLEAN, panics |-> TRUE]
KvRedisCluster ==
  [names |-> TRUE, finds |-> FALSE, eof |-> BOOLEAN, panics |-> FALSE]
KvBackends == {KvMongodb, KvMysql, KvRedis, KvRedisCluster}

(* Kinds of jobs.  "kvdb": get, put, getorput, range (on a hash name);        *)
(* "rank": put, list; "mongodb": do (any operation of the handle), close;   *)
(* "redis": do.                                                            *)

\* The hash a key lives in.
Cell(name) == IF kvBackend.names THEN name ELSE ""

JobInit ==
  /\ worker = [g \in Group |-> "none"]
  /\ jobs = [g \in Group |-> << >>]
  /\ engine = [g \in {"kvdb", "rank"} |-> TRUE]
  /\ kv = [n \in Name |-> 0]
  /\ oldVal = NotRead
  /\ session = TRUE
  /\ rank = [score |-> FALSE, details |-> FALSE]
  /\ lost = {}

-----------------------------------------------------------------------------
\* Every request gets the next number; only the main routine makes requests.
Request(to, kind, on) ==
  asked' = Append(asked, [to |-> to, kind |-> kind, on |-> on])
NewId == Len(asked) + 1

Post(id, error, value, ids) ==
  callbacks' = Append(callbacks, [id |-> id, error |-> error, value |-> value, ids |-> ids])

\* Mutant: a job goes before those already waiting.
AppendAsyncJobMutant(g, kind, on) ==
  /\ Len(jobs[g]) < MaxQueue
  /\ Request(g, kind, on)
  /\ jobs' = [jobs EXCEPT ![g] = <<NewId>> \o @]
  /\ worker' = [worker EXCEPT ![g] = "open"]
  /\ UNCHANGED <<engine, kvBackend, kv, oldVal, session, rank, lost>>

\* AppendAsyncJob: the first job of a group starts its worker, and a full
\* channel blocks the caller.
AppendAsyncJob(g, kind, on) ==
  /\ Len(jobs[g]) < MaxQueue
  /\ Request(g, kind, on)
  /\ jobs' = [jobs EXCEPT ![g] = Append(@, NewId)]
  /\ worker' = [worker EXCEPT ![g] = "open"]
  /\ UNCHANGED <<engine, kvBackend, kv, oldVal, session, rank, lost>>

-----------------------------------------------------------------------------
(* What running a job may do to the stores and answer.                     *)

Outcome(k, s, r, value, error) ==
  [kv |-> k, session |-> s, rank |-> r, value |-> value, error |-> error]
Answers(value) == Outcome(kv, session, rank, value, "none")
Refuses(error) == Outcome(kv, session, rank, 0, error)
Fails == Refuses("fault")

\* A failed write may have reached the store.
KvPut(cell, id, value) ==
  LET written == [kv EXCEPT ![cell] = id]
  IN {Outcome(written, session, rank, value, "none"),
      Outcome(written, session, rank, 0, "fault"), Fails}

KvGet(cell) == {Answers(kv[cell]), Fails}

\* Mutant: the key is not written where nothing was found.
KvGetOrPutMutant(cell, id) == {Answers(oldVal)}

\* GetOrPut has read already: put only where the read found nothing.
KvGetOrPut(cell, id) ==
  IF oldVal = 0 THEN KvPut(cell, id, 0) ELSE {Answers(oldVal)}

\* A range is read through an iterator, whose end and whose lost connection
\* look alike: the answer may be cut short without an error.
KvGetRange(cell) ==
  IF kvBackend.finds THEN {Answers(kv[cell]), Answers(0), Fails}
  ELSE {Refuses("unsupported")}

KvdbOutcomes(id) ==
  LET r == asked[id]  cell == Cell(r.on)
  IN CASE r.kind = "get"      -> KvGet(cell)
       [] r.kind = "put"      -> KvPut(cell, id, 0)
       [] r.kind = "getorput" -> KvGetOrPut(cell, id)
       [] r.kind = "range"    -> KvGetRange(cell)

\* A score and the player's details are two writes; the second may fail.
RankPut ==
  LET scored == [rank EXCEPT !.score = TRUE]
      both   == [scored EXCEPT !.details = TRUE]
  IN {Outcome(kv, session, both, 1, "none"), Outcome(kv, session, both, 0, "fault"),
      Outcome(kv, session, scored, 0, "fault"), Fails}

\* Listing a player who has a score and no details writes into a nil map; the
\* iterator of a list, too, ends where the connection does.
RankList ==
  IF rank.score /\ ~rank.details THEN {Refuses("panic"), Answers(0), Fails}
  ELSE {Answers(IF rank.details THEN 1 ELSE 0), Answers(0), Fails}

RankOutcomes(id) == IF asked[id].kind = "put" THEN RankPut ELSE RankList

\* Every operation of a MongoDB handle first checks that it is connected.
MongoDo == {Answers(0), Fails}
MongoOutcomes(id) ==
  IF ~session THEN {Refuses("nosession")}
  ELSE IF asked[id].kind = "close" THEN {Outcome(kv, FALSE, rank, 0, "none")}
  ELSE MongoDo

RedisOutcomes(id) == {Answers(0), Fails}

Outcomes(g, id) ==
  CASE g = "kvdb"    -> KvdbOutcomes(id)
    [] g = "rank"    -> RankOutcomes(id)
    [] g = "mongodb" -> MongoOutcomes(id)
    [] g = "redis"   -> RedisOutcomes(id)

\* May an error of the group be taken for a lost connection?
IsConnectionError(g, error) ==
  CASE error = "fault"       -> IF g = "kvdb" THEN kvBackend.eof ELSE BOOLEAN
    [] error # "fault"       -> {FALSE}

-----------------------------------------------------------------------------
(* The worker of a group.                                                  *)

Ready(g) == g \in DOMAIN engine => engine[g]

\* The job at the head leaves the channel, answered or lost.
Finish(g) == jobs' = [jobs EXCEPT ![g] = Tail(@)]

\* GetOrPut reads first; another game may put between its read and its put.
ReadOldVal ==
  /\ jobs["kvdb"] # << >>
  /\ Ready("kvdb")
  /\ asked[Head(jobs["kvdb"])].kind = "getorput"
  /\ oldVal = NotRead
  /\ oldVal' = kv[Cell(asked[Head(jobs["kvdb"])].on)]
  /\ UNCHANGED <<asked, callbacks, worker, jobs, engine, kvBackend, kv, session,
                 rank, faults, lost>>

\* loop: run the routine, drop a lost connection, post the answer.  A panic
\* loses the job and its answer; the loop goes on with the next one.
RunJob(g) ==
  /\ jobs[g] # << >>
  /\ Ready(g)
  /\ LET id == Head(jobs[g])
     IN /\ asked[id].kind = "getorput" => oldVal # NotRead
        /\ \E o \in Outcomes(g, id) : \E eof \in IsConnectionError(g, o.error) :
             /\ o.error = "fault" => faults < MaxFaults
             /\ faults' = faults + (IF o.error = "fault" THEN 1 ELSE 0)
             /\ kv' = o.kv /\ session' = o.session /\ rank' = o.rank
             /\ engine' = IF g \in DOMAIN engine /\ eof
                          THEN [engine EXCEPT ![g] = FALSE] ELSE engine
             /\ IF o.error = "panic"
                THEN lost' = lost \cup {id} /\ UNCHANGED callbacks
                ELSE Post(id, o.error, o.value, {}) /\ UNCHANGED lost
  /\ Finish(g)
  /\ oldVal' = IF g = "kvdb" THEN NotRead ELSE oldVal
  /\ UNCHANGED <<asked, worker, kvBackend>>

\* The read of a GetOrPut fails: it answers the error and puts nothing.
ReadOldValFails ==
  /\ jobs["kvdb"] # << >>
  /\ Ready("kvdb")
  /\ asked[Head(jobs["kvdb"])].kind = "getorput"
  /\ oldVal = NotRead
  /\ faults < MaxFaults
  /\ faults' = faults + 1
  /\ \E eof \in IsConnectionError("kvdb", "fault") :
       engine' = [engine EXCEPT !["kvdb"] = ~eof]
  /\ Post(Head(jobs["kvdb"]), "fault", 0, {})
  /\ Finish("kvdb")
  /\ UNCHANGED <<asked, worker, kvBackend, kv, oldVal, session, rank, lost>>

\* assure...EngineReady, tried every second before a job runs.
OpenEngine(g) ==
  /\ jobs[g] # << >>
  /\ ~engine[g]
  /\ engine' = [engine EXCEPT ![g] = TRUE]
  /\ UNCHANGED <<asked, callbacks, worker, jobs, kvBackend, kv, oldVal, session,
                 rank, faults, lost>>

\* The Redis backends panic when the new connection cannot be initialised:
\* the job that wanted it is lost.
OpenEnginePanics(g) ==
  /\ jobs[g] # << >>
  /\ ~engine[g]
  /\ g = "kvdb" => kvBackend.panics
  /\ faults < MaxFaults
  /\ faults' = faults + 1
  /\ lost' = lost \cup {Head(jobs[g])}
  /\ Finish(g)
  /\ UNCHANGED <<asked, callbacks, worker, engine, kvBackend, kv, oldVal, session, rank>>

\* A closed and drained channel ends its worker.
WorkerQuits(g) ==
  /\ worker[g] = "closed"
  /\ jobs[g] = << >>
  /\ worker' = [worker EXCEPT ![g] = "none"]
  /\ UNCHANGED <<asked, callbacks, jobs, engine, kvBackend, kv, oldVal, session,
                 rank, faults, lost>>

\* Another game of the deployment writes the key; a write no waiting job
\* could notice is the same as one later, or as none.
ForeignPut ==
  /\ jobs["kvdb"] # << >>
  /\ \E n \in Name : kv' = [kv EXCEPT ![Cell(n)] = Foreign]
  /\ kv' # kv
  /\ UNCHANGED <<asked, callbacks, worker, jobs, engine, kvBackend, oldVal, session,
                 rank, faults, lost>>

JobStep == \/ ReadOldVal \/ ReadOldValFails
           \/ \E g \in Group : RunJob(g) \/ WorkerQuits(g)
           \/ \E g \in DOMAIN engine : OpenEngine(g) \/ OpenEnginePanics(g)

-----------------------------------------------------------------------------
(* post.Tick and async.WaitClear, called by the main routine.              *)

\* The oldest posted function runs.
RunPosted ==
  /\ callbacks # << >>
  /\ callbacks' = Tail(callbacks)

\* WaitClear closes the channels of the workers there are ...
CloseWorkers ==
  worker' = [g \in Group |-> IF worker[g] = "open" THEN "closed" ELSE worker[g]]

\* Mutant: WaitClear does not wait for the workers.
WorkersGoneMutant == TRUE

\* ... and returns, once they have all quit, whether there were any.
WorkersGone == \A g \in Group : worker[g] = "none"
AnyWorker == \E g \in Group : worker[g] = "open"
=============================================================================
