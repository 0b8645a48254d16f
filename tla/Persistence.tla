----------------------------- MODULE Persistence -----------------------------
(***************************************************************************)
(* The main routine of a game over its storage and its asynchronous jobs:  *)
(* requests made by handlers and by callbacks, and the two ways a game     *)
(* stops -- terminating and freezing -- which drain the posted functions   *)
(* and the job workers, then close the storage (GameService.doTerminate    *)
(* and doFreeze, and the signal goroutine of game.go).                     *)
(***************************************************************************)
EXTENDS Storage, SequencesExt, FiniteSetsExt

CONSTANT Deployment  \* bound: the configurations a game may run in, as records
                     \*   storage, kvdb : the backends' contracts
                     \*   requests : what its code asks for, <<to, kind, on>>

\* What there is to ask for. GetOrPut and GetRange take no hash name.
Askable ==
  ({"storage"} \X {"save", "savequiet", "load", "exists"} \X Entity)
    \cup ({"storage"} \X {"list"} \X {NoEntity})
    \cup ({"kvdb"} \X {"get", "put"} \X Name)
    \cup ({"kvdb"} \X {"getorput", "range"} \X {""})
    \cup ({"rank"} \X {"put", "list"} \X {""})
    \cup ({"mongodb"} \X {"do", "close"} \X {""})
    \cup ({"redis"} \X {"do"} \X {""})

ASSUME DeploymentAssumption ==
  \A d \in Deployment : /\ d.storage \in StorageBackends /\ d.kvdb \in KvBackends
                         /\ d.requests \subseteq Askable

VARIABLES
  requests,  \* what this game may ask for
  main,      \* where the main routine is, see Modes
  stopping,  \* the runState that stops it: "terminating", "freezing" or "none"
  cleared,   \* what the last WaitClear found: were there any workers?
  toDestroy, \* entities OnGameTerminating has still to destroy
  drained,   \* history: requests made before the jobs were drained for good
  log,       \* history: the requests whose answers the main routine ran, in order
  claims     \* history: the GetOrPut among them that found no value

mainVars == <<requests, main, stopping, cleared, toDestroy, drained, log, claims>>
vars == <<asked, callbacks, faults, jobVars, storageVars, mainVars>>

Modes == {"running", "posts", "waitclear", "destroying", "stopped", "exited"}
Init ==
  /\ asked = << >> /\ callbacks = << >> /\ faults = 0
  /\ JobInit /\ StorageInit
  /\ \E d \in Deployment : /\ backend = d.storage /\ kvBackend = d.kvdb
                            /\ requests = d.requests
  /\ main = "running" /\ stopping = "none" /\ cleared = FALSE
  /\ toDestroy = {} /\ drained = 0 /\ log = << >> /\ claims = 0

-----------------------------------------------------------------------------
\* A storage operation or a job, requested by code of the main routine.
AskStorage == \E r \in requests : /\ r[1] = "storage"
                                 /\ Push(r[2], r[3])
                                 /\ UNCHANGED jobVars
AskJob == \E r \in requests : /\ r[1] # "storage"
                             /\ AppendAsyncJob(r[1], r[2], r[3])
                             /\ UNCHANGED storageVars
Ask == /\ Len(asked) < MaxRequests
       /\ AskStorage \/ AskJob

\* A handler or a timer of the running game makes a request.
HandlerAsks ==
  /\ main = "running"
  /\ Ask
  /\ UNCHANGED <<callbacks, faults, mainVars>>

\* An answer by which a GetOrPut has put its value.
Claims(a) == /\ a.error = "none" /\ a.value = 0
             /\ asked[a.id].to = "kvdb" /\ asked[a.id].kind = "getorput"

\* post.Tick runs the posted functions, after each handler and while the
\* game drains; a callback may make a request of its own.
Tick ==
  /\ main \in {"running", "posts"}
  /\ RunPosted
  /\ log' = Append(log, Head(callbacks).id)
  /\ claims' = claims + (IF Claims(Head(callbacks)) THEN 1 ELSE 0)
  /\ Ask \/ UNCHANGED <<asked, jobVars, storageVars>>
  /\ UNCHANGED <<faults, requests, main, stopping, cleared, toDestroy, drained>>

-----------------------------------------------------------------------------
\* The main loop finds a runState that stops it: doTerminate or doFreeze.
Stop ==
  /\ main = "running"
  /\ main' = "posts"
  /\ stopping' \in {"terminating", "freezing"}
  /\ UNCHANGED <<asked, callbacks, faults, jobVars, storageVars, cleared, toDestroy,
                 drained, log, claims, requests>>

\* No posted function is left: close the workers and wait for them.
PostsComplete ==
  /\ main = "posts"
  /\ callbacks = << >>
  /\ CloseWorkers
  /\ cleared' = AnyWorker
  /\ main' = "waitclear"
  /\ UNCHANGED <<asked, callbacks, faults, jobs, engine, kvBackend, kv, oldVal, session,
                 rank, lost, storageVars, stopping, toDestroy, drained, log, claims, requests>>

\* WaitClear returns that there were workers: their answers are posted.
ClearedSome ==
  /\ main = "waitclear" /\ WorkersGone
  /\ cleared
  /\ main' = "posts"
  /\ UNCHANGED <<asked, callbacks, faults, jobVars, storageVars, stopping, cleared,
                 toDestroy, drained, log, claims, requests>>

\* WaitClear found none: a terminating game destroys its entities ...
StartDestroying ==
  /\ main = "waitclear" /\ WorkersGone
  /\ ~cleared
  /\ stopping = "terminating"
  /\ main' = "destroying"
  /\ toDestroy' = Entity
  /\ drained' = Len(asked)
  /\ UNCHANGED <<asked, callbacks, faults, jobVars, storageVars, stopping, cleared, log, claims, requests>>

\* ... saving each; an OnDestroy handler may append a job nobody waits for.
DestroyEntity(e) ==
  /\ main = "destroying"
  /\ e \in toDestroy
  /\ toDestroy' = toDestroy \ {e}
  /\ Push("savequiet", e)
  /\ UNCHANGED <<callbacks, faults, jobVars, main, stopping, cleared, drained, log, claims, requests>>

OnDestroyAsks ==
  /\ main = "destroying"
  /\ toDestroy # {}
  /\ Len(asked) < MaxRequests
  /\ AskJob
  /\ UNCHANGED <<callbacks, faults, mainVars>>

Terminated ==
  /\ main = "destroying"
  /\ toDestroy = {}
  /\ main' = "stopped"
  /\ UNCHANGED <<asked, callbacks, faults, jobVars, storageVars, stopping, cleared,
                 toDestroy, drained, log, claims, requests>>

\* A freezing game writes its file and sleeps, or goes back to running with
\* the key-value engine opened again.
Freezed ==
  /\ main = "waitclear" /\ WorkersGone
  /\ ~cleared
  /\ stopping = "freezing"
  /\ main' = "stopped"
  /\ drained' = Len(asked)
  /\ UNCHANGED <<asked, callbacks, faults, jobVars, storageVars, stopping, cleared,
                 toDestroy, log, claims, requests>>

FreezeFails ==
  /\ main = "waitclear" /\ WorkersGone
  /\ ~cleared
  /\ stopping = "freezing"
  /\ faults < MaxFaults
  /\ faults' = faults + 1
  /\ main' = "running"
  /\ stopping' = "none"
  /\ engine' \in {engine, [engine EXCEPT !["kvdb"] = TRUE]}
  /\ UNCHANGED <<asked, callbacks, worker, jobs, kvBackend, kv, oldVal, session, rank,
                 lost, storageVars, cleared, toDestroy, drained, log, claims, requests>>

\* The signal goroutine closes the storage, waits for it and exits.
CloseStorage ==
  /\ main = "stopped"
  /\ ~closed
  /\ Shutdown
  /\ UNCHANGED <<asked, callbacks, faults, jobVars, operationQueue, storageEngine,
                 backend, stored, storageRoutineTerminated, cut, mainVars>>

Exit ==
  /\ main = "stopped"
  /\ storageRoutineTerminated
  /\ main' = "exited"
  /\ UNCHANGED <<asked, callbacks, faults, jobVars, storageVars, stopping, cleared,
                 toDestroy, drained, log, claims, requests>>

-----------------------------------------------------------------------------
MainStep == \/ Tick \/ PostsComplete \/ ClearedSome \/ StartDestroying \/ OnDestroyAsks
            \/ \E e \in Entity : DestroyEntity(e)
            \/ Terminated \/ Freezed \/ FreezeFails \/ CloseStorage \/ Exit

Services == /\ main # "exited"
            /\ \/ JobStep /\ UNCHANGED storageVars
               \/ StorageStep
            /\ UNCHANGED mainVars

Foreigner == /\ main # "exited"
             /\ ForeignPut
             /\ UNCHANGED <<storageVars, mainVars>>

Next == HandlerAsks \/ Stop \/ MainStep \/ Services \/ Foreigner

\* The process keeps running whatever goroutine has something to do.  Since
\* the requests and the faults are bounded, each goroutine has its turn.
Fairness == WF_vars(MainStep \/ Services)

Spec == Init /\ [][Next]_vars /\ Fairness

-----------------------------------------------------------------------------
(* Properties.                                                             *)

Requester == Group \cup {"storage"}

PersistenceTypeOK ==
  /\ \A n \in DOMAIN asked : asked[n].to \in Requester
  /\ Range(operationQueue) \cup UNION {Range(jobs[g]) : g \in Group} \subseteq DOMAIN asked
  /\ \A g \in Group : worker[g] = "none" => jobs[g] = << >>
  /\ kv \in [Name -> 0..Foreign]
  /\ oldVal \in 0..NotRead
  /\ stored \in [Entity -> 0..Len(asked)]
  /\ main \in Modes
  /\ faults \in 0..MaxFaults
  /\ lost \cup cut \subseteq DOMAIN asked

\* The last save of an entity requested before request number n; 0 if none.
IsSaveOf(r, e) == r.to = "storage" /\ r.kind \in {"save", "savequiet"} /\ r.on = e
LastSave(e, n) == Max({0} \cup {m \in 1..(n - 1) : IsSaveOf(asked[m], e)})

\* An answer sees exactly what was asked before it: a load and an existence check
\* that did not fail see the last save requested earlier and none requested later,
\* although saves fail and are tried again.  A list of IDs names only entities saved
\* earlier, and all of them unless it fails or the backend cuts it short without
\* an error.  An operation of a MongoDB handle finds the session closed if and only
\* if a Close came first.
AnswersSeeEarlierRequests ==
  \A i \in DOMAIN callbacks :
    LET a == callbacks[i]  r == asked[a.id]
        saved == {e \in Entity : LastSave(e, a.id) # 0}
    IN
    /\ r.kind = "load" /\ a.error # "fault" => a.value = LastSave(r.on, a.id)
    /\ r.kind = "exists" /\ a.error # "fault" => (a.value = 1) = (LastSave(r.on, a.id) # 0)
    /\ r.kind = "list" /\ r.to = "storage" =>
         /\ a.ids \subseteq saved
         /\ a.error = "none" /\ a.id \notin cut => a.ids = saved
    /\ r.to = "mongodb" =>
         (a.error = "nosession") =
           (\E m \in 1..(a.id - 1) : asked[m].to = "mongodb" /\ asked[m].kind = "close")

\* The storage and the job groups implement module Async: every queue answers
\* its requests in the order they were made, each at most once, through faults,
\* panics, reconnections, drained and restarted workers and failed freezes.
Pending == [q \in Requester |-> IF q = "storage" THEN operationQueue ELSE jobs[q]]
A == INSTANCE Async WITH
       Queue <- Requester,
       MaxRequests <- MaxRequests + Cardinality(Entity),
       pending <- Pending,
       told <- log \o [i \in DOMAIN callbacks |-> callbacks[i].id],
       next <- Len(asked) + 1
AnswersInOrder == A!Spec

\* A game that exits has lost nothing: every save it ever requested is in the
\* backend, and every job requested before the game was drained has answered
\* to the main routine or panicked.
ExitLosesNothing ==
  main = "exited" =>
    /\ \A e \in Entity : stored[e] = LastSave(e, Len(asked) + 1)
    /\ \A n \in 1..drained : asked[n].to # "storage" =>
         n \in lost \cup Range(log)

\* Two GetOrPut of one game never both find a key empty, whatever the other
\* games write: claiming a name through it has one winner in this game.
ClaimOnce == claims + Cardinality({i \in DOMAIN callbacks : Claims(callbacks[i])}) <= 1

\* In the end no request is left open: each is answered to the main routine,
\* has panicked, or met a game that stops; and a game that has begun to stop
\* ends its process or goes back to running.
Settled(n) == \/ n \in lost \cup Range(log)
              \/ main \in {"destroying", "stopped", "exited"}
AllAnswered ==
  /\ <>[](\A n \in DOMAIN asked : Settled(n))
  /\ (main = "posts") ~> (main \in {"exited", "running"})
=============================================================================
