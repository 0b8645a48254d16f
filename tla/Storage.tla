------------------------------- MODULE Storage -------------------------------
(***************************************************************************)
(* The entity storage of a game process (engine/storage): a queue of save, *)
(* load, exists and list operations served by one goroutine, and the       *)
(* backend it works on.  A stored value is the number of the request that  *)
(* saved it; 0 stands for no data.                                         *)
(***************************************************************************)
EXTENDS Jobs

VARIABLES
  operationQueue,  \* Seq(Nat) : the operations; the head is being served
  storageEngine,   \* is the backend open?
  backend,         \* the configured backend
  stored,          \* [Entity -> Nat] : what the backend holds
  closed,          \* has Shutdown closed the queue?
  storageRoutineTerminated,
  cut              \* history: lists answered without an error, some IDs missing

storageVars == <<operationQueue, storageEngine, backend, stored, closed,
                 storageRoutineTerminated, cut>>

\* Contracts of the storage backends: is it an error to load, or to ask for the
\* existence of, an entity that was never saved, which errors count as IsEOF, may a
\* read panic, when may a list miss IDs and yet come without an error?  Files: Glob
\* ignores I/O errors.  MySQL: List never asks rows.Err.  A Redis cluster: SCAN is
\* answered by one node.
Filesystem   == [missing |-> {"exists"}, eof |-> {FALSE}, panics |-> FALSE, cuts |-> "fault"]
MongoDB      == [missing |-> {"load"},   eof |-> BOOLEAN, panics |-> TRUE,  cuts |-> "never"]
MySQL        == [missing |-> {"load"},   eof |-> {TRUE},  panics |-> FALSE, cuts |-> "fault"]
Redis        == [missing |-> {"load"},   eof |-> BOOLEAN, panics |-> FALSE, cuts |-> "never"]
RedisCluster == [missing |-> {"load"},   eof |-> BOOLEAN, panics |-> FALSE, cuts |-> "anytime"]
StorageBackends == {Filesystem, MongoDB, MySQL, Redis, RedisCluster}

\* Initialize opens the configured backend or ends the process.
StorageInit ==
  /\ operationQueue = << >>
  /\ storageEngine = TRUE
  /\ stored = [e \in Entity |-> 0]
  /\ closed = FALSE
  /\ storageRoutineTerminated = FALSE
  /\ cut = {}

-----------------------------------------------------------------------------
\* Save, Load, Exists and ListEntityIDs push an operation of their kind;
\* "savequiet" is a save without a callback, as Destroy makes it.
Push(kind, entity) ==
  /\ Request("storage", kind, entity)
  /\ operationQueue' = Append(operationQueue, NewId)
  /\ UNCHANGED <<storageEngine, backend, stored, closed, storageRoutineTerminated, cut>>

Shutdown == closed' = TRUE

-----------------------------------------------------------------------------
(* The storage routine serves the head of the queue.                       *)

Serving(kinds) ==
  /\ operationQueue # << >>
  /\ storageEngine
  /\ asked[Head(operationQueue)].kind \in kinds

Served == operationQueue' = Tail(operationQueue)
id == Head(operationQueue)
on == asked[id].on

Fault == /\ faults < MaxFaults
         /\ faults' = faults + 1

\* An error the backend takes for a lost connection closes the engine.
CloseOn(errors) == \E eof \in errors : storageEngine' = ~eof

\* A save that succeeds is answered; the quiet ones have no callback.
Write ==
  /\ Serving({"save", "savequiet"})
  /\ stored' = [stored EXCEPT ![on] = id]
  /\ IF asked[id].kind = "save" THEN Post(id, "none", 0, {}) ELSE UNCHANGED callbacks
  /\ Served
  /\ UNCHANGED <<storageEngine, faults>>

\* Mutant: a save that fails is given up.
WriteFailsMutant ==
  /\ Serving({"save", "savequiet"})
  /\ Fault
  /\ stored' \in {stored, [stored EXCEPT ![on] = id]}
  /\ CloseOn(backend.eof)
  /\ Served
  /\ UNCHANGED callbacks

\* A save that fails, perhaps after it reached the backend, is tried again.
WriteFails ==
  /\ Serving({"save", "savequiet"})
  /\ Fault
  /\ stored' \in {stored, [stored EXCEPT ![on] = id]}
  /\ CloseOn(backend.eof)
  /\ UNCHANGED <<callbacks, operationQueue>>

Missing(kind) == stored[on] = 0 /\ kind \in backend.missing

\* An entity never saved reads as nil from files, as an error elsewhere.
Load ==
  /\ Serving({"load"})
  /\ Post(id, IF Missing("load") THEN "missing" ELSE "none", stored[on], {})
  /\ CloseOn(IF Missing("load") /\ backend.eof = {TRUE} THEN {TRUE} ELSE {FALSE})
  /\ Served
  /\ UNCHANGED <<stored, faults>>

\* Of an entity never saved, files tell that by the error of os.Stat.
Exists ==
  /\ Serving({"exists"})
  /\ Post(id, IF Missing("exists") THEN "missing" ELSE "none",
          IF stored[on] = 0 THEN 0 ELSE 1, {})
  /\ Served
  /\ UNCHANGED <<storageEngine, stored, faults>>

SavedIDs == {e \in Entity : stored[e] # 0}
ListEntityIDs ==
  /\ Serving({"list"})
  /\ Post(id, "none", 0, SavedIDs)
  /\ Served
  /\ UNCHANGED <<storageEngine, stored, faults>>

\* The list ends early, or is that of one node, and no error says so.
ListCutShort ==
  /\ Serving({"list"})
  /\ \/ backend.cuts = "fault" /\ Fault
     \/ backend.cuts = "anytime" /\ UNCHANGED faults
  /\ \E some \in SUBSET SavedIDs : some # SavedIDs /\ Post(id, "none", 0, some)
  /\ cut' = cut \cup {id}
  /\ Served
  /\ UNCHANGED <<storageEngine, stored>>

\* Mutant: a failure is not answered.
ReadFailsMutant ==
  /\ Serving({"load", "exists", "list"})
  /\ Fault
  /\ CloseOn(backend.eof)
  /\ Served
  /\ UNCHANGED <<callbacks, stored>>

\* The other operations answer a failure and are not tried again.
ReadFails ==
  /\ Serving({"load", "exists", "list"})
  /\ Fault
  /\ Post(id, "fault", 0, {})
  /\ CloseOn(backend.eof)
  /\ Served
  /\ UNCHANGED stored

\* A panic ends the routine, which restarts itself without the operation.
ReadPanics ==
  /\ Serving({"load"})
  /\ backend.panics
  /\ Fault
  /\ lost' = lost \cup {id}
  /\ Served
  /\ UNCHANGED <<storageEngine, callbacks, stored>>

\* assureStorageEngineReady, tried every second until it succeeds.
OpenStorage ==
  /\ ~storageEngine
  /\ ~storageRoutineTerminated
  /\ storageEngine' = TRUE
  /\ UNCHANGED <<operationQueue, callbacks, stored, faults>>

\* The closed and empty queue ends the routine.
Terminate ==
  /\ closed
  /\ operationQueue = << >>
  /\ storageEngine
  /\ ~storageRoutineTerminated
  /\ storageRoutineTerminated' = TRUE
  /\ UNCHANGED <<operationQueue, storageEngine, stored, callbacks, faults>>

StorageStep ==
  /\ \/ /\ \/ /\ \/ Write \/ WriteFails \/ Load \/ Exists \/ ListEntityIDs
                 \/ ReadFails \/ OpenStorage
              /\ UNCHANGED cut
           \/ ListCutShort
        /\ UNCHANGED <<storageRoutineTerminated, lost>>
     \/ ReadPanics /\ UNCHANGED <<storageRoutineTerminated, cut>>
     \/ Terminate /\ UNCHANGED <<lost, cut>>
  /\ UNCHANGED <<asked, worker, jobs, engine, kvBackend, kv, oldVal, session, rank,
                 backend, closed>>
=============================================================================
