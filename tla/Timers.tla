------------------------------- MODULE Timers -------------------------------
(***************************************************************************)
(* The timers of an entity (engine/entity/Entity.go): callbacks and repeat *)
(* timers known by their ids, the raw timers that stand for them in the    *)
(* heap of goTimer, and what becomes of both when the entity is frozen,    *)
(* migrates, is restored or is destroyed.                                  *)
(*                                                                         *)
(* Time passes in units of 10 ms, the least interval of a repeat timer.    *)
(***************************************************************************)
EXTENDS Integers, Sequences, FiniteSets, FiniteSetsExt, Functions

CONSTANTS
  Callback,      \* the callbacks the program adds, each at most once
  Delay,         \* the delays it asks for
  MaxTime,       \* bound: the clock
  MaxTimerId,    \* bound: timer ids given in one life of the entity
  LateCallback,  \* does OnClientDisconnected add a callback?
  NilTimers      \* e.timers = nil

ASSUME TimersAssumption ==
  /\ "repeat" \notin Callback
  /\ MaxTime \in Nat /\ Delay \subseteq 0..MaxTime

VARIABLES
  now,
  life,          \* "live", "away" (frozen or migrating) or "destroyed"
  timers,        \* timer id -> [method, repeat, interval, fire], or NilTimers
  lastTimerId,
  raws,          \* the entity's raw timers in the heap: [tid, every, fire]
  dumped,        \* the timers in the freeze or migrate data, by their former ids
  due,           \* [Callback -> the time it was added for, -1 before]
  ran,           \* [Callback -> the times it ran at]
  cancelled,     \* the callbacks cancelled
  failedFreeze   \* has the entity been dumped by a freeze that failed?

timerVars == <<now, life, timers, lastTimerId, raws, dumped,
               due, ran, cancelled, failedFreeze>>

Method == Callback \cup {"repeat"}
TimerInfo == [method : Method, interval : Nat, fire : Nat]
Raw == [tid : 1..MaxTimerId, every : Nat, fire : Nat]

TimersInit ==
  /\ now = 0
  /\ life = "live"
  /\ timers = << >> /\ lastTimerId = 0 /\ raws = {} /\ dumped = << >>
  /\ due = [c \in Callback |-> -1] /\ ran = [c \in Callback |-> << >>]
  /\ cancelled = {}
  /\ failedFreeze = FALSE

-----------------------------------------------------------------------------

genTimerId == lastTimerId + 1

\* A callback's info, and a repeat timer's: its interval is not 0.
CallbackInfo(c, d) == [method |-> c, interval |-> 0, fire |-> now + d]
RepeatInfo(d) == [method |-> "repeat", interval |-> d, fire |-> now + d]
With(tid, info) == [i \in DOMAIN timers \cup {tid} |-> IF i = tid THEN info ELSE timers[i]]
Without_(tid) == [i \in DOMAIN timers \ {tid} |-> timers[i]]

\* addRawCallback, with every = 0, and addRawTimer.
addRaw(tid, every, fire) == [tid |-> tid, every |-> every, fire |-> fire]

\* AddCallback and AddTimer write to the timer map before they add the raw
\* timer: with a nil map they panic, the id spent.
AddCallback(c, d) ==
  /\ life = "live" /\ genTimerId <= MaxTimerId
  /\ due[c] = -1 /\ now + d <= MaxTime
  /\ lastTimerId' = genTimerId
  /\ IF timers = NilTimers THEN UNCHANGED <<timers, raws, due>>
     ELSE /\ timers' = With(genTimerId, CallbackInfo(c, d))
          /\ raws' = raws \cup {addRaw(genTimerId, 0, now + d)}
          /\ due' = [due EXCEPT ![c] = now + d]
  /\ UNCHANGED <<now, life, dumped, ran, cancelled, failedFreeze>>

AddTimer(asked) ==
  LET d == Max({asked, 1})
  IN /\ life = "live" /\ genTimerId <= MaxTimerId
     /\ lastTimerId' = genTimerId
     /\ IF timers = NilTimers THEN UNCHANGED <<timers, raws>>
        ELSE /\ timers' = With(genTimerId, RepeatInfo(d))
             /\ raws' = raws \cup {addRaw(genTimerId, d, now + d)}
     /\ UNCHANGED <<now, life, dumped, due, ran, cancelled, failedFreeze>>

\* Mutant: a cancelled timer stays in the heap.
CancelTimerMutant(tid) ==
  /\ life = "live" /\ timers # NilTimers /\ tid \in DOMAIN timers
  /\ timers' = Without_(tid)
  /\ cancelled' = cancelled \cup ({timers[tid].method} \cap Callback)
  /\ UNCHANGED <<now, life, lastTimerId, raws, dumped, due, ran, failedFreeze>>

CancelTimer(tid) ==
  /\ life = "live" /\ timers # NilTimers /\ tid \in DOMAIN timers
  /\ timers' = Without_(tid)
  /\ raws' = {r \in raws : r.tid # tid}
  /\ cancelled' = cancelled \cup ({timers[tid].method} \cap Callback)
  /\ UNCHANGED <<now, life, lastTimerId, dumped, due, ran, failedFreeze>>

\* goTimer adds a repeating raw timer again when its callback is over.
Again(r) ==
  IF r.every = 0 THEN {}
  ELSE {[r EXCEPT !.fire = IF @ + r.every > now THEN @ + r.every ELSE now + r.every]}

\* triggerTimer. A repeat timer that was restored is a raw callback at first,
\* and gets a repeating raw timer when it fires. With a nil map, it panics.
triggerTimer(r) ==
  LET info == timers[r.tid]
  IN \/ /\ timers = NilTimers
        /\ raws' = (raws \ {r}) \cup Again(r)
        /\ UNCHANGED <<timers, ran>>
     \/ /\ timers # NilTimers /\ info.interval = 0
        /\ timers' = Without_(r.tid)
        /\ raws' = raws \ {r}
        /\ ran' = [ran EXCEPT ![info.method] = Append(@, now)]
     \/ /\ timers # NilTimers /\ info.interval > 0
        /\ timers' = [timers EXCEPT ![r.tid].fire = now + info.interval]
        /\ raws' = (raws \ {r}) \cup
                   (IF r.every > 0 THEN Again(r)
                    ELSE {addRaw(r.tid, info.interval, now + info.interval)})
        /\ UNCHANGED ran

\* timer.Tick of goTimer fires the earliest raw timer that is due.
Fire(r) ==
  /\ r.fire <= now /\ \A q \in raws : r.fire <= q.fire
  /\ triggerTimer(r)
  /\ UNCHANGED <<now, life, lastTimerId, dumped, due, cancelled, failedFreeze>>

TimePasses ==
  /\ now < MaxTime
  /\ now' = now + 1
  /\ UNCHANGED <<life, timers, lastTimerId, raws, dumped, due, ran, cancelled, failedFreeze>>

-----------------------------------------------------------------------------

\* Mutant: only repeat timers are dumped.
dumpTimersMutant ==
  IF timers = NilTimers THEN << >>
  ELSE [i \in {j \in DOMAIN timers : timers[j].interval > 0} |-> timers[i]]

\* dumpTimers: with timers it leaves the map nil, with none the map stays.
dumpTimers == IF timers = NilTimers THEN << >> ELSE timers
NoMoreTimers == timers' = IF DOMAIN dumpTimers = {} THEN timers ELSE NilTimers

\* The entity is frozen with its process, or leaves for another one: a
\* migration clears the raw timers, a process that exits takes them along.
Depart ==
  /\ life = "live" /\ life' = "away"
  /\ dumped' = dumpTimers
  /\ NoMoreTimers
  /\ raws' = {}
  /\ UNCHANGED <<now, lastTimerId, due, ran, cancelled, failedFreeze>>

\* Freeze dumped the entity, but panicked at another one or could not write
\* the file: the game goes on with its entities as they are.
FailedFreeze ==
  /\ life = "live" /\ ~failedFreeze
  /\ failedFreeze' = TRUE
  /\ NoMoreTimers
  /\ UNCHANGED <<now, life, lastTimerId, raws, dumped, due, ran, cancelled>>

\* Mutant: a restored timer fires at once.
ArriveMutant ==
  LET n == Cardinality(DOMAIN dumped)
  IN /\ life = "away" /\ life' = "live"
     /\ \E old \in Bijection(1..n, DOMAIN dumped) :
          timers' = [i \in 1..n |-> dumped[old[i]]]
     /\ raws' = {addRaw(i, 0, now) : i \in 1..n}
     /\ lastTimerId' = n
     /\ dumped' = << >>
     /\ UNCHANGED <<now, due, ran, cancelled, failedFreeze>>

\* restoreEntity, restoreTimers: new ids, in any order of the timers, each
\* with a raw callback for its fire time.
Arrive ==
  LET n == Cardinality(DOMAIN dumped)
  IN /\ life = "away" /\ life' = "live"
     /\ \E old \in Bijection(1..n, DOMAIN dumped) :
          timers' = [i \in 1..n |-> dumped[old[i]]]
     /\ raws' = {addRaw(i, 0, timers'[i].fire) : i \in 1..n}
     /\ lastTimerId' = n
     /\ dumped' = << >>
     /\ UNCHANGED <<now, due, ran, cancelled, failedFreeze>>

\* destroyEntity(false): the raw timers are cancelled and their set is nil when
\* OnClientDisconnected runs, so that a callback it adds is in the timer map
\* and in the heap when AddCallback panics.
Destroy ==
  /\ life = "live" /\ life' = "destroyed"
  /\ \/ raws' = {} /\ UNCHANGED <<timers, lastTimerId, due>>
     \/ /\ LateCallback /\ timers # NilTimers /\ genTimerId <= MaxTimerId
        /\ lastTimerId' = genTimerId
        /\ \E c \in Callback, d \in Delay :
             /\ due[c] = -1
             /\ timers' = With(genTimerId, CallbackInfo(c, d))
             /\ raws' = {addRaw(genTimerId, 0, now + d)}
             /\ due' = [due EXCEPT ![c] = now + d]
  /\ UNCHANGED <<now, dumped, ran, cancelled, failedFreeze>>

TimerOp ==
  \/ \E c \in Callback, d \in Delay : AddCallback(c, d)
  \/ \E d \in Delay : AddTimer(d)
  \/ \E tid \in 1..MaxTimerId : CancelTimer(tid)
  \/ FailedFreeze

MainLoop == \E r \in raws : Fire(r)

-----------------------------------------------------------------------------
(* Properties.                                                             *)

TimersTypeOK ==
  /\ now \in 0..MaxTime
  /\ life \in {"live", "away", "destroyed"}
  /\ timers # NilTimers => /\ DOMAIN timers \subseteq 1..lastTimerId
                           /\ \A i \in DOMAIN timers : timers[i] \in TimerInfo
  /\ lastTimerId \in 0..MaxTimerId
  /\ raws \subseteq Raw
  /\ DOMAIN dumped \subseteq 1..MaxTimerId /\ \A i \in DOMAIN dumped : dumped[i] \in TimerInfo
  /\ \A c \in Callback : due[c] \in -1..MaxTime /\ ran[c] \in Seq(0..MaxTime)
  /\ cancelled \subseteq Callback /\ failedFreeze \in BOOLEAN

\* The timers of a live entity are the ones that will fire: each stands in the
\* heap as one raw timer, no later than the entity expects it, and no other raw
\* timer calls the entity (AddTimer, CancelTimer, triggerTimer, restoreTimers).
\* "The callback will be cancelled if entity is destroyed" (Entity.go:271): none
\* fires at an entity that is gone (clearRawTimers), if nothing adds one as late
\* as OnClientDisconnected.
TimersMatch ==
  /\ life = "live" /\ timers # NilTimers =>
       /\ {r.tid : r \in raws} = DOMAIN timers
       /\ \A r \in raws : /\ \A q \in raws : q.tid = r.tid => q = r
                          /\ r.fire <= timers[r.tid].fire
                          /\ r.every \in {0, timers[r.tid].interval}
  /\ life # "live" /\ ~LateCallback => raws = {}

\* Through freezes, restores and migrations a callback runs at most once, not
\* before its time and not once it is cancelled (triggerTimer, restoreTimers).
OnceAndInTime ==
  \A c \in Callback :
    /\ Len(ran[c]) <= 1
    /\ ran[c] # << >> => ran[c][1] >= due[c] /\ c \notin cancelled

\* A callback that was added runs, unless it is cancelled, the entity does not
\* stay, or a freeze that failed has taken its timers (Entity.dumpTimers).
CallbacksRun ==
  \A c \in Callback :
    due[c] # -1 ~> ran[c] # << >> \/ c \in cancelled \/ life # "live" \/ failedFreeze
=============================================================================
