----------------------------- MODULE EntityProofs -----------------------------
(* Proofs about the timers of an entity, through freezes and migrations.     *)
EXTENDS Entity, FiniteSetTheorems, TLAPS

\* What is known of a callback whose timer is in the map or in the freeze data: it
\* is still to run, at the time it was added for, and has no other timer there.
Pending(f) ==
  /\ \A i \in DOMAIN f :
       /\ f[i] \in TimerInfo
       /\ f[i].interval = 0 <=> f[i].method \in Callback
       /\ f[i].method \in Callback => /\ f[i].fire = due[f[i].method]
                                      /\ ran[f[i].method] = << >>
                                      /\ f[i].method \notin cancelled
  /\ \A i, j \in DOMAIN f :
       f[i].method = f[j].method /\ f[i].method \in Callback => i = j

\* Every raw timer stands for a timer in the map; for a callback it has its time.
Match ==
  \A r \in raws :
    /\ r.tid \in DOMAIN timers
    /\ \A q \in raws : q.tid = r.tid => q = r
    /\ r.fire <= timers[r.tid].fire
    /\ r.every \in {0, timers[r.tid].interval}
    /\ timers[r.tid].interval = 0 => r.fire = timers[r.tid].fire

\* A live entity waits for nothing that has no raw timer.
Complete == \A i \in DOMAIN timers : \E r \in raws : r.tid = i

\* What a callback that is not pending may have behind it.
Past ==
  \A c \in Callback :
    /\ due[c] = -1 => ran[c] = << >> /\ c \notin cancelled
    /\ Len(ran[c]) <= 1
    /\ ran[c] # << >> => ran[c][1] >= due[c] /\ c \notin cancelled

RawTimer == [tid : Nat, every : Nat, fire : Nat]

Types ==
  /\ now \in Nat /\ lastTimerId \in Nat
  /\ life \in {"live", "away", "destroyed"}
  /\ due \in [Callback -> Int] /\ ran \in [Callback -> Seq(Nat)]
  /\ raws \subseteq RawTimer
  /\ timers # NilTimers => DOMAIN timers \subseteq 1..lastTimerId
  /\ DOMAIN dumped \subseteq 1..lastTimerId

\* The freeze data belongs to an entity that is away, the heap to one that is not.
Placed ==
  /\ life # "away" => DOMAIN dumped = {}
  /\ life = "away" => raws = {}
  /\ life # "live" /\ ~LateCallback => raws = {}

Inv ==
  /\ Types /\ Placed /\ Past
  /\ Pending(dumped)
  /\ timers # NilTimers => Pending(timers) /\ Match
  /\ life = "live" /\ timers # NilTimers => Complete

-----------------------------------------------------------------------------

LEMMA Initially == TimersInit => Inv
BY TimersAssumption DEF TimersInit, Inv, Types, Placed, Past, Pending, Match, Complete, RawTimer

LEMMA LeastDelay ==
  ASSUME NEW d \in Delay
  PROVE  Max({d, 1}) \in Nat /\ Max({d, 1}) > 0
<1>1. d \in Nat
  BY TimersAssumption
<1>2. \E x \in {d, 1} : \A y \in {d, 1} : x >= y
  BY <1>1
<1>3. Max({d, 1}) \in {d, 1} /\ \A y \in {d, 1} : Max({d, 1}) >= y
  BY <1>2 DEF Max
<1>4. QED
  BY <1>1, <1>3

-----------------------------------------------------------------------------
(* Each operation preserves the invariant                                   *)

\* A new timer gets an id that no other has.
LEMMA FreshId ==
  ASSUME Inv, timers # NilTimers
  PROVE  /\ genTimerId \in Nat /\ genTimerId \notin DOMAIN timers
         /\ DOMAIN timers \cup {genTimerId} \subseteq 1..genTimerId
         /\ \A r \in raws : r.tid # genTimerId
BY DEF Inv, Types, Match, genTimerId

\* A callback is added at its time, once.
LEMMA AddedCallback ==
  ASSUME Types, Past, Pending(timers), timers # NilTimers,
         NEW c \in Callback, NEW d \in Nat, now + d \in Nat, due[c] = -1,
         NEW n \in Nat, n \notin DOMAIN timers,
         timers' = [i \in DOMAIN timers \cup {n} |->
                      IF i = n THEN CallbackInfo(c, d) ELSE timers[i]],
         due' = [due EXCEPT ![c] = now + d], ran' = ran, cancelled' = cancelled
  PROVE  Past' /\ Pending(timers)'
<1>0. Past'
  BY DEF Past, Types
<1>1. ASSUME NEW i \in DOMAIN timers
      PROVE  timers'[i] = timers[i] /\ timers[i].method # c
  BY DEF Pending, TimerInfo
<1>2. timers'[n] = [method |-> c, interval |-> 0, fire |-> now + d]
  BY DEF CallbackInfo
<1>3. timers'[n] \in TimerInfo
  BY <1>2 DEF TimerInfo, Method
<1>4. due'[c] = now + d /\ ran'[c] = << >> /\ c \notin cancelled'
  BY DEF Types, Past
<1>5. \A e \in Callback : e # c => due'[e] = due[e]
  BY DEF Types
<1>6. DOMAIN timers' = DOMAIN timers \cup {n}
  OBVIOUS
<1>7. ASSUME NEW i \in DOMAIN timers'
      PROVE  /\ timers'[i] \in TimerInfo
             /\ timers'[i].interval = 0 <=> timers'[i].method \in Callback
             /\ timers'[i].method \in Callback =>
                  /\ timers'[i].fire = due'[timers'[i].method]
                  /\ ran'[timers'[i].method] = << >>
                  /\ timers'[i].method \notin cancelled'
  <2>1. CASE i = n
    BY <1>2, <1>3, <1>4, <2>1
  <2>2. CASE i \in DOMAIN timers
    BY <1>1, <1>5, <2>2 DEF Pending
  <2>3. QED
    BY <1>6, <2>1, <2>2
<1>8. ASSUME NEW i \in DOMAIN timers', NEW j \in DOMAIN timers',
             timers'[i].method = timers'[j].method, timers'[i].method \in Callback
      PROVE  i = j
  BY <1>1, <1>2, <1>6, <1>8 DEF Pending
<1>9. QED
  BY ONLY <1>0, <1>7, <1>8 DEF Pending

LEMMA AddCallbackStep ==
  ASSUME Inv, NEW c \in Callback, NEW d \in Delay, AddCallback(c, d)
  PROVE  Inv'
<1> DEFINE n == genTimerId
<1>0. /\ Types /\ Placed /\ Past /\ Pending(dumped) /\ life = "live"
      /\ d \in Nat /\ now + d \in Nat /\ due[c] = -1
  BY TimersAssumption DEF Inv, Types, AddCallback
<1>1. CASE timers = NilTimers
  <2>1. /\ timers' = timers /\ raws' = raws /\ due' = due /\ now' = now /\ life' = life
        /\ dumped' = dumped /\ ran' = ran /\ cancelled' = cancelled
        /\ lastTimerId' = lastTimerId + 1
    BY <1>1 DEF AddCallback, genTimerId
  <2>2. Types'
    BY <1>0, <1>1, <2>1 DEF Types
  <2>3. Placed' /\ Past' /\ Pending(dumped)'
    BY <1>0, <2>1 DEF Placed, Past, Pending
  <2>4. QED
    BY <1>1, <2>1, <2>2, <2>3 DEF Inv
<1>2. CASE timers # NilTimers
  <2>1. /\ timers' = [i \in DOMAIN timers \cup {n} |->
                        IF i = n THEN CallbackInfo(c, d) ELSE timers[i]]
        /\ raws' = raws \cup {addRaw(n, 0, now + d)}
        /\ due' = [due EXCEPT ![c] = now + d]
        /\ lastTimerId' = n
        /\ now' = now /\ life' = life /\ dumped' = dumped /\ ran' = ran /\ cancelled' = cancelled
    BY <1>2 DEF AddCallback, With
  <2>2. /\ n \in Nat /\ n \notin DOMAIN timers
        /\ DOMAIN timers \cup {n} \subseteq 1..n
        /\ \A r \in raws : r.tid # n
    BY <1>2, FreshId
  <2> HIDE DEF n
  <2>3. DOMAIN dumped = {} /\ Pending(timers) /\ Match /\ Complete
    BY <1>0, <1>2 DEF Inv, Placed
  <2>4. addRaw(n, 0, now + d) \in RawTimer
    BY <1>0, <2>2 DEF addRaw, RawTimer
  <2>5. Types'
    BY <1>0, <2>1, <2>2, <2>3, <2>4 DEF Types
  <2>6. Placed'
    BY <1>0, <2>1 DEF Placed
  <2>7. Past'
    BY <1>0, <2>1 DEF Past, Types
  <2>8. Pending(dumped)'
    BY <2>1, <2>3 DEF Pending
  <2>9. Pending(timers)'
    BY <1>0, <1>2, <2>1, <2>2, <2>3, AddedCallback
  <2>10. Match' /\ Complete'
    <3>1. DOMAIN timers' = DOMAIN timers \cup {n}
      BY <2>1
    <3>2. \A i \in DOMAIN timers : timers'[i] = timers[i]
      BY <2>1, <2>2
    <3>3. timers'[n].interval = 0 /\ timers'[n].fire = now + d
      BY <2>1 DEF CallbackInfo
    <3>4. \A r \in raws' : r \in raws \/ (r.tid = n /\ r.every = 0 /\ r.fire = now + d
                                          /\ r = addRaw(n, 0, now + d))
      BY <2>1 DEF addRaw
    <3>5. \A r \in raws : r \in raws' /\ r.tid \in DOMAIN timers
      BY <2>1, <2>3 DEF Match
    <3>6. \E r \in raws' : r.tid = n
      <4>1. addRaw(n, 0, now + d) \in raws'
        BY <2>1
      <4>2. addRaw(n, 0, now + d).tid = n
        BY DEF addRaw
      <4>3. QED
        BY <4>1, <4>2
    <3>7. Match'
      <4> SUFFICES ASSUME NEW r \in raws'
                   PROVE  /\ r.tid \in DOMAIN timers'
                          /\ \A q \in raws' : q.tid = r.tid => q = r
                          /\ r.fire <= timers'[r.tid].fire
                          /\ r.every \in {0, timers'[r.tid].interval}
                          /\ timers'[r.tid].interval = 0 => r.fire = timers'[r.tid].fire
        BY DEF Match
      <4>1. CASE r \in raws
        BY <2>2, <2>3, <3>1, <3>2, <3>4, <3>5, <4>1 DEF Match
      <4>2. CASE r.tid = n /\ r.every = 0 /\ r.fire = now + d /\ r = addRaw(n, 0, now + d)
        BY <1>0, <2>2, <3>1, <3>3, <3>4, <4>2
      <4>3. QED
        BY <3>4, <4>1, <4>2
    <3>8. Complete'
      BY <2>3, <3>1, <3>5, <3>6 DEF Complete
    <3>9. QED
      BY <3>7, <3>8
  <2>11. QED
    BY <2>5, <2>6, <2>7, <2>8, <2>9, <2>10 DEF Inv
<1>3. QED
  BY <1>1, <1>2

LEMMA AddTimerStep ==
  ASSUME Inv, NEW asked \in Delay, AddTimer(asked)
  PROVE  Inv'
<1> DEFINE d == Max({asked, 1})
           n == genTimerId
<1>0. /\ Types /\ Placed /\ Past /\ Pending(dumped) /\ life = "live"
      /\ d \in Nat /\ d > 0 /\ now + d \in Nat
  BY LeastDelay DEF Inv, Types, AddTimer
<1>1. /\ due' = due /\ now' = now /\ life' = life /\ dumped' = dumped
      /\ ran' = ran /\ cancelled' = cancelled /\ lastTimerId' = n
  BY DEF AddTimer
<1>2. Placed' /\ Past' /\ Pending(dumped)'
  BY <1>0, <1>1 DEF Placed, Past, Pending
<1>3. CASE timers = NilTimers
  <2>1. timers' = timers /\ raws' = raws
    BY <1>3 DEF AddTimer
  <2>2. Types'
    BY <1>0, <1>1, <1>3, <2>1 DEF Types, genTimerId
  <2>3. QED
    BY <1>2, <1>3, <2>1, <2>2 DEF Inv
<1>4. CASE timers # NilTimers
  <2>1. /\ timers' = [i \in DOMAIN timers \cup {n} |->
                        IF i = n THEN RepeatInfo(d) ELSE timers[i]]
        /\ raws' = raws \cup {addRaw(n, d, now + d)}
    BY <1>4 DEF AddTimer, With
  <2>2. /\ n \in Nat /\ n \notin DOMAIN timers
        /\ DOMAIN timers \cup {n} \subseteq 1..n
        /\ \A r \in raws : r.tid # n
    BY <1>4, FreshId
  <2> HIDE DEF n, d
  <2>3. DOMAIN dumped = {} /\ Pending(timers) /\ Match /\ Complete
    BY <1>0, <1>4 DEF Inv, Placed
  <2>4. addRaw(n, d, now + d) \in RawTimer
    BY <1>0, <2>2 DEF addRaw, RawTimer
  <2>5. Types'
    BY <1>0, <1>1, <2>1, <2>2, <2>3, <2>4 DEF Types
  <2>6. /\ DOMAIN timers' = DOMAIN timers \cup {n}
        /\ \A i \in DOMAIN timers : timers'[i] = timers[i]
        /\ timers'[n] = [method |-> "repeat", interval |-> d, fire |-> now + d]
    BY <2>1, <2>2 DEF RepeatInfo
  <2>7. Pending(timers)'
    <3>1. timers'[n] \in TimerInfo /\ timers'[n].method \notin Callback /\ timers'[n].interval # 0
      BY <1>0, <2>6, TimersAssumption DEF TimerInfo, Method
    <3>2. ASSUME NEW i \in DOMAIN timers'
          PROVE  /\ timers'[i] \in TimerInfo
                 /\ timers'[i].interval = 0 <=> timers'[i].method \in Callback
                 /\ timers'[i].method \in Callback =>
                      /\ timers'[i].fire = due'[timers'[i].method]
                      /\ ran'[timers'[i].method] = << >>
                      /\ timers'[i].method \notin cancelled'
      <4>1. CASE i = n
        BY <3>1, <4>1
      <4>2. CASE i \in DOMAIN timers
        BY <1>1, <2>3, <2>6, <4>2 DEF Pending
      <4>3. QED
        BY <2>6, <4>1, <4>2
    <3>3. ASSUME NEW i \in DOMAIN timers', NEW j \in DOMAIN timers',
                 timers'[i].method = timers'[j].method, timers'[i].method \in Callback
          PROVE  i = j
      BY <2>3, <2>6, <3>1, <3>3 DEF Pending
    <3>4. QED
      BY <3>2, <3>3 DEF Pending
  <2>8. \A r \in raws' : r \in raws \/ (r.tid = n /\ r.every = d /\ r.fire = now + d
                                        /\ r = addRaw(n, d, now + d))
    BY <2>1 DEF addRaw
  <2>9. \A r \in raws : r \in raws' /\ r.tid \in DOMAIN timers
    BY <2>1, <2>3 DEF Match
  <2>10. Match'
    <3> SUFFICES ASSUME NEW r \in raws'
                 PROVE  /\ r.tid \in DOMAIN timers'
                        /\ \A q \in raws' : q.tid = r.tid => q = r
                        /\ r.fire <= timers'[r.tid].fire
                        /\ r.every \in {0, timers'[r.tid].interval}
                        /\ timers'[r.tid].interval = 0 => r.fire = timers'[r.tid].fire
      BY DEF Match
    <3>1. CASE r \in raws
      BY <2>2, <2>3, <2>6, <2>8, <2>9, <3>1 DEF Match
    <3>2. CASE r.tid = n /\ r.every = d /\ r.fire = now + d /\ r = addRaw(n, d, now + d)
      BY <1>0, <2>2, <2>6, <2>8, <3>2
    <3>3. QED
      BY <2>8, <3>1, <3>2
  <2>11. Complete'
    <3>1. addRaw(n, d, now + d) \in raws'
      BY <2>1
    <3>2. addRaw(n, d, now + d).tid = n
      BY DEF addRaw
    <3>3. QED
      BY <2>3, <2>6, <2>9, <3>1, <3>2 DEF Complete
  <2>12. QED
    BY <1>2, <2>5, <2>7, <2>10, <2>11 DEF Inv
<1>5. QED
  BY <1>3, <1>4

LEMMA CancelTimerStep ==
  ASSUME Inv, NEW tid, CancelTimer(tid)
  PROVE  Inv'
<1>0. /\ Types /\ Placed /\ Past /\ Pending(dumped) /\ Pending(timers) /\ Match /\ Complete
      /\ DOMAIN dumped = {} /\ life = "live" /\ timers # NilTimers /\ tid \in DOMAIN timers
  BY DEF Inv, Placed, CancelTimer
<1>1. /\ timers' = [i \in DOMAIN timers \ {tid} |-> timers[i]]
      /\ raws' = {r \in raws : r.tid # tid}
      /\ cancelled' = cancelled \cup ({timers[tid].method} \cap Callback)
      /\ due' = due /\ now' = now /\ life' = life /\ dumped' = dumped
      /\ ran' = ran /\ lastTimerId' = lastTimerId
  BY DEF CancelTimer, Without_
<1>2. /\ DOMAIN timers' = DOMAIN timers \ {tid}
      /\ \A i \in DOMAIN timers' : timers'[i] = timers[i]
      /\ \A r \in raws' : r \in raws /\ r.tid # tid
  BY <1>1
<1>3. Types' /\ Placed' /\ Pending(dumped)'
  BY <1>0, <1>1, <1>2 DEF Types, Placed, Pending
<1>4. timers[tid].method \in Callback =>
        due[timers[tid].method] \in Nat /\ ran[timers[tid].method] = << >>
  BY <1>0 DEF Pending, TimerInfo
<1>5. Past'
  BY <1>0, <1>1, <1>4 DEF Past
<1>6. Pending(timers)'
  BY <1>0, <1>1, <1>2 DEF Pending
<1>7. Match'
  BY <1>0, <1>2 DEF Match
<1>8. Complete'
  BY <1>0, <1>1, <1>2 DEF Complete
<1>9. QED
  BY <1>3, <1>5, <1>6, <1>7, <1>8 DEF Inv

\* The raw timer that goTimer adds again: the same one, its interval later at most.
LEMMA AgainLemma ==
  ASSUME NEW r \in RawTimer, now \in Nat, r.fire <= now, NEW s \in Again(r)
  PROVE  /\ s \in RawTimer /\ s.tid = r.tid /\ s.every = r.every /\ r.every > 0
         /\ s.fire <= now + r.every
BY DEF Again, RawTimer

LEMMA AgainOne ==
  ASSUME NEW r, NEW s \in Again(r), NEW q \in Again(r)
  PROVE  s = q
BY DEF Again

LEMMA AgainSome ==
  ASSUME NEW r, r.every # 0
  PROVE  Again(r) # {}
BY DEF Again

LEMMA FireStep ==
  ASSUME Inv, NEW r \in raws, Fire(r)
  PROVE  Inv'
<1> DEFINE info == timers[r.tid]
<1>0. /\ Types /\ Placed /\ Past /\ Pending(dumped) /\ DOMAIN dumped = {}
      /\ life # "away" /\ (life = "live" \/ LateCallback)
      /\ r \in RawTimer /\ r.fire <= now /\ now \in Nat
  BY DEF Inv, Placed, Types, Fire
<1>1. /\ now' = now /\ life' = life /\ lastTimerId' = lastTimerId /\ dumped' = dumped
      /\ due' = due /\ cancelled' = cancelled
  BY DEF Fire
<1>2. Placed' /\ Pending(dumped)'
  BY <1>0, <1>1 DEF Placed, Pending
<1>3. CASE timers = NilTimers
  <2>1. timers' = timers /\ ran' = ran /\ raws' = (raws \ {r}) \cup Again(r)
    BY <1>3 DEF Fire, triggerTimer
  <2>2. raws' \subseteq RawTimer
    BY <1>0, <2>1, AgainLemma DEF Types
  <2>3. Types' /\ Past'
    BY <1>0, <1>1, <1>3, <2>1, <2>2 DEF Types, Past
  <2>4. QED
    BY <1>2, <1>3, <2>1, <2>3 DEF Inv
<1>4. CASE timers # NilTimers
  <2>1. /\ Pending(timers) /\ Match /\ r.tid \in DOMAIN timers /\ info \in TimerInfo
        /\ DOMAIN timers \subseteq 1..lastTimerId
        /\ life = "live" => Complete
    BY <1>0, <1>4 DEF Inv, Types, Match, Pending
  <2>2. CASE info.interval = 0
    <3>1. /\ timers' = [i \in DOMAIN timers \ {r.tid} |-> timers[i]]
          /\ raws' = raws \ {r}
          /\ ran' = [ran EXCEPT ![info.method] = Append(@, now)]
      BY <1>4, <2>1, <2>2 DEF Fire, triggerTimer, Without_, TimerInfo
    <3>2. /\ info.method \in Callback /\ ran[info.method] = << >>
          /\ info.method \notin cancelled /\ due[info.method] = r.fire /\ r.fire \in Nat
      BY <1>0, <2>1, <2>2 DEF Pending, Match, RawTimer
    <3>3. /\ ran'[info.method] = <<now>>
          /\ \A c \in Callback : c # info.method => ran'[c] = ran[c]
          /\ ran' \in [Callback -> Seq(Nat)]
      <4>1. ran \in [Callback -> Seq(Nat)]
        BY <1>0 DEF Types
      <4>2. Append(ran[info.method], now) = <<now>> /\ <<now>> \in Seq(Nat)
        BY <1>0, <3>2
      <4>3. ran' = [ran EXCEPT ![info.method] = <<now>>]
        BY <3>1, <4>2
      <4>4. QED
        BY <3>2, <4>1, <4>2, <4>3
    <3>4. /\ DOMAIN timers' = DOMAIN timers \ {r.tid}
          /\ \A i \in DOMAIN timers' : timers'[i] = timers[i]
      BY <3>1
    <3>5. Types'
      BY <1>0, <1>1, <2>1, <3>1, <3>3, <3>4 DEF Types
    <3>6. Past'
      <4>1. Len(<<now>>) = 1 /\ <<now>> # << >> /\ <<now>>[1] = now
        BY <1>0
      <4>2. now >= due[info.method] /\ due[info.method] # -1
        BY <1>0, <3>2
      <4> SUFFICES ASSUME NEW c \in Callback
                   PROVE  /\ due'[c] = -1 => ran'[c] = << >> /\ c \notin cancelled'
                          /\ Len(ran'[c]) <= 1
                          /\ ran'[c] # << >> => ran'[c][1] >= due'[c] /\ c \notin cancelled'
        BY DEF Past
      <4>3. CASE c = info.method
        <5>1. ran'[c] = <<now>> /\ due'[c] = due[info.method] /\ c \notin cancelled'
          BY <1>1, <3>2, <3>3, <4>3
        <5>2. due'[c] # -1 /\ Len(ran'[c]) = 1 /\ ran'[c][1] >= due'[c]
          BY <4>1, <4>2, <5>1
        <5>3. QED
          BY ONLY <5>1, <5>2
      <4>4. CASE c # info.method
        BY <1>0, <1>1, <3>3, <4>4 DEF Past
      <4>5. QED
        BY <4>3, <4>4
    <3>7. Pending(timers)'
      <4>1. \A i \in DOMAIN timers' : timers[i].method # info.method
        BY <2>1, <3>2, <3>4 DEF Pending
      <4>2. QED
        BY <1>1, <2>1, <3>3, <3>4, <4>1 DEF Pending
    <3>8. Match'
      <4>1. \A q \in raws' : q \in raws /\ q.tid # r.tid
        BY <2>1, <3>1 DEF Match
      <4>2. QED
        BY <2>1, <3>4, <4>1 DEF Match
    <3>9. life' = "live" => Complete'
      BY <1>1, <2>1, <3>1, <3>4 DEF Complete
    <3>10. QED
      BY <1>2, <3>5, <3>6, <3>7, <3>8, <3>9 DEF Inv
  <2>3. CASE info.interval > 0
    <3> DEFINE next == IF r.every > 0 THEN Again(r)
                       ELSE {addRaw(r.tid, info.interval, now + info.interval)}
    <3>1. /\ timers' = [timers EXCEPT ![r.tid].fire = now + info.interval]
          /\ raws' = (raws \ {r}) \cup next
          /\ ran' = ran
      BY <1>4, <2>1, <2>3 DEF Fire, triggerTimer, TimerInfo
    <3>2. /\ info.interval \in Nat /\ info.interval # 0 /\ info.method \in Method
          /\ r.every \in {0, info.interval} /\ info.method \notin Callback
      BY <1>0, <2>1, <2>3 DEF TimerInfo, Match, Pending
    <3>3. \A s \in next : /\ s \in RawTimer /\ s.tid = r.tid /\ s.every = info.interval
                          /\ s.fire <= now + info.interval
      <4>1. CASE r.every > 0
        <5>1. r.every = info.interval
          BY <3>2, <4>1
        <5>2. QED
          BY <1>0, <4>1, <5>1, AgainLemma
      <4>2. CASE ~(r.every > 0)
        BY <1>0, <3>2, <4>2 DEF addRaw, RawTimer
      <4>3. QED
        BY <4>1, <4>2
    <3>4. next # {}
      <4>1. CASE r.every > 0
        <5>1. r.every # 0
          BY <1>0, <4>1 DEF RawTimer
        <5>2. QED
          BY <4>1, <5>1, AgainSome
      <4>2. CASE ~(r.every > 0)
        BY <4>2
      <4>3. QED
        BY <4>1, <4>2
    <3>5. \A s, q \in next : s = q
      BY AgainOne
    <3> HIDE DEF next
    <3>6. /\ DOMAIN timers' = DOMAIN timers
          /\ \A i \in DOMAIN timers : i # r.tid => timers'[i] = timers[i]
          /\ timers'[r.tid] = [info EXCEPT !.fire = now + info.interval]
      BY <2>1, <3>1
    <3>7. /\ timers'[r.tid] \in TimerInfo /\ timers'[r.tid].method = info.method
          /\ timers'[r.tid].interval = info.interval
          /\ timers'[r.tid].fire = now + info.interval
      BY <1>0, <2>1, <3>2, <3>6 DEF TimerInfo
    <3>8. Types' /\ Past'
      BY <1>0, <1>1, <2>1, <3>1, <3>3, <3>6 DEF Types, Past
    <3>9. Pending(timers)'
      <4>1. ASSUME NEW i \in DOMAIN timers'
            PROVE  /\ timers'[i] \in TimerInfo
                   /\ timers'[i].method = timers[i].method
                   /\ timers'[i].interval = timers[i].interval
                   /\ i # r.tid => timers'[i] = timers[i]
        BY <2>1, <3>6, <3>7 DEF Pending
      <4>2. QED
        BY <1>1, <2>1, <3>1, <3>2, <3>6, <4>1 DEF Pending
    <3>10. Match'
      <4>1. \A q \in raws' : q \in next \/ (q \in raws /\ q.tid # r.tid)
        BY <2>1, <3>1 DEF Match
      <4> SUFFICES ASSUME NEW s \in raws'
                   PROVE  /\ s.tid \in DOMAIN timers'
                          /\ \A q \in raws' : q.tid = s.tid => q = s
                          /\ s.fire <= timers'[s.tid].fire
                          /\ s.every \in {0, timers'[s.tid].interval}
                          /\ timers'[s.tid].interval = 0 => s.fire = timers'[s.tid].fire
        BY DEF Match
      <4>2. CASE s \in next
        BY <2>1, <3>2, <3>3, <3>5, <3>6, <3>7, <4>1, <4>2
      <4>3. CASE s \in raws /\ s.tid # r.tid
        BY <2>1, <3>3, <3>6, <4>1, <4>3 DEF Match
      <4>4. QED
        BY <4>1, <4>2, <4>3
    <3>11. life' = "live" => Complete'
      <4>1. \A q \in raws : q.tid # r.tid => q \in raws'
        BY <3>1
      <4>2. \E q \in raws' : q.tid = r.tid
        BY <3>1, <3>3, <3>4
      <4>3. QED
        BY <1>1, <2>1, <3>6, <4>1, <4>2 DEF Complete
    <3>12. QED
      BY <1>2, <3>8, <3>9, <3>10, <3>11 DEF Inv
  <2>4. QED
    BY <2>1, <2>2, <2>3 DEF TimerInfo
<1>5. QED
  BY <1>3, <1>4

LEMMA UnchangedStep ==
  ASSUME Inv, UNCHANGED timerVars
  PROVE  Inv'
BY DEF timerVars, Inv, Types, Placed, Past, Pending, Match, Complete

LEMMA TimePassesStep ==
  ASSUME Inv, TimePasses
  PROVE  Inv'
<1>1. now' \in Nat
  BY DEF Inv, Types, TimePasses
<1>2. Types'
  BY <1>1 DEF Inv, Types, TimePasses
<1>3. Placed' /\ Past' /\ Pending(dumped)'
  BY DEF Inv, Placed, Past, Pending, TimePasses
<1>4. timers' # NilTimers => Pending(timers)' /\ Match'
  BY DEF Inv, Pending, Match, TimePasses
<1>5. life' = "live" /\ timers' # NilTimers => Complete'
  BY DEF Inv, Complete, TimePasses
<1>6. QED
  BY <1>2, <1>3, <1>4, <1>5 DEF Inv

\* What dumpTimers leaves behind: the map as it was, if it was empty or nil, or nil.
LEMMA Dumped ==
  ASSUME NoMoreTimers
  PROVE  \/ timers' = NilTimers
         \/ timers' = timers /\ DOMAIN timers = {}
BY DEF NoMoreTimers, dumpTimers

LEMMA FailedFreezeStep ==
  ASSUME Inv, FailedFreeze
  PROVE  Inv'
<1>1. /\ Types /\ Placed /\ Past /\ Pending(dumped)
      /\ life' = life /\ now' = now /\ lastTimerId' = lastTimerId /\ raws' = raws
      /\ dumped' = dumped /\ due' = due /\ ran' = ran /\ cancelled' = cancelled
  BY DEF Inv, FailedFreeze
<1>2. timers' = NilTimers \/ timers' = timers
  BY Dumped DEF FailedFreeze
<1>3. Types' /\ Placed' /\ Past' /\ Pending(dumped)'
  BY <1>1, <1>2 DEF Types, Placed, Past, Pending
<1>4. CASE timers' = NilTimers
  BY <1>3, <1>4 DEF Inv
<1>5. CASE timers' = timers
  <2>1. timers' # NilTimers => Pending(timers)' /\ Match'
    BY <1>1, <1>5 DEF Inv, Pending, Match
  <2>2. life' = "live" /\ timers' # NilTimers => Complete'
    BY <1>1, <1>5 DEF Inv, Complete
  <2>3. QED
    BY <1>3, <2>1, <2>2 DEF Inv
<1>6. QED
  BY <1>2, <1>4, <1>5

LEMMA DepartStep ==
  ASSUME Inv, Depart
  PROVE  Inv'
<1>1. /\ Types /\ Placed /\ Past /\ Pending(dumped)
      /\ life' = "away" /\ now' = now /\ lastTimerId' = lastTimerId /\ raws' = {}
      /\ dumped' = dumpTimers /\ due' = due /\ ran' = ran /\ cancelled' = cancelled
  BY DEF Inv, Depart
<1>2. timers' = NilTimers \/ (timers' = timers /\ DOMAIN timers = {})
  BY Dumped DEF Depart
<1>3. \/ timers = NilTimers /\ dumped' = << >>
      \/ timers # NilTimers /\ dumped' = timers
  BY <1>1 DEF dumpTimers
<1>4. Pending(dumped)' /\ DOMAIN dumped' \subseteq 1..lastTimerId
  <2>1. CASE timers = NilTimers /\ dumped' = << >>
    <3>1. DOMAIN dumped' = {}
      BY <2>1
    <3>2. QED
      BY <3>1 DEF Pending
  <2>2. CASE timers # NilTimers /\ dumped' = timers
    BY <1>1, <2>2 DEF Inv, Pending, Types
  <2>3. QED
    BY <1>3, <2>1, <2>2
<1>5. Types' /\ Placed' /\ Past'
  BY <1>1, <1>2, <1>4 DEF Types, Placed, Past
<1>6. timers' # NilTimers => Pending(timers)' /\ Match'
  BY <1>1, <1>2 DEF Pending, Match
<1>7. QED
  BY <1>1, <1>4, <1>5, <1>6 DEF Inv

LEMMA ArriveStep ==
  ASSUME Inv, Arrive
  PROVE  Inv'
<1> DEFINE n == Cardinality(DOMAIN dumped)
<1>1. /\ Types /\ Placed /\ Past /\ Pending(dumped)
      /\ life' = "live" /\ now' = now /\ lastTimerId' = n
      /\ raws' = {addRaw(i, 0, timers'[i].fire) : i \in 1..n}
      /\ dumped' = << >> /\ due' = due /\ ran' = ran /\ cancelled' = cancelled
  BY DEF Inv, Arrive
<1>2. n \in Nat
  <2>1. IsFiniteSet(1..lastTimerId)
    BY <1>1, FS_Interval DEF Types
  <2>2. IsFiniteSet(DOMAIN dumped)
    BY <1>1, <2>1, FS_Subset DEF Types
  <2>3. QED
    BY <2>2, FS_CardinalityType
<1>3. PICK old \in Bijection(1..n, DOMAIN dumped) : timers' = [i \in 1..n |-> dumped[old[i]]]
  BY DEF Arrive
<1> HIDE DEF n
<1>4. /\ \A i \in 1..n : old[i] \in DOMAIN dumped
      /\ \A i, j \in 1..n : old[i] = old[j] => i = j
  BY DEF Bijection, Injection, Surjection, IsInjective
<1>5. DOMAIN timers' = 1..n /\ \A i \in 1..n : timers'[i] = dumped[old[i]]
  BY <1>3
<1>6. \A i \in 1..n : timers'[i] \in TimerInfo
  BY <1>1, <1>4, <1>5 DEF Pending
<1>7. \A r \in raws' : /\ r \in RawTimer /\ r.tid \in 1..n /\ r.every = 0
                       /\ r.fire = timers'[r.tid].fire /\ r = addRaw(r.tid, 0, r.fire)
  <2>1. ASSUME NEW i \in 1..n
        PROVE  addRaw(i, 0, timers'[i].fire) \in RawTimer
    BY <1>2, <1>6 DEF addRaw, RawTimer, TimerInfo
  <2> SUFFICES ASSUME NEW r \in raws'
               PROVE  /\ r \in RawTimer /\ r.tid \in 1..n /\ r.every = 0
                      /\ r.fire = timers'[r.tid].fire /\ r = addRaw(r.tid, 0, r.fire)
    OBVIOUS
  <2>2. PICK i \in 1..n : r = addRaw(i, 0, timers'[i].fire)
    BY <1>1
  <2>3. r.tid = i /\ r.every = 0 /\ r.fire = timers'[i].fire
    BY <2>2 DEF addRaw
  <2>4. QED
    BY <2>1, <2>2, <2>3
<1>8. Pending(dumped)' /\ DOMAIN dumped' = {}
  <2>1. DOMAIN dumped' = {}
    BY <1>1
  <2>2. QED
    BY <2>1 DEF Pending
<1>9. Types' /\ Placed' /\ Past'
  BY <1>1, <1>2, <1>5, <1>7, <1>8 DEF Types, Placed, Past
<1>10. Pending(timers)'
  BY <1>1, <1>4, <1>5 DEF Pending
<1>11. Match'
  BY <1>2, <1>5, <1>6, <1>7 DEF Match, TimerInfo
<1>12. Complete'
  <2> SUFFICES ASSUME NEW i \in DOMAIN timers'
               PROVE  \E r \in raws' : r.tid = i
    BY DEF Complete
  <2>1. addRaw(i, 0, timers'[i].fire) \in raws'
    BY <1>1, <1>5
  <2>2. addRaw(i, 0, timers'[i].fire).tid = i
    BY DEF addRaw
  <2>3. QED
    BY <2>1, <2>2
<1>13. QED
  BY <1>8, <1>9, <1>10, <1>11, <1>12 DEF Inv

LEMMA DestroyStep ==
  ASSUME Inv, Destroy
  PROVE  Inv'
<1>1. /\ Types /\ Placed /\ Past /\ Pending(dumped) /\ DOMAIN dumped = {}
      /\ life' = "destroyed" /\ now' = now /\ dumped' = dumped
      /\ ran' = ran /\ cancelled' = cancelled
  BY DEF Inv, Placed, Destroy
<1>2. CASE raws' = {} /\ UNCHANGED <<timers, lastTimerId, due>>
  <2>1. Types' /\ Placed' /\ Past' /\ Pending(dumped)'
    BY <1>1, <1>2 DEF Types, Placed, Past, Pending
  <2>2. timers' # NilTimers => Pending(timers)' /\ Match'
    BY <1>1, <1>2 DEF Inv, Pending, Match
  <2>3. QED
    BY <1>1, <2>1, <2>2 DEF Inv
<1>3. ASSUME LateCallback, timers # NilTimers, lastTimerId' = genTimerId,
             NEW c \in Callback, NEW d \in Delay, due[c] = -1,
             timers' = With(genTimerId, CallbackInfo(c, d)),
             raws' = {addRaw(genTimerId, 0, now + d)},
             due' = [due EXCEPT ![c] = now + d]
      PROVE  Inv'
  <2> DEFINE n == genTimerId
  <2>1. /\ n \in Nat /\ n \notin DOMAIN timers /\ DOMAIN timers \cup {n} \subseteq 1..n
    BY <1>3, FreshId
  <2>2. /\ timers' = [i \in DOMAIN timers \cup {n} |->
                        IF i = n THEN CallbackInfo(c, d) ELSE timers[i]]
        /\ raws' = {addRaw(n, 0, now + d)} /\ lastTimerId' = n
    BY <1>3 DEF With
  <2> HIDE DEF n
  <2>3. d \in Nat /\ now + d \in Nat /\ Pending(timers)
    BY <1>1, <1>3, TimersAssumption DEF Inv, Types
  <2>4. Past' /\ Pending(timers)'
    BY <1>1, <1>3, <2>1, <2>2, <2>3, AddedCallback
  <2>5. /\ DOMAIN timers' = DOMAIN timers \cup {n}
        /\ timers'[n].interval = 0 /\ timers'[n].fire = now + d
    BY <2>2 DEF CallbackInfo
  <2>6. \A r \in raws' : /\ r \in RawTimer /\ r.tid = n /\ r.every = 0 /\ r.fire = now + d
                         /\ r = addRaw(n, 0, now + d)
    BY <2>1, <2>2, <2>3 DEF addRaw, RawTimer
  <2>7. Match'
    BY <2>3, <2>5, <2>6 DEF Match
  <2>8. Types' /\ Placed' /\ Pending(dumped)'
    BY <1>1, <1>3, <2>1, <2>2, <2>3, <2>5, <2>6 DEF Types, Placed, Pending
  <2>9. QED
    BY <1>1, <2>4, <2>7, <2>8 DEF Inv
<1>4. QED
  BY <1>2, <1>3 DEF Destroy

-----------------------------------------------------------------------------

LEMMA Step ==
  ASSUME Inv, [EntityNext]_entityVars
  PROVE  Inv'
<1>1. CASE UNCHANGED timerVars
  BY <1>1, UnchangedStep
<1>2. CASE TimerOp
  BY <1>2, AddCallbackStep, AddTimerStep, CancelTimerStep, FailedFreezeStep DEF TimerOp
<1>3. CASE Depart
  BY <1>3, DepartStep
<1>4. CASE Arrive
  BY <1>4, ArriveStep
<1>5. CASE Destroy
  BY <1>5, DestroyStep
<1>6. CASE MainLoop
  BY <1>6, FireStep DEF MainLoop
<1>7. CASE TimePasses
  BY <1>7, TimePassesStep
<1>8. QED
  <2>1. CASE EntityNext
    BY <1>1, <1>2, <1>3, <1>4, <1>5, <1>6, <1>7, <2>1
       DEF EntityNext, Program, Leaves, Returns, Destroyed
  <2>2. CASE UNCHANGED entityVars
    BY <1>1, <2>2 DEF entityVars
  <2>3. QED
    BY <2>1, <2>2

\* What the timer map, the heap and the freeze data of an entity have to do with
\* each other (AddCallback to restoreTimers in Entity.go) is inductive.
THEOREM TimersInvariant == EntitySpec => []Inv
<1>1. EntityInit => Inv
  BY Initially DEF EntityInit
<1>2. Inv /\ [EntityNext]_entityVars => Inv'
  BY Step
<1>3. QED
  BY <1>1, <1>2, PTL DEF EntitySpec

\* The timers of a live entity are the ones that will fire, and none fires at an
\* entity that is gone (addRawCallback, clearRawTimers, restoreTimers).
THEOREM TimersAlwaysMatch == EntitySpec => []TimersMatch
<1>1. Inv => TimersMatch
  <2> SUFFICES ASSUME Inv PROVE TimersMatch
    OBVIOUS
  <2>1. life # "live" /\ ~LateCallback => raws = {}
    BY DEF Inv, Placed
  <2>2. ASSUME life = "live", timers # NilTimers
        PROVE  /\ {r.tid : r \in raws} = DOMAIN timers
               /\ \A r \in raws : /\ \A q \in raws : q.tid = r.tid => q = r
                                  /\ r.fire <= timers[r.tid].fire
                                  /\ r.every \in {0, timers[r.tid].interval}
    BY <2>2 DEF Inv, Match, Complete
  <2>3. QED
    BY <2>1, <2>2 DEF TimersMatch
<1>2. QED
  BY <1>1, TimersInvariant, PTL

\* A callback runs at most once, in time and not once it is cancelled, through any
\* number of freezes and migrations (triggerTimer, dumpTimers, restoreTimers).
THEOREM CallbacksOnceAndInTime == EntitySpec => []OnceAndInTime
<1>1. Inv => OnceAndInTime
  BY DEF Inv, Past, OnceAndInTime
<1>2. QED
  BY <1>1, TimersInvariant, PTL
=============================================================================
