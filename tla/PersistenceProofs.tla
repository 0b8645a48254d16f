-------------------------- MODULE PersistenceProofs --------------------------
(***************************************************************************)
(* Theorems about the storage and the asynchronous jobs of a game, for any *)
(* entities, backends, requests, number of requests and failures: every    *)
(* queue answers in order, each answer sees exactly what was asked before  *)
(* it, a name is claimed once, and a game that exits has lost nothing.     *)
(***************************************************************************)
EXTENDS Persistence, FiniteSetTheorems, SequenceTheorems, TLAPS

\* A request as the history keeps it, and an answer.
Ticket == {[to |-> x[1], kind |-> x[2], on |-> x[3]] : x \in Askable}
Unnamed == ""
Error == {"none", "missing", "fault", "unsupported", "panic", "nosession"}
Answer == [id : Nat, error : Error, value : Nat, ids : SUBSET Entity]

Typed ==
  /\ asked \in Seq(Ticket) /\ callbacks \in Seq(Answer) /\ faults \in 0 .. MaxFaults
  /\ worker \in [Group -> {"none", "open", "closed"}]
  /\ jobs \in [Group -> Seq(1 .. MaxRequests)]
  /\ engine \in [{"kvdb", "rank"} -> BOOLEAN]
  /\ kvBackend \in KvBackends /\ kv \in [Name -> 0 .. Foreign] /\ oldVal \in 0 .. NotRead
  /\ session \in BOOLEAN /\ rank \in [score : BOOLEAN, details : BOOLEAN]
  /\ operationQueue \in Seq(Nat) /\ storageEngine \in BOOLEAN
  /\ backend \in StorageBackends /\ stored \in [Entity -> Nat]
  /\ closed \in BOOLEAN /\ storageRoutineTerminated \in BOOLEAN 
  /\ cut \subseteq 1 .. Len(asked)
  /\ requests \subseteq Askable /\ main \in Modes /\ cleared \in BOOLEAN
  /\ stopping \in {"none", "terminating", "freezing"}
  /\ toDestroy \subseteq Entity /\ drained \in Nat /\ log \in Seq(Nat) /\ claims \in Nat

-----------------------------------------------------------------------------
(* The parts of the invariant.                                             *)

\* The queue of q holds requests made to q, in order, and what was asked of q and
\* waits no more was asked before anything that waits.
Queued(a, q, s) ==
  /\ s \in Seq(1 .. Len(a))
  /\ \A i \in 1 .. Len(s) : a[s[i]].to = q
  /\ \A i, j \in 1 .. Len(s) : i < j => s[i] < s[j]
  /\ \A n \in 1 .. Len(a) :
       a[n].to = q => \/ \E i \in 1 .. Len(s) : s[i] = n
                      \/ \A i \in 1 .. Len(s) : n < s[i]
Order == \A q \in Requester : Queued(asked, q, Pending[q])

\* What was asked of q and has left its queue.
DoneOf(a, q, s) == {m \in 1 .. Len(a) : a[m].to = q /\ \A i \in 1 .. Len(s) : s[i] # m}
Done(q) == DoneOf(asked, q, Pending[q])

\* An answer is to a request, and no job leaves its queue without a trace.
Ids == {callbacks[i].id : i \in 1 .. Len(callbacks)}
Known == Ids \cup lost \cup Range(log) \subseteq 1 .. Len(asked)
Kept == \A g \in Group : Done(g) \subseteq lost \cup Range(log) \cup Ids

\* The backend holds of each entity the newest save it was asked for, or already
\* the save at the head of the queue.
Newest(e, v, D) ==
  /\ v = 0 \/ (v \in D /\ IsSaveOf(asked[v], e))
  /\ \A m \in D : IsSaveOf(asked[m], e) => m <= v
StoredNewest ==
  \A e \in Entity :
    \/ Newest(e, stored[e], Done("storage"))
    \/ /\ operationQueue # <<>> /\ stored[e] = Head(operationQueue)
       /\ IsSaveOf(asked[Head(operationQueue)], e)
IsClose(r) == r.to = "mongodb" /\ r.kind = "close"
SessionOpen == session <=> ~ \E m \in Done("mongodb") : IsClose(asked[m])

\* One answer sees what was asked before it, the lists of C being cut short.
Right(a, C) ==
  LET r == asked[a.id]
      saved == {e \in Entity : LastSave(e, a.id) # 0}
  IN
    /\ r.kind = "load" /\ a.error # "fault" => a.value = LastSave(r.on, a.id)
    /\ r.kind = "exists" /\ a.error # "fault" => (a.value = 1) = (LastSave(r.on, a.id) # 0)
    /\ r.kind = "list" /\ r.to = "storage" =>
         /\ a.ids \subseteq saved
         /\ a.error = "none" /\ a.id \notin C => a.ids = saved
    /\ r.to = "mongodb" =>
         (a.error = "nosession") =
           (\E m \in 1 .. (a.id - 1) : asked[m].to = "mongodb" /\ asked[m].kind = "close")
Seen == \A i \in 1 .. Len(callbacks) : Right(callbacks[i], cut)

\* Who has claimed the key left a value there, and nobody has read it empty since.
Once ==
  /\ \A i, j \in 1 .. Len(callbacks) : Claims(callbacks[i]) /\ Claims(callbacks[j]) => i = j
  /\ claims \in {0, 1}
  /\ claims = 1 => \A i \in 1 .. Len(callbacks) : ~ Claims(callbacks[i])
  /\ claims = 1 \/ (\E i \in 1 .. Len(callbacks) : Claims(callbacks[i]))
       => kv[Unnamed] # 0 /\ oldVal # 0

\* How far a game that stops has come.
Stopping ==
  /\ \A g \in Group : worker[g] = "none" => jobs[g] = <<>>
  /\ main \in {"running", "posts"} => \A g \in Group : worker[g] # "closed"
  /\ main = "waitclear" /\ ~ cleared =>
       /\ \A g \in Group : worker[g] = "none"
       /\ \A i \in 1 .. Len(callbacks) : asked[callbacks[i].id].to = "storage"
  /\ main \in {"running", "posts", "waitclear"} => Len(asked) <= MaxRequests
  /\ main \in {"running", "posts", "waitclear", "destroying"} => ~ closed
  /\ Len(asked) + Cardinality(toDestroy) <= MaxRequests + Cardinality(Entity)
  /\ storageRoutineTerminated => closed /\ operationQueue = <<>>
  /\ main = "exited" => storageRoutineTerminated
Drained ==
  /\ drained <= Len(asked)
  /\ \A n \in 1 .. drained : asked[n].to # "storage" => n \in lost \cup Range(log)

Inv ==
  /\ Typed /\ Order /\ Known /\ Kept /\ StoredNewest /\ SessionOpen
  /\ Seen /\ Once /\ Stopping /\ Drained

-----------------------------------------------------------------------------
(* Requests                                                                 *)

\* What the code may ask of whom.
Sane(to, kind, name) ==
  /\ to \in Requester
  /\ kind \in {"save", "savequiet", "load", "exists"} => to = "storage" /\ name \in Entity
  /\ to = "storage" => kind \in {"save", "savequiet", "load", "exists", "list"}
  /\ kind = "getorput" => to = "kvdb" /\ name = Unnamed
  /\ to = "kvdb" => kind \in {"get", "put", "getorput", "range"} /\ name \in Name
  /\ to # "storage" => to \in Group

LEMMA AskableShape ==
  ASSUME NEW x \in Askable
  PROVE  Sane(x[1], x[2], x[3])
  BY DEF Askable, Sane, Requester, Group, Name, Unnamed

LEMMA TicketShape ==
  ASSUME NEW r \in Ticket
  PROVE  Sane(r.to, r.kind, r.on)
  <1>1. PICK x \in Askable : r = [to |-> x[1], kind |-> x[2], on |-> x[3]]
    BY DEF Ticket
  <1> QED BY <1>1, AskableShape

LEMMA RequesterShape ==
  /\ "storage" \in Requester /\ Group \subseteq Requester /\ "storage" \notin Group
  /\ \A q \in Requester : q = "storage" \/ q \in Group
  BY DEF Requester, Group

-----------------------------------------------------------------------------
(* Queues                                                                   *)

LEMMA AppendFacts ==
  ASSUME NEW S, NEW a \in Seq(S), NEW r \in S
  PROVE  /\ Append(a, r) \in Seq(S) /\ Len(Append(a, r)) = Len(a) + 1 /\ Len(a) \in Nat
         /\ \A i \in 1 .. Len(a) : Append(a, r)[i] = a[i]
         /\ Append(a, r)[Len(a) + 1] = r
  OBVIOUS

LEMMA TailFacts ==
  ASSUME NEW S, NEW a \in Seq(S), a # <<>>
  PROVE  /\ Tail(a) \in Seq(S) /\ Len(Tail(a)) = Len(a) - 1 /\ Len(a) \in Nat \ {0}
         /\ \A i \in 1 .. Len(Tail(a)) : Tail(a)[i] = a[i + 1]
         /\ Head(a) = a[1] /\ Head(a) \in S
  OBVIOUS

LEMMA QueuedNew ==
  ASSUME NEW S, NEW a \in Seq(S), NEW r \in S, NEW q, r.to = q, NEW s, Queued(a, q, s)
  PROVE  /\ Queued(Append(a, r), q, Append(s, Len(a) + 1))
         /\ DoneOf(Append(a, r), q, Append(s, Len(a) + 1)) = DoneOf(a, q, s)
  <1> DEFINE b == Append(a, r)
             t == Append(s, Len(a) + 1)
  <1>1. /\ Len(b) = Len(a) + 1 /\ Len(a) \in Nat
        /\ \A i \in 1 .. Len(a) : b[i] = a[i]
        /\ b[Len(a) + 1] = r
    BY AppendFacts
  <1>2. s \in Seq(1 .. Len(a)) /\ s \in Seq(1 .. (Len(a) + 1))
    BY <1>1 DEF Queued
  <1>3. /\ t \in Seq(1 .. (Len(a) + 1)) /\ Len(t) = Len(s) + 1 /\ Len(s) \in Nat
        /\ \A i \in 1 .. Len(s) : t[i] = s[i] /\ s[i] \in 1 .. Len(a)
        /\ t[Len(s) + 1] = Len(a) + 1
    BY <1>1, <1>2
  <1> HIDE DEF b, t
  <1>4. \A i \in 1 .. Len(t) : i \in 1 .. Len(s) \/ i = Len(s) + 1
    BY <1>3
  <1>5. \A i \in 1 .. Len(t) : b[t[i]].to = q
    BY <1>1, <1>3, <1>4 DEF Queued
  <1>6. ASSUME NEW i \in 1 .. Len(t), NEW j \in 1 .. Len(t), i < j PROVE t[i] < t[j]
    <2>1. i \in 1 .. Len(s)
      BY <1>3, <1>6
    <2>2. CASE j \in 1 .. Len(s)
      BY <1>3, <1>6, <2>1, <2>2 DEF Queued
    <2>3. CASE j = Len(s) + 1
      BY <1>1, <1>3, <2>1, <2>3
    <2> QED BY <1>4, <2>2, <2>3
  <1>7. ASSUME NEW n \in 1 .. Len(b), b[n].to = q
        PROVE  \/ \E i \in 1 .. Len(t) : t[i] = n
               \/ \A i \in 1 .. Len(t) : n < t[i]
    <2>1. CASE n = Len(a) + 1
      <3>1. Len(s) + 1 \in 1 .. Len(t)
        BY <1>3
      <3> QED BY <1>3, <2>1, <3>1
    <2>2. CASE n \in 1 .. Len(a)
      <3>1. a[n].to = q
        BY <1>1, <1>7, <2>2
      <3>2. CASE \E i \in 1 .. Len(s) : s[i] = n
        <4>1. PICK i \in 1 .. Len(s) : s[i] = n
          BY <3>2
        <4>2. i \in 1 .. Len(t) /\ t[i] = n
          BY <1>3, <4>1
        <4> QED BY <4>2
      <3>3. CASE \A i \in 1 .. Len(s) : n < s[i]
        <4>1. ASSUME NEW i \in 1 .. Len(t) PROVE n < t[i]
          <5>1. CASE i \in 1 .. Len(s)
            BY <1>3, <3>3, <5>1
          <5>2. CASE i = Len(s) + 1
            BY <1>1, <1>3, <2>2, <5>2
          <5> QED BY <1>4, <5>1, <5>2
        <4> QED BY <4>1
      <3> QED BY <2>2, <3>1, <3>2, <3>3 DEF Queued
    <2> QED BY <1>1, <2>1, <2>2
  <1>8. Queued(b, q, t)
    BY <1>1, <1>3, <1>5, <1>6, <1>7 DEF Queued
  <1>9. ASSUME NEW m PROVE m \in DoneOf(b, q, t) <=> m \in DoneOf(a, q, s)
    <2>1. CASE m \in 1 .. Len(a)
      <3>1. m \in 1 .. Len(b) /\ b[m] = a[m] /\ m # Len(a) + 1
        BY <1>1, <2>1
      <3>2. (\A i \in 1 .. Len(t) : t[i] # m) <=> (\A i \in 1 .. Len(s) : s[i] # m)
        <4>1. ASSUME NEW i \in 1 .. Len(s) PROVE i \in 1 .. Len(t) /\ t[i] = s[i]
          BY <1>3
        <4>2. ASSUME \A i \in 1 .. Len(s) : s[i] # m, NEW i \in 1 .. Len(t) PROVE t[i] # m
          BY <1>3, <1>4, <3>1, <4>2
        <4> QED BY <4>1, <4>2
      <3> QED BY <2>1, <3>1, <3>2 DEF DoneOf
    <2>2. CASE m \notin 1 .. Len(a)
      <3>1. m \notin DoneOf(a, q, s)
        BY <2>2 DEF DoneOf
      <3>2. m = Len(a) + 1 \/ m \notin 1 .. Len(b)
        BY <1>1, <2>2
      <3>3. Len(s) + 1 \in 1 .. Len(t)
        BY <1>3
      <3> QED BY <1>3, <3>1, <3>2, <3>3 DEF DoneOf
    <2> QED BY <2>1, <2>2
  <1> QED BY <1>8, <1>9 DEF b, t

LEMMA QueuedElsewhere ==
  ASSUME NEW S, NEW a \in Seq(S), NEW r \in S, NEW q, r.to # q, NEW s, Queued(a, q, s)
  PROVE  Queued(Append(a, r), q, s) /\ DoneOf(Append(a, r), q, s) = DoneOf(a, q, s)
  <1> DEFINE b == Append(a, r)
  <1>1. /\ Len(b) = Len(a) + 1 /\ Len(a) \in Nat
        /\ \A i \in 1 .. Len(a) : b[i] = a[i]
        /\ b[Len(a) + 1] = r
    BY AppendFacts
  <1>2. s \in Seq(1 .. Len(a)) /\ s \in Seq(1 .. (Len(a) + 1)) /\ Len(s) \in Nat
        /\ \A i \in 1 .. Len(s) : s[i] \in 1 .. Len(a)
    BY <1>1 DEF Queued
  <1> HIDE DEF b
  <1>3. \A n \in 1 .. Len(b) : b[n].to = q => n \in 1 .. Len(a) /\ b[n] = a[n]
    BY <1>1
  <1>4. Queued(b, q, s)
    BY <1>1, <1>2, <1>3 DEF Queued
  <1>5. \A n \in 1 .. Len(a) : n \in 1 .. Len(b) /\ b[n] = a[n]
    BY <1>1
  <1>6. DoneOf(b, q, s) = DoneOf(a, q, s)
    BY <1>3, <1>5 DEF DoneOf
  <1> QED BY <1>4, <1>6 DEF b

\* The head of the queue of q: what was asked of q before it has left the queue.
Oldest(a, q, s) ==
  /\ Head(s) \in 1 .. Len(a) /\ a[Head(s)].to = q /\ Head(s) \notin DoneOf(a, q, s)
  /\ DoneOf(a, q, s) = {m \in 1 .. (Head(s) - 1) : a[m].to = q}

\* What leaves a queue is the oldest request in it.
LEMMA QueuedTail ==
  ASSUME NEW a, Len(a) \in Nat, NEW q, NEW s, Queued(a, q, s), s # <<>>
  PROVE  /\ Queued(a, q, Tail(s))
         /\ DoneOf(a, q, Tail(s)) = DoneOf(a, q, s) \cup {Head(s)}
         /\ Oldest(a, q, s)
  <1>1. s \in Seq(1 .. Len(a))
    BY DEF Queued
  <1> DEFINE t == Tail(s)
  <1>2. /\ t \in Seq(1 .. Len(a)) /\ Len(t) = Len(s) - 1 /\ Len(s) \in Nat \ {0}
        /\ \A i \in 1 .. Len(t) : t[i] = s[i + 1]
        /\ Head(s) = s[1] /\ s[1] \in 1 .. Len(a)
    BY <1>1, TailFacts
  <1> HIDE DEF t
  <1>3. \A i \in 1 .. Len(t) : i + 1 \in 1 .. Len(s)
    BY <1>2
  <1>4. \A i \in 1 .. Len(s) : i = 1 \/ (i - 1 \in 1 .. Len(t) /\ t[i - 1] = s[i])
    BY <1>2
  <1>5. \A i \in 1 .. Len(t) : a[t[i]].to = q /\ s[1] < t[i]
    <2> SUFFICES ASSUME NEW i \in 1 .. Len(t) PROVE a[t[i]].to = q /\ s[1] < t[i]
      OBVIOUS
    <2>1. t[i] = s[i + 1] /\ i + 1 \in 1 .. Len(s) /\ 1 \in 1 .. Len(s) /\ 1 < i + 1
      BY <1>2, <1>3
    <2> QED BY <2>1 DEF Queued
  <1>6. ASSUME NEW i \in 1 .. Len(t), NEW j \in 1 .. Len(t), i < j PROVE t[i] < t[j]
    <2>1. /\ t[i] = s[i + 1] /\ i + 1 \in 1 .. Len(s)
          /\ t[j] = s[j + 1] /\ j + 1 \in 1 .. Len(s) /\ i + 1 < j + 1
      BY <1>2, <1>3, <1>6
    <2> QED BY <2>1 DEF Queued
  <1>7. ASSUME NEW n \in 1 .. Len(a), a[n].to = q
        PROVE  \/ \E i \in 1 .. Len(t) : t[i] = n
               \/ \A i \in 1 .. Len(t) : n < t[i]
    <2>1. CASE \E i \in 1 .. Len(s) : s[i] = n
      <3>1. PICK i \in 1 .. Len(s) : s[i] = n
        BY <2>1
      <3>2. CASE i = 1
        BY <1>5, <3>1, <3>2
      <3>3. CASE i # 1
        BY <1>4, <3>1, <3>3
      <3> QED BY <3>2, <3>3
    <2>2. CASE \A i \in 1 .. Len(s) : n < s[i]
      <3>1. \A i \in 1 .. Len(t) : n < t[i]
        BY <1>2, <1>3, <2>2
      <3> QED BY <3>1
    <2> QED BY <1>7, <2>1, <2>2 DEF Queued
  <1>8. Queued(a, q, t)
    BY <1>2, <1>5, <1>6, <1>7 DEF Queued
  <1>9. 1 \in 1 .. Len(s) /\ a[s[1]].to = q
    BY <1>2 DEF Queued
  <1>10. ASSUME NEW m PROVE m \in DoneOf(a, q, t) <=> m \in DoneOf(a, q, s) \/ m = s[1]
    <2>1. ASSUME m \in DoneOf(a, q, t), m # s[1] PROVE m \in DoneOf(a, q, s)
      <3>1. \A i \in 1 .. Len(s) : s[i] # m
        BY <1>4, <2>1 DEF DoneOf
      <3> QED BY <2>1, <3>1 DEF DoneOf
    <2>2. ASSUME m \in DoneOf(a, q, s) PROVE m \in DoneOf(a, q, t)
      BY <1>2, <1>3, <2>2 DEF DoneOf
    <2>3. s[1] \in DoneOf(a, q, t)
      <3>1. \A i \in 1 .. Len(t) : t[i] \in 1 .. Len(a)
        BY <1>2
      <3> QED BY <1>2, <1>5, <1>9, <3>1 DEF DoneOf
    <2> QED BY <2>1, <2>2, <2>3
  <1>11. s[1] \notin DoneOf(a, q, s)
    BY <1>9 DEF DoneOf
  <1>12. ASSUME NEW m PROVE m \in DoneOf(a, q, s) <=> m \in 1 .. (s[1] - 1) /\ a[m].to = q
    <2>1. ASSUME m \in DoneOf(a, q, s) PROVE m \in 1 .. (s[1] - 1) /\ a[m].to = q
      <3>1. m \in 1 .. Len(a) /\ a[m].to = q /\ \A i \in 1 .. Len(s) : s[i] # m
        BY <2>1 DEF DoneOf
      <3>2. m < s[1]
        BY <1>9, <3>1 DEF Queued
      <3> QED BY <1>2, <3>1, <3>2
    <2>2. ASSUME m \in 1 .. (s[1] - 1), a[m].to = q PROVE m \in DoneOf(a, q, s)
      <3>1. m \in 1 .. Len(a) /\ m < s[1]
        BY <1>2, <2>2
      <3>2. ASSUME NEW i \in 1 .. Len(s) PROVE s[i] # m
        <4>1. CASE i = 1
          BY <1>2, <3>1, <4>1
        <4>2. CASE i # 1
          <5>1. s[1] < s[i] /\ s[i] \in 1 .. Len(a)
            BY <1>1, <1>9, <4>2 DEF Queued
          <5> QED BY <1>2, <3>1, <5>1
        <4> QED BY <4>1, <4>2
      <3> QED BY <2>2, <3>1, <3>2 DEF DoneOf
    <2> QED BY <2>1, <2>2
  <1>13. DoneOf(a, q, s) = {m \in 1 .. (s[1] - 1) : a[m].to = q}
    BY <1>12
  <1> QED BY <1>2, <1>8, <1>9, <1>10, <1>11, <1>13 DEF t, Oldest

LEMMA DoneAll ==
  ASSUME NEW a, NEW q
  PROVE  DoneOf(a, q, <<>>) = {m \in 1 .. Len(a) : a[m].to = q}
  BY DEF DoneOf

-----------------------------------------------------------------------------
(* What a step does to requests, queues and answers.                        *)

\* A request is made of q.
Asks(q) ==
  /\ \E r \in Ticket : r.to = q /\ asked' = Append(asked, r)
  /\ Pending' = [Pending EXCEPT ![q] = Append(@, Len(asked) + 1)]
  /\ lost' = lost

\* The oldest request leaves the queue of q: with an answer, or in silence, and
\* then it is a save or is noted as lost.
Leaves(q) ==
  /\ Pending[q] # <<>> /\ Pending' = [Pending EXCEPT ![q] = Tail(@)]
  /\ asked' = asked /\ log' = log
Replies(q, a) ==
  /\ Leaves(q) /\ lost' = lost
  /\ a.id = Head(Pending[q]) /\ callbacks' = Append(callbacks, a)
Drops(q) ==
  /\ Leaves(q) /\ callbacks' = callbacks
  /\ lost' = lost \cup {Head(Pending[q])} \/ (q = "storage" /\ lost' = lost)

\* The oldest answer runs, or none.
Runs ==
  /\ callbacks # <<>> /\ callbacks' = Tail(callbacks)
  /\ log' = Append(log, Head(callbacks).id)
Idle == callbacks' = callbacks /\ log' = log

Rests == asked' = asked /\ Pending' = Pending /\ lost' = lost

Classified ==
  \/ \E q \in Requester : Asks(q) /\ (Runs \/ Idle)
  \/ \E q \in Requester : (\E a \in Answer : Replies(q, a)) \/ Drops(q)
  \/ Rests /\ (Runs \/ Idle)

LEMMA PendingShape ==
  ASSUME Typed
  PROVE  /\ Pending \in [Requester -> Seq(Nat)]
         /\ Pending["storage"] = operationQueue
         /\ \A g \in Group : Pending[g] = jobs[g]
  <1>1. \A g \in Group : jobs[g] \in Seq(Nat)
    <2>1. MaxRequests \in Nat /\ 1 .. MaxRequests \subseteq Nat
      BY LimitAssumption
    <2> QED BY <2>1 DEF Typed
  <1>2. operationQueue \in Seq(Nat)
    BY DEF Typed
  <1> QED BY <1>1, <1>2, RequesterShape DEF Pending

LEMMA PendingStorage ==
  ASSUME Typed, jobs' = jobs, NEW s, operationQueue' = s
  PROVE  Pending' = [Pending EXCEPT !["storage"] = s]
  BY RequesterShape DEF Pending

LEMMA PendingJobs ==
  ASSUME Typed, operationQueue' = operationQueue, NEW g \in Group, NEW s,
         jobs' = [jobs EXCEPT ![g] = s]
  PROVE  Pending' = [Pending EXCEPT ![g] = s]
  <1>1. \A q \in Requester : q # "storage" => q \in Group
    BY RequesterShape
  <1>2. \A q \in Group : jobs'[q] = IF q = g THEN s ELSE jobs[q]
    BY DEF Typed
  <1> QED BY <1>1, <1>2, RequesterShape DEF Pending

-----------------------------------------------------------------------------
(* The order of the queues                                                  *)

\* Whatever is asked, nothing has left a queue for it.
LEMMA AsksOrder ==
  ASSUME Typed, Order, NEW q \in Requester, Asks(q)
  PROVE  Order' /\ (\A p \in Requester : Done(p)' = Done(p)) /\ Len(asked') = Len(asked) + 1
         /\ Len(asked) \in Nat /\ (\A m \in 1 .. Len(asked) : asked'[m] = asked[m])
  <1>1. PICK r \in Ticket : r.to = q /\ asked' = Append(asked, r)
    BY DEF Asks
  <1>2. asked \in Seq(Ticket)
    BY DEF Typed
  <1>3. Pending' = [Pending EXCEPT ![q] = Append(@, Len(asked) + 1)]
    BY DEF Asks
  <1>4. ASSUME NEW p \in Requester
        PROVE  Queued(asked', p, Pending'[p])
               /\ DoneOf(asked', p, Pending'[p]) = DoneOf(asked, p, Pending[p])
    <2>1. Queued(asked, p, Pending[p])
      BY DEF Order
    <2>2. CASE p = q
      <3>1. Pending'[p] = Append(Pending[p], Len(asked) + 1)
        BY <1>3, <2>2, PendingShape
      <3> QED BY <1>1, <1>2, <2>1, <2>2, <3>1, QueuedNew
    <2>3. CASE p # q
      <3>1. Pending'[p] = Pending[p]
        BY <1>3, <2>3, PendingShape
      <3> QED BY <1>1, <1>2, <2>1, <2>3, <3>1, QueuedElsewhere
    <2> QED BY <2>2, <2>3
  <1>5. Order' /\ \A p \in Requester : Done(p)' = Done(p)
    <2>1. \A p \in Requester : Queued(asked, p, Pending[p])'
      BY <1>4 DEF Queued
    <2>2. \A p \in Requester : DoneOf(asked, p, Pending[p])' = DoneOf(asked, p, Pending[p])
      BY <1>4 DEF DoneOf
    <2> QED BY <2>1, <2>2 DEF Order, Done
  <1> QED BY <1>1, <1>2, <1>5, AppendFacts

\* The head of a queue is its oldest request, and everything older has left it.
LEMMA LeavesOrder ==
  ASSUME Typed, Order, NEW q \in Requester, Leaves(q)
  PROVE  /\ Order' /\ Done(q)' = Done(q) \cup {Head(Pending[q])}
         /\ \A p \in Requester : p # q => Done(p)' = Done(p)
  <1>1. Len(asked) \in Nat
    BY DEF Typed
  <1>2. Pending[q] # <<>> /\ Pending' = [Pending EXCEPT ![q] = Tail(@)] /\ asked' = asked
    BY DEF Leaves
  <1>3. /\ Queued(asked, q, Tail(Pending[q]))
        /\ DoneOf(asked, q, Tail(Pending[q])) = DoneOf(asked, q, Pending[q]) \cup {Head(Pending[q])}
    BY <1>1, <1>2, QueuedTail DEF Order
  <1>4. /\ Pending'[q] = Tail(Pending[q])
        /\ \A p \in Requester : p # q => Pending'[p] = Pending[p]
    BY <1>2, PendingShape
  <1>5. Order'
    <2>1. ASSUME NEW p \in Requester PROVE Queued(asked', p, Pending'[p])
      BY <1>2, <1>3, <1>4 DEF Order
    <2>2. \A p \in Requester : Queued(asked, p, Pending[p])'
      BY <2>1 DEF Queued
    <2> QED BY <2>2 DEF Order
  <1>6. ASSUME NEW p \in Requester
        PROVE  DoneOf(asked, p, Pending[p])' = DoneOf(asked', p, Pending'[p])
    BY DEF DoneOf
  <1> QED BY <1>2, <1>3, <1>4, <1>5, <1>6 DEF Done

LEMMA HeadOf ==
  ASSUME Typed, Order, NEW q \in Requester, Pending[q] # <<>>
  PROVE  /\ Head(Pending[q]) \in 1 .. Len(asked) /\ asked[Head(Pending[q])].to = q
         /\ Done(q) = {m \in 1 .. (Head(Pending[q]) - 1) : asked[m].to = q}
  <1>1. Len(asked) \in Nat
    BY DEF Typed
  <1>2. Queued(asked, q, Pending[q])
    BY DEF Order
  <1>3. Oldest(asked, q, Pending[q])
    BY <1>1, <1>2, QueuedTail
  <1> QED BY <1>3 DEF Done, Oldest

LEMMA RestsOrder ==
  ASSUME Order, asked' = asked, Pending' = Pending
  PROVE  Order' /\ \A p \in Requester : Done(p)' = Done(p)
  BY DEF Order, Queued, Done, DoneOf

LEMMA ClassifiedOrder ==
  ASSUME Typed, Order, Classified
  PROVE  Order'
  BY AsksOrder, LeavesOrder, RestsOrder DEF Classified, Replies, Drops, Rests

-----------------------------------------------------------------------------
(* No request is forgotten                                                  *)

LEMMA RangeAppend ==
  ASSUME NEW S, NEW s \in Seq(S), NEW x \in S
  PROVE  Range(Append(s, x)) = Range(s) \cup {x}
  <1>1. DOMAIN s = 1 .. Len(s) /\ DOMAIN Append(s, x) = 1 .. (Len(s) + 1) /\ Len(s) \in Nat
    OBVIOUS
  <1>2. /\ \A i \in 1 .. Len(s) : Append(s, x)[i] = s[i]
        /\ Append(s, x)[Len(s) + 1] = x
    OBVIOUS
  <1> QED BY <1>1, <1>2 DEF Range

\* Running the oldest answer moves its request from the answers to the log.
LEMMA RunsIds ==
  ASSUME Typed, Runs
  PROVE  Ids' \cup Range(log') = Ids \cup Range(log) /\ Range(log) \subseteq Range(log')
         /\ Ids' \subseteq Ids
  <1>1. callbacks \in Seq(Answer) /\ log \in Seq(Nat) /\ callbacks # <<>>
    BY DEF Typed, Runs
  <1>2. /\ callbacks' \in Seq(Answer) /\ Len(callbacks') = Len(callbacks) - 1
        /\ Len(callbacks) \in Nat \ {0}
        /\ \A i \in 1 .. Len(callbacks') : callbacks'[i] = callbacks[i + 1]
        /\ Head(callbacks) = callbacks[1] /\ Head(callbacks) \in Answer
    BY <1>1, TailFacts DEF Runs
  <1>3. Head(callbacks).id \in Nat
    BY <1>2 DEF Answer
  <1>4. Range(log') = Range(log) \cup {callbacks[1].id}
    BY <1>1, <1>2, <1>3, RangeAppend DEF Runs
  <1>5. Ids' \subseteq Ids
    BY <1>2 DEF Ids
  <1>6. callbacks[1].id \in Ids
    BY <1>2 DEF Ids
  <1>7. \A i \in 1 .. Len(callbacks) : i = 1 \/ callbacks[i].id \in Ids'
    <2> SUFFICES ASSUME NEW i \in 1 .. Len(callbacks), i # 1 PROVE callbacks[i].id \in Ids'
      OBVIOUS
    <2>1. i - 1 \in 1 .. Len(callbacks') /\ callbacks'[i - 1] = callbacks[i]
      BY <1>2
    <2> QED BY <2>1 DEF Ids
  <1>8. Ids \subseteq Ids' \cup {callbacks[1].id}
    BY <1>7 DEF Ids
  <1> QED BY <1>4, <1>5, <1>6, <1>8

LEMMA RepliesIds ==
  ASSUME Typed, NEW a \in Answer, callbacks' = Append(callbacks, a)
  PROVE  Ids' = Ids \cup {a.id}
  <1>1. /\ Len(callbacks') = Len(callbacks) + 1 /\ Len(callbacks) \in Nat
        /\ \A i \in 1 .. Len(callbacks) : callbacks'[i] = callbacks[i]
        /\ callbacks'[Len(callbacks) + 1] = a
    BY AppendFacts DEF Typed
  <1>2. \A i \in 1 .. Len(callbacks') : i \in 1 .. Len(callbacks) \/ i = Len(callbacks) + 1
    BY <1>1
  <1> QED BY <1>1, <1>2 DEF Ids

LEMMA ClassifiedKept ==
  ASSUME Typed, Order, Known, Kept, Classified
  PROVE  Known' /\ Kept'
  <1>1. ASSUME NEW q \in Requester, Asks(q), Runs \/ Idle PROVE Known' /\ Kept'
    <2>1. /\ \A p \in Requester : Done(p)' = Done(p)
          /\ Len(asked') = Len(asked) + 1 /\ Len(asked) \in Nat
      BY <1>1, AsksOrder
    <2>2. lost' \cup Range(log') \cup Ids' = lost \cup Range(log) \cup Ids
      <3>1. CASE Runs
        BY <1>1, <3>1, RunsIds DEF Asks
      <3>2. CASE Idle
        BY <1>1, <3>2 DEF Asks, Idle, Ids
      <3> QED BY <1>1, <3>1, <3>2
    <2>3. 1 .. Len(asked) \subseteq 1 .. Len(asked')
      BY <2>1
    <2> QED BY <2>1, <2>2, <2>3, RequesterShape DEF Known, Kept
  <1>2. ASSUME NEW q \in Requester, NEW a \in Answer, Replies(q, a) PROVE Known' /\ Kept'
    <2>1. /\ Done(q)' = Done(q) \cup {a.id} /\ \A p \in Requester : p # q => Done(p)' = Done(p)
      BY <1>2, LeavesOrder DEF Replies
    <2>2. a.id \in 1 .. Len(asked)
      BY <1>2, HeadOf DEF Replies, Leaves
    <2>3. Ids' = Ids \cup {a.id}
      BY <1>2, RepliesIds DEF Replies
    <2>4. lost' = lost /\ log' = log /\ asked' = asked
      BY <1>2 DEF Replies, Leaves
    <2> QED BY <2>1, <2>2, <2>3, <2>4, RequesterShape DEF Known, Kept
  <1>3. ASSUME NEW q \in Requester, Drops(q) PROVE Known' /\ Kept'
    <2>1. /\ Done(q)' = Done(q) \cup {Head(Pending[q])}
          /\ \A p \in Requester : p # q => Done(p)' = Done(p)
      BY <1>3, LeavesOrder DEF Drops
    <2>2. Head(Pending[q]) \in 1 .. Len(asked)
      BY <1>3, HeadOf DEF Drops, Leaves
    <2>3. Ids' = Ids /\ log' = log /\ asked' = asked
      BY <1>3 DEF Drops, Leaves, Ids
    <2>4. lost' = lost \cup {Head(Pending[q])} \/ (q = "storage" /\ lost' = lost)
      BY <1>3 DEF Drops
    <2> QED BY <2>1, <2>2, <2>3, <2>4, RequesterShape DEF Known, Kept
  <1>4. ASSUME Rests, Runs \/ Idle PROVE Known' /\ Kept'
    <2>1. \A p \in Requester : Done(p)' = Done(p)
      BY <1>4, RestsOrder DEF Rests
    <2>2. lost' \cup Range(log') \cup Ids' = lost \cup Range(log) \cup Ids
      <3>1. CASE Runs
        BY <1>4, <3>1, RunsIds DEF Rests
      <3>2. CASE Idle
        BY <1>4, <3>2 DEF Rests, Idle, Ids
      <3> QED BY <1>4, <3>1, <3>2
    <2>3. asked' = asked
      BY <1>4 DEF Rests
    <2> QED BY <2>1, <2>2, <2>3, RequesterShape DEF Known, Kept
  <1> QED BY <1>1, <1>2, <1>3, <1>4 DEF Classified

\* What was drained stays answered or lost.
LEMMA ClassifiedDrained ==
  ASSUME Typed, Order, Drained, Classified, drained' = drained
  PROVE  Drained'
  <1>1. lost \cup Range(log) \subseteq lost' \cup Range(log')
    BY RunsIds DEF Classified, Asks, Replies, Drops, Leaves, Rests, Idle
  <1>2. /\ Len(asked) <= Len(asked') /\ Len(asked) \in Nat /\ Len(asked') \in Nat
        /\ \A m \in 1 .. Len(asked) : asked'[m] = asked[m]
    <2>1. Len(asked) \in Nat
      BY DEF Typed
    <2> QED BY <2>1, AsksOrder DEF Classified, Replies, Drops, Leaves, Rests
  <1>3. \A n \in 1 .. drained : n \in 1 .. Len(asked)
    BY <1>2 DEF Drained, Typed
  <1>4. drained' \in Nat
    BY DEF Typed
  <1> QED BY <1>1, <1>2, <1>3, <1>4 DEF Drained

-----------------------------------------------------------------------------
(* What a job may do                                                        *)

\* The outcomes of running job h of group g, as the rest needs them.
Sound(g, h, o) ==
  /\ o.kv \in [Name -> 0 .. Foreign] /\ o.session \in BOOLEAN
  /\ o.rank \in [score : BOOLEAN, details : BOOLEAN] /\ o.value \in Nat /\ o.error \in Error
  /\ (g = "mongodb" /\ asked[h].kind = "close") => o.session = FALSE
  /\ (g # "mongodb" \/ asked[h].kind # "close") => o.session = session
  /\ g = "mongodb" => /\ o.error # "panic"
                      /\ o.error = "nosession" => session = FALSE
                      /\ session = FALSE => o.error = "nosession"
  /\ kv[Unnamed] # 0 => o.kv[Unnamed] # 0
  /\ (g = "kvdb" /\ asked[h].kind = "getorput" /\ o.error = "none" /\ o.value = 0)
       => (oldVal = 0 /\ o.kv[Unnamed] # 0)

LEMMA NumberShape ==
  /\ MaxRequests \in Nat /\ MaxFaults \in Nat /\ Foreign \in Nat /\ NotRead \in Nat
  /\ Foreign # 0 /\ NotRead # 0 /\ Foreign < NotRead
  /\ 1 .. MaxRequests \subseteq 0 .. Foreign /\ 1 .. MaxRequests \subseteq Nat
  BY LimitAssumption DEF Foreign, NotRead

\* What leaves the key-value database and the sessions alone is sound.
LEMMA SoundQuiet ==
  ASSUME kv \in [Name -> 0 .. Foreign], session \in BOOLEAN, NEW g, NEW h,
         NEW x \in [score : BOOLEAN, details : BOOLEAN], NEW v \in Nat, NEW e \in Error,
         g # "mongodb", g # "kvdb", NEW o, o = Outcome(kv, session, x, v, e)
  PROVE  Sound(g, h, o)
  <1>1. /\ o.kv = kv /\ o.session = session /\ o.rank = x /\ o.value = v /\ o.error = e
    BY DEF Outcome
  <1> QED BY <1>1 DEF Sound

LEMMA CellShape ==
  /\ Unnamed \in Name /\ Cell(Unnamed) = Unnamed
  /\ \A n \in Name : Cell(n) \in Name
  BY Zenon DEF Cell, Name, Unnamed

LEMMA KvdbSound ==
  ASSUME Typed, NEW h \in 1 .. MaxRequests,
         asked[h].kind \in {"get", "put", "getorput", "range"}, asked[h].on \in Name,
         asked[h].kind = "getorput" => asked[h].on = Unnamed,
         NEW o \in KvdbOutcomes(h)
  PROVE  Sound("kvdb", h, o)
  <1> DEFINE r == asked[h]
             cell == Cell(r.on)
             written == [kv EXCEPT ![cell] = h]
  <1>1. cell \in Name /\ (r.kind = "getorput" => cell = Unnamed) /\ Unnamed \in Name
    BY CellShape
  <1>2. /\ kv \in [Name -> 0 .. Foreign] /\ session \in BOOLEAN /\ oldVal \in Nat
        /\ rank \in [score : BOOLEAN, details : BOOLEAN]
    BY NumberShape DEF Typed
  <1>3. written \in [Name -> 0 .. Foreign] /\ h # 0 /\ written[cell] = h
        /\ (kv[Unnamed] # 0 => written[Unnamed] # 0)
    <2>1. h \in 0 .. Foreign /\ h # 0
      BY NumberShape
    <2> QED BY <1>1, <1>2, <2>1
  <1>4. \A n \in Name : kv[n] \in Nat
    <2>1. 0 .. Foreign \subseteq Nat
      BY NumberShape
    <2> QED BY <1>2, <2>1
  <1> DEFINE Put(v) == {Outcome(written, session, rank, v, "none"),
                        Outcome(written, session, rank, 0, "fault"), Fails}
  <1>5. KvPut(cell, h, 0) = Put(0)
    BY DEF KvPut
  <1> HIDE DEF written, cell
  <1>6. ASSUME NEW x \in {kv, written}, NEW v \in Nat, NEW e \in {"none", "fault", "unsupported"},
               o = Outcome(x, session, rank, v, e),
               (r.kind = "getorput" /\ e = "none" /\ v = 0) => (oldVal = 0 /\ x[Unnamed] # 0)
        PROVE  Sound("kvdb", h, o)
    <2>1. /\ o.kv = x /\ o.session = session /\ o.rank = rank /\ o.value = v /\ o.error = e
      BY <1>6 DEF Outcome
    <2>2. x \in [Name -> 0 .. Foreign] /\ (kv[Unnamed] # 0 => x[Unnamed] # 0)
      BY <1>2, <1>3
    <2> QED BY <1>2, <1>6, <2>1, <2>2 DEF Sound, Error
  <1>7. CASE r.kind = "get"
    <2>1. o \in {Answers(kv[cell]), Fails}
      BY <1>7 DEF KvdbOutcomes, KvGet, cell
    <2> QED BY <1>1, <1>4, <1>6, <1>7, <2>1 DEF Answers, Fails, Refuses
  <1>8. CASE r.kind = "put"
    <2>1. o \in Put(0)
      BY <1>5, <1>8 DEF KvdbOutcomes, cell
    <2> QED BY <1>6, <1>8, <2>1 DEF Fails, Refuses
  <1>9. CASE r.kind = "getorput"
    <2>1. o \in KvGetOrPut(cell, h)
      BY <1>9 DEF KvdbOutcomes, cell
    <2>2. CASE oldVal = 0
      <3>1. o \in Put(0)
        BY <1>5, <2>1, <2>2 DEF KvGetOrPut
      <3>2. written[Unnamed] # 0
        BY <1>1, <1>3, <1>9
      <3> QED BY <1>6, <2>2, <3>1, <3>2 DEF Fails, Refuses
    <2>3. CASE oldVal # 0
      <3>1. o = Answers(oldVal)
        BY <2>1, <2>3 DEF KvGetOrPut
      <3> QED BY <1>2, <1>6, <2>3, <3>1 DEF Answers
    <2> QED BY <2>2, <2>3
  <1>10. CASE r.kind = "range"
    <2>1. o \in {Answers(kv[cell]), Answers(0), Fails, Refuses("unsupported")}
      BY <1>10 DEF KvdbOutcomes, KvGetRange, cell
    <2> QED BY <1>1, <1>4, <1>6, <1>10, <2>1 DEF Answers, Fails, Refuses
  <1> QED BY <1>7, <1>8, <1>9, <1>10

LEMMA OtherSound ==
  ASSUME Typed, NEW g \in {"rank", "mongodb", "redis"}, NEW h, NEW o,
         \/ g = "rank" /\ o \in RankOutcomes(h)
         \/ g = "mongodb" /\ o \in MongoOutcomes(h)
         \/ g = "redis" /\ o \in RedisOutcomes(h)
  PROVE  Sound(g, h, o)
  <1> DEFINE Ranks == [score : BOOLEAN, details : BOOLEAN]
  <1>1. kv \in [Name -> 0 .. Foreign] /\ session \in BOOLEAN /\ rank \in Ranks
    BY DEF Typed
  <1>2. ASSUME NEW x \in Ranks, NEW v \in {0, 1}, NEW e \in Error,
               o = Outcome(kv, session, x, v, e), g # "mongodb"
        PROVE  Sound(g, h, o)
    BY <1>1, <1>2, SoundQuiet
  <1>3. CASE g = "rank"
    <2>2. [rank EXCEPT !.score = TRUE] \in Ranks
          /\ [[rank EXCEPT !.score = TRUE] EXCEPT !.details = TRUE] \in Ranks
      BY <1>1
    <2> HIDE DEF Ranks
    <2>3. CASE o \in RankPut
      BY <1>1, <1>2, <1>3, <2>2, <2>3 DEF RankPut, Fails, Refuses, Error
    <2>4. CASE o \in RankList
      BY <1>1, <1>2, <1>3, <2>4 DEF RankList, Fails, Refuses, Answers, Error
    <2> QED BY <1>3, <2>3, <2>4 DEF RankOutcomes
  <1>4. CASE g = "mongodb"
    <2>1. CASE session = FALSE
      <3>1. o = Outcome(kv, session, rank, 0, "nosession")
        BY <1>4, <2>1 DEF MongoOutcomes, Refuses
      <3>2. o.kv = kv /\ o.session = session /\ o.rank = rank /\ o.value = 0 /\ o.error = "nosession"
        BY <3>1 DEF Outcome
      <3> QED BY <1>1, <1>4, <2>1, <3>2 DEF Sound, Error
    <2>2. CASE session = TRUE /\ asked[h].kind = "close"
      <3>1. o = Outcome(kv, FALSE, rank, 0, "none")
        BY <1>4, <2>2 DEF MongoOutcomes
      <3>2. o.kv = kv /\ o.session = FALSE /\ o.rank = rank /\ o.value = 0 /\ o.error = "none"
        BY <3>1 DEF Outcome
      <3>3. o.error \in Error /\ o.error # "panic" /\ o.error # "nosession" /\ o.value \in Nat
        BY <3>2 DEF Error
      <3>4. session # FALSE /\ o.session \in BOOLEAN
        BY <2>2, <3>2
      <3> QED BY <1>1, <1>4, <2>2, <3>2, <3>3, <3>4 DEF Sound
    <2>3. CASE session = TRUE /\ asked[h].kind # "close"
      <3>1. o \in {Outcome(kv, session, rank, 0, "none"), Outcome(kv, session, rank, 0, "fault")}
        BY <1>4, <2>3 DEF MongoOutcomes, MongoDo, Answers, Fails, Refuses
      <3>2. /\ o.kv = kv /\ o.session = session /\ o.rank = rank /\ o.value = 0
            /\ o.error \in {"none", "fault"}
        BY <3>1 DEF Outcome
      <3> QED BY <1>1, <1>4, <2>3, <3>2 DEF Sound, Error
    <2> QED BY <1>1, <2>1, <2>2, <2>3
  <1>5. CASE g = "redis"
    <2>1. o \in {Outcome(kv, session, rank, 0, "none"), Outcome(kv, session, rank, 0, "fault")}
      BY <1>5 DEF RedisOutcomes, Answers, Fails, Refuses
    <2> QED BY <1>1, <1>2, <1>5, <2>1 DEF Error
  <1> QED BY <1>3, <1>4, <1>5

LEMMA OutcomesSound ==
  ASSUME Typed, Order, NEW g \in Group, jobs[g] # <<>>, NEW o \in Outcomes(g, Head(jobs[g]))
  PROVE  Sound(g, Head(jobs[g]), o)
  <1> DEFINE h == Head(jobs[g])
  <1>1. h \in 1 .. MaxRequests
    <2>1. jobs[g] \in Seq(1 .. MaxRequests)
      BY DEF Typed
    <2> QED BY <2>1, TailFacts
  <1>2. asked[h] \in Ticket /\ asked[h].to = g
    <2>1. g \in Requester /\ Pending[g] = jobs[g]
      BY PendingShape, RequesterShape
    <2>2. h \in 1 .. Len(asked) /\ asked[h].to = g
      BY <2>1, HeadOf
    <2> QED BY <2>2 DEF Typed
  <1> HIDE DEF h
  <1>3. CASE g = "kvdb"
    <2>1. o \in KvdbOutcomes(h)
      BY <1>3 DEF Outcomes, h
    <2>2. Sane(asked[h].to, asked[h].kind, asked[h].on)
      BY <1>2, TicketShape
    <2>3. asked[h].kind = "getorput" => asked[h].on = Unnamed
      BY <2>2 DEF Sane
    <2>4. asked[h].kind \in {"get", "put", "getorput", "range"} /\ asked[h].on \in Name
      BY <1>2, <1>3, <2>2 DEF Sane
    <2> QED BY <1>1, <1>3, <2>1, <2>3, <2>4, KvdbSound DEF h
  <1>4. CASE g = "rank"
    BY <1>4, OtherSound DEF Outcomes, h
  <1>5. CASE g = "mongodb"
    BY <1>5, OtherSound DEF Outcomes, h
  <1>6. CASE g = "redis"
    BY <1>6, OtherSound DEF Outcomes, h
  <1> QED BY <1>3, <1>4, <1>5, <1>6 DEF Group, h

-----------------------------------------------------------------------------
(* Making a request                                                         *)

\* A request is made by code of the main routine, and nothing else happens.
Asking ==
  /\ \E q \in Requester : Asks(q)
  /\ asked' \in Seq(Ticket) /\ Len(asked') = Len(asked) + 1
  /\ operationQueue' \in Seq(Nat) /\ jobs' \in [Group -> Seq(1 .. MaxRequests)]
  /\ operationQueue' = operationQueue
       \/ \E n \in Nat : operationQueue' = Append(operationQueue, n)
  /\ worker' \in [Group -> {"none", "open", "closed"}]
  /\ \A g \in Group : (worker'[g] = worker[g] /\ jobs'[g] = jobs[g]) \/ worker'[g] = "open"
  /\ UNCHANGED <<engine, kvBackend, kv, oldVal, session, rank, lost, storageEngine,
                 backend, stored, closed, storageRoutineTerminated, cut>>

LEMMA RequestMakes ==
  ASSUME Typed, NEW q, NEW k, NEW e, <<q, k, e>> \in Askable, Request(q, k, e)
  PROVE  /\ \E r \in Ticket : r.to = q /\ asked' = Append(asked, r)
         /\ asked' \in Seq(Ticket) /\ Len(asked') = Len(asked) + 1 /\ Len(asked) \in Nat
  <1> DEFINE r == [to |-> q, kind |-> k, on |-> e]
  <1>1. r \in Ticket /\ r.to = q
    <2>1. <<q, k, e>>[1] = q /\ <<q, k, e>>[2] = k /\ <<q, k, e>>[3] = e
      OBVIOUS
    <2> QED BY <2>1 DEF Ticket
  <1>2. asked' = Append(asked, r) /\ asked \in Seq(Ticket)
    BY DEF Request, Typed
  <1> HIDE DEF r
  <1> QED BY <1>1, <1>2, AppendFacts

LEMMA PushAsks ==
  ASSUME Typed, NEW k, NEW e, <<"storage", k, e>> \in Askable, Push(k, e), UNCHANGED jobVars
  PROVE  Asking /\ asked' = Append(asked, [to |-> "storage", kind |-> k, on |-> e])
         /\ UNCHANGED jobs /\ UNCHANGED worker
  <1>1. Request("storage", k, e) /\ operationQueue' = Append(operationQueue, Len(asked) + 1)
    BY DEF Push, NewId
  <1>2. /\ \E r \in Ticket : r.to = "storage" /\ asked' = Append(asked, r)
        /\ asked' \in Seq(Ticket) /\ Len(asked') = Len(asked) + 1 /\ Len(asked) \in Nat
    BY <1>1, RequestMakes
  <1>3. jobs' = jobs /\ worker' = worker /\ lost' = lost
    BY DEF jobVars
  <1>4. Pending' = [Pending EXCEPT !["storage"] = Append(@, Len(asked) + 1)]
    BY <1>1, <1>3, PendingStorage, PendingShape
  <1>5. Asks("storage")
    BY <1>2, <1>3, <1>4 DEF Asks
  <1>6. /\ operationQueue' \in Seq(Nat)
        /\ \E n \in Nat : operationQueue' = Append(operationQueue, n)
    BY <1>1, <1>2 DEF Typed
  <1>7. UNCHANGED <<engine, kvBackend, kv, oldVal, session, rank, lost, storageEngine,
                    backend, stored, closed, storageRoutineTerminated, cut>>
    BY DEF jobVars, Push
  <1>8. /\ jobs' \in [Group -> Seq(1 .. MaxRequests)]
        /\ worker' \in [Group -> {"none", "open", "closed"}]
    BY <1>3 DEF Typed
  <1> QED BY <1>1, <1>2, <1>3, <1>5, <1>6, <1>7, <1>8, RequesterShape DEF Asking, Request

LEMMA AppendJobAsks ==
  ASSUME Typed, NEW g \in Group, NEW k, NEW e, <<g, k, e>> \in Askable,
         AppendAsyncJob(g, k, e), UNCHANGED storageVars, Len(asked) < MaxRequests
  PROVE  Asking /\ UNCHANGED operationQueue
  <1>1. /\ Request(g, k, e) /\ jobs' = [jobs EXCEPT ![g] = Append(@, Len(asked) + 1)]
        /\ worker' = [worker EXCEPT ![g] = "open"]
    BY DEF AppendAsyncJob, NewId
  <1>2. /\ \E r \in Ticket : r.to = g /\ asked' = Append(asked, r)
        /\ asked' \in Seq(Ticket) /\ Len(asked') = Len(asked) + 1 /\ Len(asked) \in Nat
    BY <1>1, RequestMakes
  <1>3. operationQueue' = operationQueue /\ lost' = lost
    BY DEF storageVars, AppendAsyncJob
  <1>4. Pending' = [Pending EXCEPT ![g] = Append(@, Len(asked) + 1)]
    BY <1>1, <1>3, PendingJobs, PendingShape
  <1>5. Asks(g)
    BY <1>2, <1>3, <1>4 DEF Asks
  <1>6. /\ operationQueue' \in Seq(Nat) /\ jobs \in [Group -> Seq(1 .. MaxRequests)]
        /\ worker \in [Group -> {"none", "open", "closed"}]
    BY <1>3 DEF Typed
  <1>7. UNCHANGED <<engine, kvBackend, kv, oldVal, session, rank, lost, storageEngine,
                    backend, stored, closed, storageRoutineTerminated, cut>>
    BY DEF storageVars, AppendAsyncJob
  <1>8. Len(asked) + 1 \in 1 .. MaxRequests
    BY <1>2, LimitAssumption
  <1>9. jobs' \in [Group -> Seq(1 .. MaxRequests)]
    BY <1>1, <1>6, <1>8
  <1>10. /\ worker' \in [Group -> {"none", "open", "closed"}]
         /\ \A p \in Group : (worker'[p] = worker[p] /\ jobs'[p] = jobs[p]) \/ worker'[p] = "open"
    BY <1>1, <1>6
  <1> QED BY <1>2, <1>3, <1>5, <1>6, <1>7, <1>9, <1>10, RequesterShape DEF Asking

LEMMA Triple ==
  ASSUME NEW S, NEW T, NEW U, NEW r \in S \X T \X U
  PROVE  <<r[1], r[2], r[3]>> = r
  OBVIOUS

LEMMA AskedIsAskable ==
  ASSUME Typed, NEW r \in requests
  PROVE  <<r[1], r[2], r[3]>> \in Askable /\ r \in Askable
  <1>1. r \in Askable
    BY DEF Typed
  <1>2. <<r[1], r[2], r[3]>> = r
    BY <1>1, Triple, Zenon DEF Askable
  <1> QED BY <1>1, <1>2

LEMMA AskAsks ==
  ASSUME Typed, Len(asked) < MaxRequests, AskStorage \/ AskJob
  PROVE  Asking
  <1>1. CASE AskStorage
    <2>1. PICK r \in requests : r[1] = "storage" /\ Push(r[2], r[3]) /\ UNCHANGED jobVars
      BY <1>1 DEF AskStorage
    <2>2. <<"storage", r[2], r[3]>> \in Askable
      BY <2>1, AskedIsAskable
    <2> QED BY <2>1, <2>2, PushAsks
  <1>2. CASE AskJob
    <2>1. PICK r \in requests :
            r[1] # "storage" /\ AppendAsyncJob(r[1], r[2], r[3]) /\ UNCHANGED storageVars
      BY <1>2 DEF AskJob
    <2>2. <<r[1], r[2], r[3]>> \in Askable /\ r[1] \in Group
      BY <2>1, AskedIsAskable, AskableShape DEF Sane
    <2> QED BY <2>1, <2>2, AppendJobAsks
  <1> QED BY <1>1, <1>2

-----------------------------------------------------------------------------
(* Serving a request                                                        *)

LEMMA AnswerShape ==
  ASSUME NEW n \in Nat, NEW e \in Error, NEW v \in Nat, NEW s \in SUBSET Entity
  PROVE  [id |-> n, error |-> e, value |-> v, ids |-> s] \in Answer
  BY DEF Answer

LEMMA StorageHead ==
  ASSUME Typed, Order, operationQueue # <<>>
  PROVE  /\ id \in 1 .. Len(asked) /\ id \in Nat /\ asked[id].to = "storage"
         /\ asked[id] \in Ticket /\ Sane(asked[id].to, asked[id].kind, asked[id].on)
         /\ Done("storage") = {m \in 1 .. (id - 1) : asked[m].to = "storage"}
         /\ Pending["storage"] = operationQueue
  <1>1. Pending["storage"] = operationQueue /\ "storage" \in Requester
    BY PendingShape, RequesterShape
  <1>2. /\ Head(Pending["storage"]) \in 1 .. Len(asked)
        /\ asked[Head(Pending["storage"])].to = "storage"
        /\ Done("storage") = {m \in 1 .. (Head(Pending["storage"]) - 1) : asked[m].to = "storage"}
    BY <1>1, HeadOf
  <1>3. asked \in Seq(Ticket)
    BY DEF Typed
  <1>4. asked[id] \in Ticket /\ id \in Nat
    BY <1>1, <1>2, <1>3 DEF id
  <1> QED BY <1>1, <1>2, <1>4, TicketShape DEF id

LEMMA StorageLeaves ==
  ASSUME Typed, operationQueue # <<>>, Served, asked' = asked, jobs' = jobs, log' = log
  PROVE  Leaves("storage") /\ operationQueue' \in Seq(Nat)
  <1>1. operationQueue \in Seq(Nat) /\ operationQueue' = Tail(operationQueue)
    BY DEF Typed, Served
  <1>2. Pending' = [Pending EXCEPT !["storage"] = Tail(operationQueue)]
    BY <1>1, PendingStorage
  <1>3. Pending["storage"] = operationQueue
    BY PendingShape
  <1> QED BY <1>1, <1>2, <1>3, TailFacts DEF Leaves

LEMMA JobHead ==
  ASSUME Typed, Order, NEW g \in Group, jobs[g] # <<>>
  PROVE  /\ Head(jobs[g]) \in 1 .. Len(asked) /\ Head(jobs[g]) \in Nat
         /\ asked[Head(jobs[g])].to = g /\ asked[Head(jobs[g])] \in Ticket
         /\ Sane(asked[Head(jobs[g])].to, asked[Head(jobs[g])].kind, asked[Head(jobs[g])].on)
         /\ Done(g) = {m \in 1 .. (Head(jobs[g]) - 1) : asked[m].to = g}
         /\ Pending[g] = jobs[g]
  <1>1. Pending[g] = jobs[g] /\ g \in Requester
    BY PendingShape, RequesterShape
  <1>2. /\ Head(Pending[g]) \in 1 .. Len(asked) /\ asked[Head(Pending[g])].to = g
        /\ Done(g) = {m \in 1 .. (Head(Pending[g]) - 1) : asked[m].to = g}
    BY <1>1, HeadOf
  <1>3. asked \in Seq(Ticket)
    BY DEF Typed
  <1>4. asked[Head(jobs[g])] \in Ticket /\ Head(jobs[g]) \in Nat
    BY <1>1, <1>2, <1>3
  <1> QED BY <1>1, <1>2, <1>4, TicketShape

LEMMA JobLeaves ==
  ASSUME Typed, NEW g \in Group, jobs[g] # <<>>, Finish(g), asked' = asked,
         operationQueue' = operationQueue, log' = log
  PROVE  Leaves(g) /\ jobs' \in [Group -> Seq(1 .. MaxRequests)]
  <1>1. /\ jobs \in [Group -> Seq(1 .. MaxRequests)] /\ jobs' = [jobs EXCEPT ![g] = Tail(jobs[g])]
    BY DEF Typed, Finish
  <1>2. Pending' = [Pending EXCEPT ![g] = Tail(jobs[g])]
    BY <1>1, PendingJobs
  <1>3. Pending[g] = jobs[g]
    BY PendingShape
  <1>4. Tail(jobs[g]) \in Seq(1 .. MaxRequests)
    BY <1>1, TailFacts
  <1> QED BY <1>1, <1>2, <1>3, <1>4 DEF Leaves

LEMMA ClosesOn ==
  ASSUME NEW errors, CloseOn(errors)
  PROVE  storageEngine' \in BOOLEAN
  BY Zenon DEF CloseOn

-----------------------------------------------------------------------------
(* What an answer has seen stays right                                      *)

LEMMA LastSaveIs ==
  ASSUME NEW e, NEW n \in Nat, NEW v \in Nat,
         v = 0 \/ (v \in 1 .. (n - 1) /\ IsSaveOf(asked[v], e)),
         \A m \in 1 .. (n - 1) : IsSaveOf(asked[m], e) => m <= v
  PROVE  LastSave(e, n) = v
  <1> DEFINE S == {0} \cup {m \in 1 .. (n - 1) : IsSaveOf(asked[m], e)}
  <1>1. v \in S /\ (\A y \in S : v >= y) /\ \A x \in S : x \in Nat
    OBVIOUS
  <1> HIDE DEF S
  <1>2. Max(S) = v
    <2>1. Max(S) \in S /\ \A y \in S : Max(S) >= y
      BY <1>1, Zenon DEF Max
    <2>2. Max(S) >= v /\ v >= Max(S) /\ Max(S) \in Nat /\ v \in Nat
      BY <1>1, <2>1
    <2> HIDE DEF S
    <2> QED BY <2>2
  <1> QED BY <1>2 DEF LastSave, S

\* The history only grows.
Grown ==
  /\ Len(asked) \in Nat /\ Len(asked') \in Nat /\ Len(asked) <= Len(asked')
  /\ cut \subseteq cut'
  /\ \A m \in 1 .. Len(asked) : asked'[m] = asked[m]

LEMMA ClassifiedGrown ==
  ASSUME Typed, Order, Classified, cut \subseteq cut'
  PROVE  Grown
  <1>1. Len(asked) \in Nat
    BY DEF Typed
  <1> QED BY <1>1, AsksOrder DEF Classified, Replies, Drops, Leaves, Rests, Grown

LEMMA RightStays ==
  ASSUME Grown, NEW a, a.id \in 1 .. Len(asked), Right(a, cut')
  PROVE  Right(a, cut)'
  <1>1. asked'[a.id] = asked[a.id] /\ \A m \in 1 .. (a.id - 1) : asked'[m] = asked[m]
    BY DEF Grown
  <1>2. \A e : LastSave(e, a.id)' = LastSave(e, a.id)
    <2> SUFFICES ASSUME NEW e PROVE LastSave(e, a.id)' = LastSave(e, a.id)
      OBVIOUS
    <2>1. {m \in 1 .. (a.id - 1) : IsSaveOf(asked'[m], e)}
            = {m \in 1 .. (a.id - 1) : IsSaveOf(asked[m], e)}
      BY <1>1
    <2> QED BY <2>1 DEF LastSave, IsSaveOf
  <1>3. (\E m \in 1 .. (a.id - 1) : asked'[m].to = "mongodb" /\ asked'[m].kind = "close")
          = (\E m \in 1 .. (a.id - 1) : asked[m].to = "mongodb" /\ asked[m].kind = "close")
    BY <1>1
  <1> QED BY <1>1, <1>2, <1>3 DEF Right

LEMMA SeenAsItWas ==
  ASSUME Seen, Known, Grown
  PROVE  \A j \in 1 .. Len(callbacks) :
           callbacks[j].id \in 1 .. Len(asked) /\ Right(callbacks[j], cut')
  <1> SUFFICES ASSUME NEW j \in 1 .. Len(callbacks)
               PROVE  callbacks[j].id \in 1 .. Len(asked) /\ Right(callbacks[j], cut')
    OBVIOUS
  <1>1. callbacks[j].id \in 1 .. Len(asked) /\ Right(callbacks[j], cut)
    BY DEF Seen, Known, Ids
  <1>2. cut \subseteq cut'
    BY DEF Grown
  <1> QED BY <1>1, <1>2 DEF Right

LEMMA SeenAll ==
  ASSUME Grown, \A i \in 1 .. Len(callbacks') :
                  \E a : a = callbacks'[i] /\ a.id \in 1 .. Len(asked) /\ Right(a, cut')
  PROVE  Seen'
  <1> SUFFICES ASSUME NEW i \in 1 .. Len(callbacks') PROVE Right(callbacks[i], cut)'
    BY DEF Seen
  <1>1. PICK a : a = callbacks'[i] /\ a.id \in 1 .. Len(asked) /\ Right(a, cut')
    OBVIOUS
  <1>2. Right(a, cut)'
    BY <1>1, RightStays
  <1> QED BY <1>1, <1>2 DEF Right

LEMMA SeenStays ==
  ASSUME Typed, Seen, Known, Grown,
         callbacks' = callbacks \/ (callbacks # <<>> /\ callbacks' = Tail(callbacks))
  PROVE  Seen'
  <1>1. callbacks \in Seq(Answer)
    BY DEF Typed
  <1>2. \A i \in 1 .. Len(callbacks') : \E j \in 1 .. Len(callbacks) : callbacks'[i] = callbacks[j]
    <2>1. CASE callbacks' = callbacks
      BY <2>1
    <2>2. CASE callbacks # <<>> /\ callbacks' = Tail(callbacks)
      <3>1. /\ Len(callbacks') = Len(callbacks) - 1 /\ Len(callbacks) \in Nat
            /\ \A i \in 1 .. Len(callbacks') : callbacks'[i] = callbacks[i + 1]
        BY <1>1, <2>2, TailFacts
      <3>2. \A i \in 1 .. Len(callbacks') : i + 1 \in 1 .. Len(callbacks)
        BY <3>1
      <3> QED BY <3>1, <3>2
    <2> QED BY <2>1, <2>2
  <1>3. \A j \in 1 .. Len(callbacks) : callbacks[j].id \in 1 .. Len(asked) /\ Right(callbacks[j], cut')
    BY SeenAsItWas
  <1> QED BY <1>2, <1>3, SeenAll

LEMMA SeenNew ==
  ASSUME Typed, Seen, Known, Grown, NEW a \in Answer, a.id \in 1 .. Len(asked), Right(a, cut'),
         callbacks' = Append(callbacks, a)
  PROVE  Seen'
  <1>1. /\ Len(callbacks') = Len(callbacks) + 1 /\ Len(callbacks) \in Nat
        /\ \A i \in 1 .. Len(callbacks) : callbacks'[i] = callbacks[i]
        /\ callbacks'[Len(callbacks) + 1] = a
    BY AppendFacts DEF Typed
  <1>2. \A i \in 1 .. Len(callbacks') : i \in 1 .. Len(callbacks) \/ i = Len(callbacks) + 1
    BY <1>1
  <1>3. \A j \in 1 .. Len(callbacks) : callbacks[j].id \in 1 .. Len(asked) /\ Right(callbacks[j], cut')
    BY SeenAsItWas
  <1> QED BY <1>1, <1>2, <1>3, SeenAll

-----------------------------------------------------------------------------
(* What the storage backend holds                                           *)

LEMMA DoneShape ==
  ASSUME NEW q
  PROVE  \A m \in Done(q) : m \in 1 .. Len(asked) /\ asked[m].to = q
  BY DEF Done, DoneOf

LEMMA StoredStays ==
  ASSUME Typed, Order, StoredNewest, Grown, stored' = stored,
         Done("storage")' = Done("storage"),
         operationQueue' = operationQueue
           \/ \E n \in Nat : operationQueue' = Append(operationQueue, n)
  PROVE  StoredNewest'
  <1> SUFFICES ASSUME NEW e \in Entity
               PROVE  \/ Newest(e, stored[e], Done("storage"))'
                      \/ (/\ operationQueue # <<>> /\ stored[e] = Head(operationQueue)
                          /\ IsSaveOf(asked[Head(operationQueue)], e))'
    BY DEF StoredNewest
  <1>1. CASE Newest(e, stored[e], Done("storage"))
    <2>1. \A m \in Done("storage") : asked'[m] = asked[m]
      BY DoneShape DEF Grown
    <2> DEFINE D == Done("storage")
    <2>2. Done("storage")' = D
      OBVIOUS
    <2>3. /\ stored[e] = 0 \/ (stored[e] \in D /\ IsSaveOf(asked'[stored[e]], e))
          /\ \A m \in D : IsSaveOf(asked'[m], e) => m <= stored[e]
      BY <1>1, <2>1 DEF Newest
    <2> HIDE DEF D
    <2> QED BY <2>2, <2>3 DEF Newest, IsSaveOf
  <1>2. CASE /\ operationQueue # <<>> /\ stored[e] = Head(operationQueue)
             /\ IsSaveOf(asked[Head(operationQueue)], e)
    <2>1. operationQueue \in Seq(Nat)
      BY DEF Typed
    <2>2. operationQueue' # <<>> /\ Head(operationQueue') = Head(operationQueue)
      BY <1>2, <2>1
    <2>3. asked'[Head(operationQueue)] = asked[Head(operationQueue)]
      BY <1>2, StorageHead DEF Grown, id
    <2> QED BY <1>2, <2>2, <2>3 DEF IsSaveOf
  <1> QED BY <1>1, <1>2 DEF StoredNewest

\* When the head of the queue is no save, the backend holds the last saves.
LEMMA StoredRead ==
  ASSUME Typed, Order, StoredNewest, operationQueue # <<>>,
         asked[id].kind \notin {"save", "savequiet"}
  PROVE  /\ \A e \in Entity : Newest(e, stored[e], Done("storage"))
         /\ \A e \in Entity : LastSave(e, id) = stored[e]
  <1>1. \A e \in Entity : Newest(e, stored[e], Done("storage"))
    BY DEF StoredNewest, IsSaveOf, id
  <1>2. ASSUME NEW e \in Entity PROVE LastSave(e, id) = stored[e]
    <2>1. stored[e] \in Nat /\ id \in Nat
      BY StorageHead DEF Typed
    <2>2. /\ stored[e] = 0 \/ (stored[e] \in 1 .. (id - 1) /\ IsSaveOf(asked[stored[e]], e))
          /\ \A m \in 1 .. (id - 1) : IsSaveOf(asked[m], e) => m <= stored[e]
      <3>1. Done("storage") = {m \in 1 .. (id - 1) : asked[m].to = "storage"}
        BY StorageHead
      <3> QED BY <1>1, <3>1 DEF Newest, IsSaveOf
    <2> QED BY <2>1, <2>2, LastSaveIs
  <1> QED BY <1>1, <1>2

LEMMA StoredPassed ==
  ASSUME Typed, Order, StoredNewest, operationQueue # <<>>,
         asked[id].kind \notin {"save", "savequiet"}, stored' = stored, asked' = asked,
         Done("storage")' = Done("storage") \cup {id}
  PROVE  StoredNewest'
  <1> DEFINE D == Done("storage") \cup {id}
  <1>1. \A e \in Entity :
          /\ stored[e] = 0 \/ (stored[e] \in D /\ IsSaveOf(asked[stored[e]], e))
          /\ \A m \in D : IsSaveOf(asked[m], e) => m <= stored[e]
    BY StoredRead DEF Newest, IsSaveOf
  <1>2. Done("storage")' = D
    OBVIOUS
  <1> HIDE DEF D
  <1>3. \A e \in Entity : Newest(e, stored[e], Done("storage"))'
    BY <1>1, <1>2 DEF Newest, IsSaveOf
  <1> QED BY <1>3 DEF StoredNewest

LEMMA StoredWritten ==
  ASSUME Typed, Order, StoredNewest, operationQueue # <<>>,
         asked[id].kind \in {"save", "savequiet"},
         stored' = [stored EXCEPT ![on] = id], asked' = asked,
         Done("storage")' = Done("storage") \cup {id}
  PROVE  StoredNewest'
  <1> DEFINE D == Done("storage") \cup {id}
  <1>1. on \in Entity /\ IsSaveOf(asked[id], on) /\ id \in Nat
        /\ \A e \in Entity : IsSaveOf(asked[id], e) => e = on
    BY StorageHead DEF Sane, on, IsSaveOf
  <1>2. stored'[on] = id /\ \A e \in Entity : e # on => stored'[e] = stored[e]
    BY <1>1 DEF Typed
  <1>3. Done("storage") = {m \in 1 .. (id - 1) : asked[m].to = "storage"}
    BY StorageHead
  <1>4. ASSUME NEW e \in Entity
        PROVE  /\ stored'[e] = 0 \/ (stored'[e] \in D /\ IsSaveOf(asked[stored'[e]], e))
               /\ \A m \in D : IsSaveOf(asked[m], e) => m <= stored'[e]
    <2>1. CASE e = on
      BY <1>1, <1>2, <1>3, <2>1
    <2>2. CASE e # on
      <3>1. Newest(e, stored[e], Done("storage")) /\ ~ IsSaveOf(asked[id], e)
        BY <1>1, <2>2 DEF StoredNewest, id
      <3> QED BY <1>2, <2>2, <3>1 DEF Newest
    <2> QED BY <2>1, <2>2
  <1>5. Done("storage")' = D
    OBVIOUS
  <1> HIDE DEF D
  <1>6. \A e \in Entity : Newest(e, stored[e], Done("storage"))'
    BY <1>4, <1>5 DEF Newest, IsSaveOf
  <1> QED BY <1>6 DEF StoredNewest

\* A save that failed may have reached the backend; it is still at the head.
LEMMA StoredTried ==
  ASSUME Typed, Order, StoredNewest, operationQueue # <<>>,
         asked[id].kind \in {"save", "savequiet"},
         stored' \in {stored, [stored EXCEPT ![on] = id]}, asked' = asked,
         operationQueue' = operationQueue, Done("storage")' = Done("storage"), Grown
  PROVE  StoredNewest'
  <1>1. CASE stored' = stored
    BY <1>1, StoredStays
  <1>2. CASE stored' = [stored EXCEPT ![on] = id]
    <2> DEFINE D == Done("storage")
    <2>1. on \in Entity /\ IsSaveOf(asked[id], on)
          /\ \A e \in Entity : IsSaveOf(asked[id], e) => e = on
      BY StorageHead DEF Sane, on, IsSaveOf
    <2>2. stored'[on] = id /\ \A e \in Entity : e # on => stored'[e] = stored[e]
      BY <1>2, <2>1 DEF Typed
    <2>3. \A e \in Entity : e # on =>
            /\ stored'[e] = 0 \/ (stored'[e] \in D /\ IsSaveOf(asked[stored'[e]], e))
            /\ \A m \in D : IsSaveOf(asked[m], e) => m <= stored'[e]
      BY <2>1, <2>2 DEF StoredNewest, Newest, id
    <2>4. Done("storage")' = D
      OBVIOUS
    <2> HIDE DEF D
    <2>5. \A e \in Entity : e # on => Newest(e, stored[e], Done("storage"))'
      BY <2>3, <2>4 DEF Newest, IsSaveOf
    <2>6. /\ operationQueue' # <<>> /\ stored'[on] = Head(operationQueue')
          /\ IsSaveOf(asked'[Head(operationQueue')], on)
      BY <2>1, <2>2 DEF id
    <2> SUFFICES ASSUME NEW e \in Entity
                 PROVE  \/ Newest(e, stored[e], Done("storage"))'
                        \/ (/\ operationQueue # <<>> /\ stored[e] = Head(operationQueue)
                            /\ IsSaveOf(asked[Head(operationQueue)], e))'
      BY DEF StoredNewest
    <2>7. CASE e = on
      BY <2>6, <2>7 DEF IsSaveOf
    <2>8. CASE e # on
      BY <2>5, <2>8
    <2> QED BY <2>7, <2>8
  <1> QED BY <1>1, <1>2

-----------------------------------------------------------------------------
(* Sessions                                                                 *)

LEMMA SessionStays ==
  ASSUME SessionOpen, Grown, session' = session, Done("mongodb")' = Done("mongodb")
  PROVE  SessionOpen'
  <1> DEFINE D == Done("mongodb")
  <1>1. \A m \in D : asked'[m] = asked[m]
    BY DoneShape DEF Grown
  <1>2. Done("mongodb")' = D /\ (session <=> ~ \E m \in D : IsClose(asked[m]))
    BY DEF SessionOpen
  <1> HIDE DEF D
  <1> QED BY <1>1, <1>2 DEF SessionOpen, IsClose

\* An operation of the handle finds the session closed if a Close came first.
LEMMA MongoSaw ==
  ASSUME Typed, Order, SessionOpen, jobs["mongodb"] # <<>>
  PROVE  session = FALSE <=> \E m \in 1 .. (Head(jobs["mongodb"]) - 1) :
                               asked[m].to = "mongodb" /\ asked[m].kind = "close"
  <1> DEFINE h == Head(jobs["mongodb"])
  <1>1. Done("mongodb") = {m \in 1 .. (h - 1) : asked[m].to = "mongodb"}
    BY JobHead DEF Group
  <1>2. session <=> ~ \E m \in Done("mongodb") : IsClose(asked[m])
    BY DEF SessionOpen
  <1>3. session \in BOOLEAN
    BY DEF Typed
  <1> HIDE DEF h
  <1>4. (\E m \in Done("mongodb") : IsClose(asked[m]))
          <=> \E m \in 1 .. (h - 1) : asked[m].to = "mongodb" /\ asked[m].kind = "close"
    BY <1>1 DEF IsClose
  <1>5. session = FALSE <=> ~ session
    BY <1>3
  <1> QED BY <1>2, <1>4, <1>5 DEF h

LEMMA SessionServed ==
  ASSUME Typed, Order, SessionOpen, jobs["mongodb"] # <<>>, asked' = asked,
         NEW o, Sound("mongodb", Head(jobs["mongodb"]), o), session' = o.session,
         Done("mongodb")' = Done("mongodb") \cup {Head(jobs["mongodb"])}
  PROVE  SessionOpen'
  <1> DEFINE h == Head(jobs["mongodb"])
             D == Done("mongodb") \cup {h}
             closes == asked[h].kind = "close"
  <1>1. /\ closes => o.session = FALSE
        /\ ~ closes => o.session = session
    BY Zenon DEF Sound
  <1>2. session <=> ~ \E m \in Done("mongodb") : IsClose(asked[m])
    BY DEF SessionOpen
  <1>3. IsClose(asked[h]) <=> closes
    BY JobHead DEF Group, IsClose
  <1>4. Done("mongodb")' = D
    OBVIOUS
  <1>5. session' <=> ~ \E m \in D : IsClose(asked[m])
    <2>1. CASE closes
      <3>1. session' = FALSE
        BY <1>1, <2>1
      <3> QED BY <1>3, <2>1, <3>1
    <2>2. CASE ~ closes
      <3>1. session' = session
        BY <1>1, <2>2
      <3> QED BY <1>2, <1>3, <2>2, <3>1
    <2> QED BY <2>1, <2>2
  <1> HIDE DEF D, h, closes
  <1>6. SessionOpen' <=> (session' <=> ~ \E m \in Done("mongodb")' : IsClose(asked'[m]))
    BY DEF SessionOpen, IsClose
  <1> QED BY <1>4, <1>5, <1>6

\* The answer of a job says of its session what came before it.
LEMMA JobRight ==
  ASSUME Typed, Order, SessionOpen, NEW g \in Group, jobs[g] # <<>>, NEW a,
         a.id = Head(jobs[g]),
         g = "mongodb" => (a.error = "nosession" <=> session = FALSE)
  PROVE  Right(a, cut')
  <1>1. asked[a.id].to = g /\ Sane(asked[a.id].to, asked[a.id].kind, asked[a.id].on)
    BY JobHead
  <1>2. g # "storage"
    BY RequesterShape
  <1>3. asked[a.id].kind # "load" /\ asked[a.id].kind # "exists"
    BY <1>1, <1>2 DEF Sane
  <1>4. g = "mongodb" =>
          (a.error = "nosession" <=>
             \E m \in 1 .. (a.id - 1) : asked[m].to = "mongodb" /\ asked[m].kind = "close")
    BY MongoSaw
  <1> QED BY <1>1, <1>2, <1>3, <1>4 DEF Right

-----------------------------------------------------------------------------
(* Claims                                                                   *)

\* Which of the answers claim is not changed by later requests.
LEMMA ClaimsAll ==
  ASSUME Grown, NEW i, callbacks'[i].id \in 1 .. Len(asked)
  PROVE  Claims(callbacks[i])' <=> Claims(callbacks'[i])
  <1>1. asked'[callbacks'[i].id] = asked[callbacks'[i].id]
    BY DEF Grown
  <1> QED BY <1>1 DEF Claims

LEMMA OnceQuiet ==
  ASSUME Typed, Once, Known, Grown, claims' = claims,
         (kv[Unnamed] # 0 /\ oldVal # 0) => (kv'[Unnamed] # 0 /\ oldVal' # 0),
         callbacks' = callbacks
           \/ \E a \in Answer : /\ callbacks' = Append(callbacks, a) /\ ~ Claims(a)
                                /\ a.id \in 1 .. Len(asked)
  PROVE  Once'
  <1>1. \A i \in 1 .. Len(callbacks) : callbacks[i].id \in 1 .. Len(asked)
    BY DEF Known, Ids
  <1>2. /\ \A i \in 1 .. Len(callbacks') : callbacks'[i].id \in 1 .. Len(asked)
        /\ \A i \in 1 .. Len(callbacks') :
             Claims(callbacks'[i]) => i \in 1 .. Len(callbacks) /\ Claims(callbacks[i])
        /\ \A i \in 1 .. Len(callbacks) :
             Claims(callbacks[i]) => i \in 1 .. Len(callbacks') /\ Claims(callbacks'[i])
    <2>1. CASE callbacks' = callbacks
      BY <1>1, <2>1
    <2>2. CASE \E a \in Answer : /\ callbacks' = Append(callbacks, a) /\ ~ Claims(a)
                                 /\ a.id \in 1 .. Len(asked)
      <3>1. PICK a \in Answer : /\ callbacks' = Append(callbacks, a) /\ ~ Claims(a)
                                /\ a.id \in 1 .. Len(asked)
        BY <2>2
      <3>2. /\ Len(callbacks') = Len(callbacks) + 1 /\ Len(callbacks) \in Nat
            /\ \A i \in 1 .. Len(callbacks) : callbacks'[i] = callbacks[i]
            /\ callbacks'[Len(callbacks) + 1] = a
        BY <3>1, AppendFacts DEF Typed
      <3>3. \A i \in 1 .. Len(callbacks') : i \in 1 .. Len(callbacks) \/ i = Len(callbacks) + 1
        BY <3>2
      <3>4. \A i \in 1 .. Len(callbacks) : i \in 1 .. Len(callbacks')
        BY <3>2
      <3> QED BY <1>1, <3>1, <3>2, <3>3, <3>4
    <2> QED BY <2>1, <2>2
  <1>3. \A i \in 1 .. Len(callbacks') : Claims(callbacks[i])' <=> Claims(callbacks'[i])
    BY <1>2, ClaimsAll
  <1> QED BY <1>2, <1>3 DEF Once

\* A GetOrPut that has read nothing is the first to claim.
LEMMA OnceClaimed ==
  ASSUME Typed, Once, Known, Grown, claims' = claims, oldVal = 0,
         kv'[Unnamed] # 0 /\ oldVal' # 0,
         NEW a \in Answer, callbacks' = Append(callbacks, a), a.id \in 1 .. Len(asked)
  PROVE  Once'
  <1>1. claims = 0 /\ \A i \in 1 .. Len(callbacks) : ~ Claims(callbacks[i])
    BY DEF Once
  <1>2. /\ Len(callbacks') = Len(callbacks) + 1 /\ Len(callbacks) \in Nat
        /\ \A i \in 1 .. Len(callbacks) : callbacks'[i] = callbacks[i]
        /\ callbacks'[Len(callbacks) + 1] = a
    BY AppendFacts DEF Typed
  <1>3. \A i \in 1 .. Len(callbacks') : i \in 1 .. Len(callbacks) \/ i = Len(callbacks) + 1
    BY <1>2
  <1>4. \A i \in 1 .. Len(callbacks') : callbacks'[i].id \in 1 .. Len(asked)
    BY <1>2, <1>3 DEF Known, Ids
  <1>5. \A i \in 1 .. Len(callbacks') : Claims(callbacks[i])' <=> Claims(callbacks'[i])
    BY <1>4, ClaimsAll
  <1>6. \A i \in 1 .. Len(callbacks') : Claims(callbacks'[i]) => i = Len(callbacks) + 1
    BY <1>1, <1>2, <1>3
  <1> QED BY <1>1, <1>5, <1>6 DEF Once

\* A claim moves from the answers to the count.
LEMMA OnceRuns ==
  ASSUME Typed, Once, Known, Grown, callbacks # <<>>, callbacks' = Tail(callbacks),
         claims' = claims + (IF Claims(Head(callbacks)) THEN 1 ELSE 0),
         kv' = kv, oldVal' = oldVal
  PROVE  Once'
  <1>1. /\ Len(callbacks') = Len(callbacks) - 1 /\ Len(callbacks) \in Nat \ {0}
        /\ \A i \in 1 .. Len(callbacks') : callbacks'[i] = callbacks[i + 1]
        /\ Head(callbacks) = callbacks[1]
    BY TailFacts DEF Typed
  <1>2. /\ 1 \in 1 .. Len(callbacks)
        /\ \A i \in 1 .. Len(callbacks') : i + 1 \in 1 .. Len(callbacks) /\ i + 1 # 1
    BY <1>1
  <1>3. \A i \in 1 .. Len(callbacks') : callbacks'[i].id \in 1 .. Len(asked)
    BY <1>1, <1>2 DEF Known, Ids
  <1>4. \A i \in 1 .. Len(callbacks') : Claims(callbacks[i])' <=> Claims(callbacks[i + 1])
    BY <1>1, <1>3, ClaimsAll
  <1>5. CASE Claims(callbacks[1])
    <2>1. \A i \in 1 .. Len(callbacks') : ~ Claims(callbacks[i + 1])
      BY <1>2, <1>5 DEF Once
    <2>2. claims = 0 /\ claims' = 1
      BY <1>1, <1>2, <1>5 DEF Once
    <2> QED BY <1>2, <1>4, <1>5, <2>1, <2>2 DEF Once
  <1>6. CASE ~ Claims(callbacks[1])
    <2>1. claims' = claims
      BY <1>1, <1>6 DEF Typed
    <2>2. ASSUME NEW i \in 1 .. Len(callbacks'), NEW j \in 1 .. Len(callbacks'),
                 Claims(callbacks[i + 1]), Claims(callbacks[j + 1])
          PROVE  i = j
      <3>1. i + 1 = j + 1
        BY <1>2, <2>2 DEF Once
      <3> QED BY <3>1
    <2>3. /\ claims \in {0, 1}
          /\ claims = 1 => \A i \in 1 .. Len(callbacks') : ~ Claims(callbacks[i + 1])
          /\ (claims = 1 \/ \E i \in 1 .. Len(callbacks') : Claims(callbacks[i + 1]))
               => kv[Unnamed] # 0 /\ oldVal # 0
      BY <1>2 DEF Once
    <2> QED BY <1>4, <2>1, <2>2, <2>3 DEF Once
  <1> QED BY <1>5, <1>6

-----------------------------------------------------------------------------
(* The steps of the main routine                                            *)

LEMMA Closing ==
  ASSUME Inv, Typed', Classified, StoredNewest', SessionOpen', Seen', Once', Stopping',
         drained' = drained
  PROVE  Inv'
  BY ClassifiedOrder, ClassifiedKept, ClassifiedDrained DEF Inv

\* No request, answer or stored value has changed, and no claimed key was emptied.
Plain ==
  /\ UNCHANGED <<asked, callbacks, jobs, operationQueue, session, stored, lost, log, claims>>
  /\ cut \subseteq cut'
  /\ (kv[Unnamed] # 0 /\ oldVal # 0) => (kv'[Unnamed] # 0 /\ oldVal' # 0)

LEMMA PlainInv ==
  ASSUME Inv, Plain
  PROVE  /\ Classified /\ Order' /\ Known' /\ Kept' /\ StoredNewest' /\ SessionOpen'
         /\ Seen' /\ Once'
  <1>1. Typed /\ Order /\ Known /\ Kept /\ StoredNewest /\ SessionOpen /\ Seen /\ Once
    BY DEF Inv
  <1>2. Pending' = Pending
    BY DEF Plain, Pending
  <1>3. Rests /\ Idle
    BY <1>2 DEF Plain, Rests, Idle
  <1>4. Classified
    BY <1>3 DEF Classified
  <1>5. Grown
    BY <1>1, <1>4, ClassifiedGrown DEF Plain
  <1>6. \A q \in Requester : Done(q)' = Done(q)
    BY <1>1, <1>3, RestsOrder DEF Rests
  <1>7. /\ Done("storage")' = Done("storage") /\ Done("mongodb")' = Done("mongodb")
    BY <1>6, RequesterShape DEF Group
  <1>8. /\ operationQueue' = operationQueue /\ stored' = stored /\ session' = session
        /\ callbacks' = callbacks /\ claims' = claims
        /\ (kv[Unnamed] # 0 /\ oldVal # 0) => (kv'[Unnamed] # 0 /\ oldVal' # 0)
    BY DEF Plain
  <1> QED BY <1>1, <1>4, <1>5, <1>7, <1>8, ClassifiedOrder, ClassifiedKept, StoredStays,
             SessionStays, SeenStays, OnceQuiet

LEMMA PlainStep ==
  ASSUME Inv, Plain, Typed', Stopping', drained' = drained
  PROVE  Inv' /\ Classified
  BY PlainInv, Closing

\* A request of the main routine, made while it runs the oldest answer or not.
LEMMA AskingInv ==
  ASSUME Inv, Asking, Runs \/ Idle, Typed', Stopping', drained' = drained,
         claims' = claims + (IF callbacks' # callbacks /\ Claims(Head(callbacks)) THEN 1 ELSE 0)
  PROVE  Inv' /\ Classified
  <1>1. Typed /\ Order /\ Known /\ Kept /\ StoredNewest /\ SessionOpen /\ Seen /\ Once
    BY DEF Inv
  <1>2. PICK q \in Requester : Asks(q)
    BY DEF Asking
  <1>3. Classified
    BY <1>2 DEF Classified
  <1>4. Grown
    BY <1>1, <1>3, ClassifiedGrown DEF Asking
  <1>5. \A p \in Requester : Done(p)' = Done(p)
    BY <1>1, <1>2, AsksOrder
  <1>6. Done("storage")' = Done("storage") /\ Done("mongodb")' = Done("mongodb")
    BY <1>5, RequesterShape DEF Group
  <1>7. /\ operationQueue' = operationQueue
             \/ \E n \in Nat : operationQueue' = Append(operationQueue, n)
        /\ stored' = stored /\ session' = session /\ kv' = kv /\ oldVal' = oldVal
    BY DEF Asking
  <1>8. StoredNewest' /\ SessionOpen'
    BY <1>1, <1>4, <1>6, <1>7, StoredStays, SessionStays
  <1>9. Seen'
    BY <1>1, <1>4, SeenStays DEF Runs, Idle
  <1>10. Once'
    <2>1. CASE Runs
      <3>1. callbacks \in Seq(Answer) /\ callbacks # <<>> /\ callbacks' = Tail(callbacks)
        BY <1>1, <2>1 DEF Typed, Runs
      <3>2. callbacks' # callbacks
        BY <3>1
      <3> QED BY <1>1, <1>4, <1>7, <3>1, <3>2, OnceRuns
    <2>2. CASE Idle
      <3>1. callbacks' = callbacks /\ claims' = claims
        BY <1>1, <2>2 DEF Idle, Typed
      <3> QED BY <1>1, <1>4, <1>7, <3>1, OnceQuiet
    <2> QED BY <2>1, <2>2
  <1> QED BY <1>3, <1>8, <1>9, <1>10, Closing

\* Asking leaves alone what a request does not concern.
LEMMA AskingTyped ==
  ASSUME Typed, Asking, callbacks' \in Seq(Answer), log' \in Seq(Nat), claims' \in Nat,
         toDestroy' \subseteq toDestroy, UNCHANGED <<faults, requests, main, stopping, cleared, drained>>
  PROVE  Typed'
  BY DEF Typed, Asking

LEMMA LeftToDestroy ==
  ASSUME Typed
  PROVE  /\ IsFiniteSet(toDestroy) /\ Cardinality(toDestroy) \in Nat
         /\ Cardinality(Entity) \in Nat /\ Cardinality(toDestroy) <= Cardinality(Entity)
  BY LimitAssumption, FS_Subset, FS_CardinalityType DEF Typed

LEMMA AskingStopping ==
  ASSUME Typed, Stopping, Asking, main \in {"running", "posts", "destroying"},
         Len(asked) < MaxRequests, UNCHANGED <<main, toDestroy>>
  PROVE  Stopping'
  <1>1. /\ Len(asked') = Len(asked) + 1 /\ Len(asked) \in Nat /\ MaxRequests \in Nat
        /\ toDestroy' = toDestroy
    BY LimitAssumption DEF Typed, Asking
  <1>2. Len(asked') + Cardinality(toDestroy') <= MaxRequests + Cardinality(Entity)
    BY <1>1, LeftToDestroy
  <1>3. /\ \A g \in Group : worker'[g] = "none" => jobs'[g] = <<>>
        /\ (main \in {"running", "posts"}) => \A g \in Group : worker'[g] # "closed"
    BY DEF Asking, Stopping
  <1>4. /\ closed' = closed /\ storageRoutineTerminated' = storageRoutineTerminated
        /\ closed = FALSE /\ main' = main
    BY DEF Asking, Stopping, Typed
  <1>5. storageRoutineTerminated = FALSE
    BY <1>4 DEF Stopping, Typed
  <1> QED BY <1>1, <1>2, <1>3, <1>4, <1>5 DEF Stopping

LEMMA HandlerAsksInv ==
  ASSUME Inv, HandlerAsks
  PROVE  Inv' /\ Classified
  <1>1. Typed /\ Stopping
    BY DEF Inv
  <1>2. /\ Len(asked) < MaxRequests /\ main = "running" /\ (AskStorage \/ AskJob)
        /\ UNCHANGED <<callbacks, faults, requests, main, stopping, cleared, toDestroy,
                       drained, log, claims>>
    BY DEF HandlerAsks, Ask, mainVars
  <1>3. Asking
    BY <1>1, <1>2, AskAsks
  <1>4. Typed'
    <2>1. callbacks' \in Seq(Answer) /\ log' \in Seq(Nat) /\ claims' \in Nat
      BY <1>1, <1>2 DEF Typed
    <2> QED BY <1>1, <1>2, <1>3, <2>1, AskingTyped
  <1>5. Stopping'
    BY <1>1, <1>2, <1>3, AskingStopping
  <1>6. Idle /\ claims' = claims + 0
    BY <1>1, <1>2 DEF Idle, Typed
  <1> QED BY <1>2, <1>3, <1>4, <1>5, <1>6, AskingInv

LEMMA TickInv ==
  ASSUME Inv, Tick
  PROVE  Inv' /\ Classified
  <1>1. Typed /\ Order /\ Known /\ Kept /\ StoredNewest /\ SessionOpen /\ Seen /\ Once /\ Stopping
    BY DEF Inv
  <1>2. /\ main \in {"running", "posts"} /\ callbacks # <<>> /\ callbacks' = Tail(callbacks)
        /\ log' = Append(log, Head(callbacks).id)
        /\ claims' = claims + (IF Claims(Head(callbacks)) THEN 1 ELSE 0)
        /\ UNCHANGED <<faults, requests, main, stopping, cleared, toDestroy, drained>>
    BY DEF Tick, RunPosted
  <1>3. Runs
    BY <1>2 DEF Runs
  <1>4. callbacks' \in Seq(Answer) /\ log' \in Seq(Nat) /\ claims' \in Nat /\ callbacks' # callbacks
    <2>1. callbacks \in Seq(Answer) /\ log \in Seq(Nat) /\ claims \in Nat
      BY <1>1 DEF Typed
    <2>2. Head(callbacks) \in Answer /\ callbacks' \in Seq(Answer) /\ callbacks' # callbacks
      BY <1>2, <2>1, TailFacts
    <2>3. Head(callbacks).id \in Nat
      BY <2>2 DEF Answer
    <2> QED BY <1>2, <2>1, <2>2, <2>3
  <1>5. CASE Ask
    <2>1. Asking /\ Len(asked) < MaxRequests
      BY <1>1, <1>5, AskAsks DEF Ask
    <2>2. Typed'
      BY <1>1, <1>2, <1>4, <2>1, AskingTyped
    <2>3. Stopping'
      BY <1>1, <1>2, <2>1, AskingStopping
    <2> QED BY <1>2, <1>3, <1>4, <2>1, <2>2, <2>3, AskingInv
  <1>6. CASE UNCHANGED <<asked, jobVars, storageVars>>
    <2>1. UNCHANGED <<asked, worker, jobs, engine, kvBackend, kv, oldVal, session, rank, lost,
                      operationQueue, storageEngine, backend, stored, closed,
                      storageRoutineTerminated, cut>>
      BY <1>6 DEF jobVars, storageVars
    <2>2. Typed'
      BY <1>1, <1>2, <1>4, <2>1 DEF Typed
    <2>3. Stopping'
      BY <1>1, <1>2, <2>1 DEF Stopping
    <2>4. Pending' = Pending
      BY <2>1 DEF Pending
    <2>5. Rests
      BY <2>1, <2>4 DEF Rests
    <2>6. Classified
      BY <1>3, <2>5 DEF Classified
    <2>7. Grown
      BY <1>1, <2>1, <2>6, ClassifiedGrown
    <2>8. \A q \in Requester : Done(q)' = Done(q)
      BY <1>1, <2>5, RestsOrder DEF Rests
    <2>9. Done("storage")' = Done("storage") /\ Done("mongodb")' = Done("mongodb")
      BY <2>8, RequesterShape DEF Group
    <2>10. StoredNewest' /\ SessionOpen'
      BY <1>1, <2>1, <2>7, <2>9, StoredStays, SessionStays
    <2>11. Seen' /\ Once'
      BY <1>1, <1>2, <2>1, <2>7, SeenStays, OnceRuns
    <2> QED BY <1>2, <2>2, <2>3, <2>6, <2>10, <2>11, Closing
  <1> QED BY <1>5, <1>6 DEF Tick

-----------------------------------------------------------------------------
(* A game that stops                                                        *)

\* WaitClear that finds no worker comes after the answer of every job.
LEMMA AtDrained ==
  ASSUME Inv, main = "waitclear", ~ cleared, drained' = Len(asked),
         UNCHANGED <<asked, lost, log>>
  PROVE  Drained'
  <1>1. Typed /\ Kept /\ Stopping
    BY DEF Inv
  <1>2. /\ \A g \in Group : jobs[g] = <<>>
        /\ \A n \in Ids : asked[n].to = "storage"
    BY <1>1 DEF Stopping, Ids
  <1>3. ASSUME NEW n \in 1 .. Len(asked), asked[n].to # "storage"
        PROVE  n \in lost \cup Range(log)
    <2>1. PICK g \in Group : asked[n].to = g
      <3>1. asked[n] \in Ticket
        BY <1>1 DEF Typed
      <3>2. Sane(asked[n].to, asked[n].kind, asked[n].on)
        BY <3>1, TicketShape
      <3> QED BY <1>3, <3>2 DEF Sane
    <2>2. Pending[g] = <<>>
      BY <1>1, <1>2, PendingShape
    <2>3. n \in Done(g)
      BY <2>1, <2>2, DoneAll DEF Done
    <2>4. n \notin Ids
      BY <1>2, <1>3
    <2> QED BY <1>1, <2>3, <2>4 DEF Kept
  <1> QED BY <1>1, <1>3 DEF Drained, Typed

LEMMA StopInv ==
  ASSUME Inv, Stop
  PROVE  Inv' /\ Classified
  <1>1. Typed /\ Stopping
    BY DEF Inv
  <1>2. UNCHANGED <<asked, callbacks, faults, worker, jobs, engine, kvBackend, kv, oldVal,
                    session, rank, lost, operationQueue, storageEngine, backend, stored,
                    closed, storageRoutineTerminated, cut, cleared, toDestroy, drained, log,
                    claims, requests>>
    BY DEF Stop, jobVars, storageVars
  <1>3. main = "running" /\ main' = "posts" /\ stopping' \in {"terminating", "freezing"}
    BY DEF Stop
  <1>4. Typed'
    BY <1>1, <1>2, <1>3 DEF Typed, Modes
  <1>5. Stopping'
    BY <1>1, <1>2, <1>3 DEF Stopping
  <1> QED BY <1>2, <1>4, <1>5, PlainStep DEF Plain

LEMMA PostsCompleteInv ==
  ASSUME Inv, PostsComplete
  PROVE  Inv' /\ Classified
  <1>1. Typed /\ Stopping
    BY DEF Inv
  <1>2. UNCHANGED <<asked, callbacks, faults, jobs, engine, kvBackend, kv, oldVal,
                    session, rank, lost, operationQueue, storageEngine, backend, stored,
                    closed, storageRoutineTerminated, cut, stopping, toDestroy, drained, log,
                    claims, requests>>
    BY DEF PostsComplete, storageVars
  <1>3. /\ main = "posts" /\ main' = "waitclear" /\ callbacks = <<>>
        /\ worker' = [g \in Group |-> IF worker[g] = "open" THEN "closed" ELSE worker[g]]
        /\ cleared' = AnyWorker
    BY DEF PostsComplete, CloseWorkers
  <1>4. worker \in [Group -> {"none", "open", "closed"}]
    BY <1>1 DEF Typed
  <1>5. /\ worker' \in [Group -> {"none", "open", "closed"}]
        /\ \A g \in Group : worker'[g] = IF worker[g] = "open" THEN "closed" ELSE worker[g]
    BY <1>3, <1>4
  <1>6. cleared' \in BOOLEAN
    BY <1>3 DEF AnyWorker
  <1>7. Typed'
    BY <1>1, <1>2, <1>3, <1>5, <1>6 DEF Typed, Modes
  <1>8. Stopping'
    <2>1. \A g \in Group : worker'[g] = "none" => jobs'[g] = <<>>
      BY <1>1, <1>2, <1>5 DEF Stopping
    <2>2. ~ cleared' => \A g \in Group : worker'[g] = "none"
      BY <1>1, <1>3, <1>4, <1>5 DEF Stopping, AnyWorker
    <2>3. \A i \in 1 .. Len(callbacks') : FALSE
      BY <1>2, <1>3
    <2> QED BY <1>1, <1>2, <1>3, <2>1, <2>2, <2>3 DEF Stopping
  <1> QED BY <1>2, <1>7, <1>8, PlainStep DEF Plain

LEMMA ClearedSomeInv ==
  ASSUME Inv, ClearedSome
  PROVE  Inv' /\ Classified
  <1>1. Typed /\ Stopping
    BY DEF Inv
  <1>2. UNCHANGED <<asked, callbacks, faults, worker, jobs, engine, kvBackend, kv, oldVal,
                    session, rank, lost, operationQueue, storageEngine, backend, stored,
                    closed, storageRoutineTerminated, cut, stopping, cleared, toDestroy, drained,
                    log, claims, requests>>
    BY DEF ClearedSome, jobVars, storageVars
  <1>3. main = "waitclear" /\ main' = "posts" /\ \A g \in Group : worker[g] = "none"
    BY DEF ClearedSome, WorkersGone
  <1>4. Typed'
    BY <1>1, <1>2, <1>3 DEF Typed, Modes
  <1>5. Stopping'
    BY <1>1, <1>2, <1>3 DEF Stopping
  <1> QED BY <1>2, <1>4, <1>5, PlainStep DEF Plain

LEMMA StartDestroyingInv ==
  ASSUME Inv, StartDestroying
  PROVE  Inv' /\ Classified
  <1>1. Typed /\ Stopping
    BY DEF Inv
  <1>2. UNCHANGED <<asked, callbacks, faults, worker, jobs, engine, kvBackend, kv, oldVal,
                    session, rank, lost, operationQueue, storageEngine, backend, stored,
                    closed, storageRoutineTerminated, cut, stopping, cleared, log, claims, requests>>
    BY DEF StartDestroying, jobVars, storageVars
  <1>3. /\ main = "waitclear" /\ ~ cleared /\ main' = "destroying" /\ toDestroy' = Entity
        /\ drained' = Len(asked) /\ Len(asked) \in Nat
    BY <1>1 DEF StartDestroying, Typed
  <1>4. Typed'
    BY <1>1, <1>2, <1>3 DEF Typed, Modes
  <1>5. Stopping'
    <2>1. Len(asked') + Cardinality(toDestroy') <= MaxRequests + Cardinality(Entity)
      BY <1>1, <1>2, <1>3, LeftToDestroy, LimitAssumption DEF Stopping
    <2> QED BY <1>1, <1>2, <1>3, <2>1 DEF Stopping
  <1>6. Drained'
    BY <1>2, <1>3, AtDrained
  <1>7. Plain
    BY <1>2 DEF Plain
  <1> QED BY <1>4, <1>5, <1>6, <1>7, PlainInv DEF Inv

LEMMA FreezedInv ==
  ASSUME Inv, Freezed
  PROVE  Inv' /\ Classified
  <1>1. Typed /\ Stopping
    BY DEF Inv
  <1>2. UNCHANGED <<asked, callbacks, faults, worker, jobs, engine, kvBackend, kv, oldVal,
                    session, rank, lost, operationQueue, storageEngine, backend, stored,
                    closed, storageRoutineTerminated, cut, stopping, cleared, toDestroy, log,
                    claims, requests>>
    BY DEF Freezed, jobVars, storageVars
  <1>3. /\ main = "waitclear" /\ ~ cleared /\ main' = "stopped"
        /\ drained' = Len(asked) /\ Len(asked) \in Nat
    BY <1>1 DEF Freezed, Typed
  <1>4. Typed'
    BY <1>1, <1>2, <1>3 DEF Typed, Modes
  <1>5. Stopping'
    BY <1>1, <1>2, <1>3 DEF Stopping
  <1>6. Drained'
    BY <1>2, <1>3, AtDrained
  <1>7. Plain
    BY <1>2 DEF Plain
  <1> QED BY <1>4, <1>5, <1>6, <1>7, PlainInv DEF Inv

LEMMA FreezeFailsInv ==
  ASSUME Inv, FreezeFails
  PROVE  Inv' /\ Classified
  <1>1. Typed /\ Stopping
    BY DEF Inv
  <1>2. UNCHANGED <<asked, callbacks, worker, jobs, kvBackend, kv, oldVal,
                    session, rank, lost, operationQueue, storageEngine, backend, stored,
                    closed, storageRoutineTerminated, cut, cleared, toDestroy, drained, log,
                    claims, requests>>
    BY DEF FreezeFails, storageVars
  <1>3. /\ main = "waitclear" /\ main' = "running" /\ stopping' = "none"
        /\ \A g \in Group : worker[g] = "none"
    BY DEF FreezeFails, WorkersGone
  <1>4. faults' \in 0 .. MaxFaults
    BY <1>1, LimitAssumption DEF FreezeFails, Typed
  <1>5. engine' \in [{"kvdb", "rank"} -> BOOLEAN]
    <2>1. engine \in [{"kvdb", "rank"} -> BOOLEAN]
          /\ engine' \in {engine, [engine EXCEPT !["kvdb"] = TRUE]}
      BY <1>1 DEF FreezeFails, Typed
    <2> QED BY <2>1
  <1>6. Typed'
    BY <1>1, <1>2, <1>3, <1>4, <1>5 DEF Typed, Modes
  <1>7. Stopping'
    BY <1>1, <1>2, <1>3 DEF Stopping
  <1> QED BY <1>2, <1>6, <1>7, PlainStep DEF Plain

LEMMA DestroyEntityInv ==
  ASSUME Inv, NEW e \in Entity, DestroyEntity(e)
  PROVE  Inv' /\ Classified
  <1>1. Typed /\ Stopping
    BY DEF Inv
  <1>2. /\ main = "destroying" /\ e \in toDestroy /\ toDestroy' = toDestroy \ {e}
        /\ Push("savequiet", e) /\ UNCHANGED jobVars
        /\ UNCHANGED <<callbacks, faults, main, stopping, cleared, drained, log, claims, requests>>
    BY DEF DestroyEntity
  <1>3. <<"storage", "savequiet", e>> \in Askable
    BY DEF Askable
  <1>4. Asking /\ UNCHANGED jobs /\ UNCHANGED worker
    BY <1>1, <1>2, <1>3, PushAsks
  <1>5. Typed'
    <2>1. /\ callbacks' \in Seq(Answer) /\ log' \in Seq(Nat) /\ claims' \in Nat
          /\ toDestroy' \subseteq toDestroy
      BY <1>1, <1>2 DEF Typed
    <2> QED BY <1>1, <1>2, <1>4, <2>1, AskingTyped
  <1>6. Stopping'
    <2>1. Cardinality(toDestroy') = Cardinality(toDestroy) - 1
      BY <1>1, <1>2, LeftToDestroy, FS_RemoveElement
    <2>2. Len(asked') = Len(asked) + 1 /\ Len(asked) \in Nat /\ MaxRequests \in Nat
      BY <1>1, <1>4, LimitAssumption DEF Asking, Typed
    <2>3. Len(asked') + Cardinality(toDestroy') <= MaxRequests + Cardinality(Entity)
      BY <1>1, <2>1, <2>2, LeftToDestroy DEF Stopping
    <2>4. \A g \in Group : worker'[g] = "none" => jobs'[g] = <<>>
      BY <1>1, <1>4 DEF Stopping
    <2>5. closed' = closed /\ storageRoutineTerminated' = storageRoutineTerminated
      BY <1>4 DEF Asking
    <2>6. storageRoutineTerminated = FALSE /\ closed = FALSE
      BY <1>1, <1>2 DEF Stopping, Typed
    <2> QED BY <1>2, <2>3, <2>4, <2>5, <2>6 DEF Stopping
  <1>7. Idle /\ claims' = claims + 0
    BY <1>1, <1>2 DEF Idle, Typed
  <1> QED BY <1>2, <1>4, <1>5, <1>6, <1>7, AskingInv

LEMMA OnDestroyAsksInv ==
  ASSUME Inv, OnDestroyAsks
  PROVE  Inv' /\ Classified
  <1>1. Typed /\ Stopping
    BY DEF Inv
  <1>2. /\ Len(asked) < MaxRequests /\ main = "destroying" /\ AskJob
        /\ UNCHANGED <<callbacks, faults, requests, main, stopping, cleared, toDestroy,
                       drained, log, claims>>
    BY DEF OnDestroyAsks, mainVars
  <1>3. Asking
    BY <1>1, <1>2, AskAsks
  <1>4. Typed'
    <2>1. callbacks' \in Seq(Answer) /\ log' \in Seq(Nat) /\ claims' \in Nat
      BY <1>1, <1>2 DEF Typed
    <2> QED BY <1>1, <1>2, <1>3, <2>1, AskingTyped
  <1>5. Stopping'
    BY <1>1, <1>2, <1>3, AskingStopping
  <1>6. Idle /\ claims' = claims + 0
    BY <1>1, <1>2 DEF Idle, Typed
  <1> QED BY <1>2, <1>3, <1>4, <1>5, <1>6, AskingInv

LEMMA TerminatedInv ==
  ASSUME Inv, Terminated
  PROVE  Inv' /\ Classified
  <1>1. Typed /\ Stopping
    BY DEF Inv
  <1>2. UNCHANGED <<asked, callbacks, faults, worker, jobs, engine, kvBackend, kv, oldVal,
                    session, rank, lost, operationQueue, storageEngine, backend, stored,
                    closed, storageRoutineTerminated, cut, stopping, cleared, toDestroy, drained,
                    log, claims, requests>>
    BY DEF Terminated, jobVars, storageVars
  <1>3. main = "destroying" /\ main' = "stopped"
    BY DEF Terminated
  <1>4. Typed'
    BY <1>1, <1>2, <1>3 DEF Typed, Modes
  <1>5. Stopping'
    BY <1>1, <1>2, <1>3 DEF Stopping
  <1> QED BY <1>2, <1>4, <1>5, PlainStep DEF Plain

LEMMA CloseStorageInv ==
  ASSUME Inv, CloseStorage
  PROVE  Inv' /\ Classified
  <1>1. Typed /\ Stopping
    BY DEF Inv
  <1>2. UNCHANGED <<asked, callbacks, faults, worker, jobs, engine, kvBackend, kv, oldVal,
                    session, rank, lost, operationQueue, storageEngine, backend, stored,
                    storageRoutineTerminated, cut, main, stopping, cleared, toDestroy, drained,
                    log, claims, requests>>
    BY DEF CloseStorage, jobVars, mainVars
  <1>3. main = "stopped" /\ closed' = TRUE
    BY DEF CloseStorage, Shutdown
  <1>4. Typed'
    BY <1>1, <1>2, <1>3 DEF Typed
  <1>5. Stopping'
    BY <1>1, <1>2, <1>3 DEF Stopping
  <1> QED BY <1>2, <1>4, <1>5, PlainStep DEF Plain

LEMMA ExitInv ==
  ASSUME Inv, Exit
  PROVE  Inv' /\ Classified
  <1>1. Typed /\ Stopping
    BY DEF Inv
  <1>2. UNCHANGED <<asked, callbacks, faults, worker, jobs, engine, kvBackend, kv, oldVal,
                    session, rank, lost, operationQueue, storageEngine, backend, stored,
                    closed, storageRoutineTerminated, cut, stopping, cleared, toDestroy, drained,
                    log, claims, requests>>
    BY DEF Exit, jobVars, storageVars
  <1>3. main = "stopped" /\ main' = "exited" /\ storageRoutineTerminated
    BY DEF Exit
  <1>4. Typed'
    BY <1>1, <1>2, <1>3 DEF Typed, Modes
  <1>5. Stopping'
    BY <1>1, <1>2, <1>3 DEF Stopping
  <1> QED BY <1>2, <1>4, <1>5, PlainStep DEF Plain

-----------------------------------------------------------------------------
(* The storage routine                                                      *)

StorageRest ==
  /\ UNCHANGED <<asked, worker, jobs, engine, kvBackend, kv, oldVal, session, rank, backend,
                 closed, requests, main, stopping, cleared, toDestroy, drained, log, claims>>
  /\ cut \subseteq cut' /\ cut' \subseteq 1 .. Len(asked)

LEMMA StorageTyped ==
  ASSUME Typed, StorageRest, callbacks' \in Seq(Answer), faults' \in 0 .. MaxFaults,
         operationQueue' \in Seq(Nat), storageEngine' \in BOOLEAN,
         stored' \in [Entity -> Nat], storageRoutineTerminated' \in BOOLEAN
  PROVE  Typed'
  BY DEF Typed, StorageRest

LEMMA FaultTyped ==
  ASSUME Typed, Fault
  PROVE  faults' \in 0 .. MaxFaults
  BY LimitAssumption DEF Typed, Fault

LEMMA SameGrown ==
  ASSUME Typed, asked' = asked, cut \subseteq cut'
  PROVE  Grown
  BY DEF Typed, Grown

LEMMA StorageStopping ==
  ASSUME Typed, Stopping, Known, StorageRest, operationQueue # <<>>,
         storageRoutineTerminated' = storageRoutineTerminated,
         callbacks' = callbacks
           \/ \E a \in Answer : callbacks' = Append(callbacks, a) /\ asked[a.id].to = "storage"
  PROVE  Stopping'
  <1>1. storageRoutineTerminated = FALSE
    BY DEF Stopping, Typed
  <1>2. ASSUME \A i \in 1 .. Len(callbacks) : asked[callbacks[i].id].to = "storage"
        PROVE  \A i \in 1 .. Len(callbacks') : asked[callbacks'[i].id].to = "storage"
    <2>1. CASE callbacks' = callbacks
      BY <1>2, <2>1
    <2>2. ASSUME NEW a \in Answer, callbacks' = Append(callbacks, a), asked[a.id].to = "storage"
          PROVE  \A i \in 1 .. Len(callbacks') : asked[callbacks'[i].id].to = "storage"
      <3>1. /\ Len(callbacks') = Len(callbacks) + 1 /\ Len(callbacks) \in Nat
            /\ \A i \in 1 .. Len(callbacks) : callbacks'[i] = callbacks[i]
            /\ callbacks'[Len(callbacks) + 1] = a
        BY <2>2, AppendFacts DEF Typed
      <3>2. \A i \in 1 .. Len(callbacks') : i \in 1 .. Len(callbacks) \/ i = Len(callbacks) + 1
        BY <3>1
      <3> QED BY <1>2, <2>2, <3>1, <3>2
    <2> QED BY <2>1, <2>2
  <1> QED BY <1>1, <1>2 DEF Stopping, StorageRest

\* The head of the storage queue leaves it, answered or in silence.
LEMMA StorageServed ==
  ASSUME Inv, StorageRest, Typed', StoredNewest', operationQueue # <<>>, Served,
         storageRoutineTerminated' = storageRoutineTerminated,
         \/ /\ lost' = lost
            /\ \E a \in Answer : callbacks' = Append(callbacks, a) /\ a.id = id /\ Right(a, cut')
         \/ callbacks' = callbacks /\ lost' \in {lost, lost \cup {id}}
  PROVE  Inv' /\ Classified
  <1>1. Typed /\ Order /\ Known /\ Kept /\ SessionOpen /\ Seen /\ Once /\ Stopping
    BY DEF Inv
  <1>2. /\ asked' = asked /\ jobs' = jobs /\ log' = log /\ session' = session /\ kv' = kv
        /\ oldVal' = oldVal /\ claims' = claims /\ drained' = drained
    BY DEF StorageRest
  <1>3. Leaves("storage")
    BY <1>1, <1>2, StorageLeaves
  <1>4. Grown
    BY <1>1, <1>2, SameGrown DEF StorageRest
  <1>5. SessionOpen'
    <2>1. "mongodb" \in Requester /\ "storage" \in Requester
      BY DEF Requester, Group
    <2>2. Done("mongodb")' = Done("mongodb")
      BY <1>1, <1>3, <2>1, LeavesOrder
    <2> QED BY <1>1, <1>2, <1>4, <2>2, SessionStays
  <1>6. /\ id \in 1 .. Len(asked) /\ asked[id].to = "storage" /\ Head(Pending["storage"]) = id
    BY <1>1, StorageHead DEF id
  <1>7. ASSUME NEW a \in Answer, callbacks' = Append(callbacks, a), a.id = id, Right(a, cut'),
               lost' = lost
        PROVE  Inv' /\ Classified
    <2>1. Replies("storage", a)
      BY <1>3, <1>6, <1>7 DEF Replies
    <2>2. Classified
      BY <2>1, RequesterShape DEF Classified
    <2>3. Seen'
      BY <1>1, <1>4, <1>6, <1>7, SeenNew
    <2>4. ~ Claims(a)
      BY <1>6, <1>7 DEF Claims
    <2>5. Once'
      BY <1>1, <1>2, <1>4, <1>6, <1>7, <2>4, OnceQuiet
    <2>6. Stopping'
      BY <1>1, <1>6, <1>7, StorageStopping
    <2> QED BY <1>2, <1>5, <2>2, <2>3, <2>5, <2>6, Closing
  <1>8. ASSUME callbacks' = callbacks, lost' \in {lost, lost \cup {id}}
        PROVE  Inv' /\ Classified
    <2>1. Drops("storage")
      BY <1>3, <1>6, <1>8 DEF Drops
    <2>2. Classified
      BY <2>1, RequesterShape DEF Classified
    <2>3. Seen' /\ Once'
      BY <1>1, <1>2, <1>4, <1>8, SeenStays, OnceQuiet
    <2>4. Stopping'
      BY <1>1, <1>8, StorageStopping
    <2> QED BY <1>2, <1>5, <2>2, <2>3, <2>4, Closing
  <1> QED BY <1>7, <1>8

\* What a storage operation begins with.
LEMMA StorageBegins ==
  ASSUME Inv, StorageRest, operationQueue # <<>>, Served
  PROVE  /\ operationQueue' \in Seq(Nat) /\ asked' = asked
         /\ Done("storage")' = Done("storage") \cup {id}
  <1>1. Typed /\ Order
    BY DEF Inv
  <1>2. asked' = asked /\ jobs' = jobs /\ log' = log
    BY DEF StorageRest
  <1>3. Leaves("storage") /\ operationQueue' \in Seq(Nat)
    BY <1>1, <1>2, StorageLeaves
  <1>4. Done("storage")' = Done("storage") \cup {Head(Pending["storage"])}
    BY <1>1, <1>3, LeavesOrder, RequesterShape
  <1> QED BY <1>1, <1>2, <1>3, <1>4, StorageHead DEF id

LEMMA WriteInv ==
  ASSUME Inv, StorageRest, Write, UNCHANGED <<storageRoutineTerminated, lost, cut>>
  PROVE  Inv' /\ Classified
  <1>1. Typed /\ Order /\ StoredNewest
    BY DEF Inv
  <1>2. /\ operationQueue # <<>> /\ asked[id].kind \in {"save", "savequiet"} /\ Served
        /\ stored' = [stored EXCEPT ![on] = id] /\ UNCHANGED <<storageEngine, faults>>
    BY DEF Write, Serving, id
  <1>3. /\ operationQueue' \in Seq(Nat) /\ asked' = asked
        /\ Done("storage")' = Done("storage") \cup {id}
    BY <1>2, StorageBegins
  <1>4. id \in Nat /\ id \in 1 .. Len(asked) /\ asked[id].to = "storage"
    BY <1>1, <1>2, StorageHead
  <1> DEFINE a == [id |-> id, error |-> "none", value |-> 0, ids |-> {}]
  <1>5. a \in Answer /\ a.id = id
    BY <1>4, AnswerShape DEF Error
  <1>6. Right(a, cut')
    BY <1>2, <1>4, <1>5 DEF Right
  <1>7. (lost' = lost /\ callbacks' = Append(callbacks, a)) \/ (callbacks' = callbacks /\ lost' = lost)
    BY DEF Write, Post
  <1> HIDE DEF a
  <1>8. StoredNewest'
    BY <1>1, <1>2, <1>3, StoredWritten
  <1>9. Typed'
    <2>1. callbacks' \in Seq(Answer)
      <3>1. callbacks \in Seq(Answer)
        BY <1>1 DEF Typed
      <3> QED BY <1>5, <1>7, <3>1, AppendFacts
    <2>2. /\ stored' \in [Entity -> Nat] /\ faults' \in 0 .. MaxFaults
          /\ storageEngine' \in BOOLEAN /\ storageRoutineTerminated' \in BOOLEAN
      BY <1>1, <1>2, <1>4 DEF Typed
    <2> QED BY <1>1, <1>3, <2>1, <2>2, StorageTyped
  <1> QED BY <1>2, <1>5, <1>6, <1>7, <1>8, <1>9, StorageServed

LEMMA WriteFailsInv ==
  ASSUME Inv, StorageRest, WriteFails, UNCHANGED <<storageRoutineTerminated, lost, cut>>
  PROVE  Inv' /\ Classified
  <1>1. Typed /\ Order /\ StoredNewest /\ SessionOpen /\ Seen /\ Once /\ Stopping /\ Known
    BY DEF Inv
  <1>2. /\ operationQueue # <<>> /\ asked[id].kind \in {"save", "savequiet"} /\ Fault
        /\ stored' \in {stored, [stored EXCEPT ![on] = id]} /\ CloseOn(backend.eof)
        /\ UNCHANGED <<callbacks, operationQueue>>
    BY DEF WriteFails, Serving, id
  <1>3. /\ asked' = asked /\ jobs' = jobs /\ log' = log /\ session' = session /\ kv' = kv
        /\ oldVal' = oldVal /\ claims' = claims /\ drained' = drained
    BY DEF StorageRest
  <1>4. Pending' = Pending
    BY <1>2, <1>3 DEF Pending
  <1>5. Classified /\ Rests
    BY <1>2, <1>3, <1>4 DEF Classified, Rests, Idle
  <1>6. Grown
    BY <1>1, <1>3, SameGrown DEF StorageRest
  <1>7. \A q \in Requester : Done(q)' = Done(q)
    BY <1>1, <1>5, RestsOrder DEF Rests
  <1>8. Done("storage")' = Done("storage") /\ Done("mongodb")' = Done("mongodb")
    BY <1>7, RequesterShape DEF Group
  <1>9. StoredNewest'
    BY <1>1, <1>2, <1>3, <1>6, <1>8, StoredTried
  <1>10. SessionOpen' /\ Seen' /\ Once'
    BY <1>1, <1>2, <1>3, <1>6, <1>8, SessionStays, SeenStays, OnceQuiet
  <1>11. Stopping'
    BY <1>1, <1>2, StorageStopping
  <1>12. Typed'
    <2>1. faults' \in 0 .. MaxFaults /\ storageEngine' \in BOOLEAN
      BY <1>1, <1>2, FaultTyped, ClosesOn
    <2>2. id \in Nat
      BY <1>1, <1>2, StorageHead
    <2>3. /\ stored' \in [Entity -> Nat] /\ callbacks' \in Seq(Answer)
          /\ operationQueue' \in Seq(Nat) /\ storageRoutineTerminated' \in BOOLEAN
      BY <1>1, <1>2, <2>2 DEF Typed
    <2> QED BY <1>1, <2>1, <2>3, StorageTyped
  <1> QED BY <1>3, <1>5, <1>9, <1>10, <1>11, <1>12, Closing

\* An operation that is no save leaves the backend as it is.
LEMMA StorageReads ==
  ASSUME Inv, StorageRest, operationQueue # <<>>, Served,
         asked[id].kind \in {"load", "exists", "list"}, stored' = stored,
         faults' \in 0 .. MaxFaults, storageEngine' \in BOOLEAN,
         storageRoutineTerminated' = storageRoutineTerminated,
         \/ /\ lost' = lost
            /\ \E a \in Answer : callbacks' = Append(callbacks, a) /\ a.id = id /\ Right(a, cut')
         \/ callbacks' = callbacks /\ lost' \in {lost, lost \cup {id}}
  PROVE  Inv' /\ Classified
  <1>1. Typed /\ Order /\ StoredNewest
    BY DEF Inv
  <1>2. /\ operationQueue' \in Seq(Nat) /\ asked' = asked
        /\ Done("storage")' = Done("storage") \cup {id}
    BY StorageBegins
  <1>3. StoredNewest'
    BY <1>1, <1>2, StoredPassed
  <1>4. Typed'
    <2>1. callbacks' \in Seq(Answer)
      <3>1. callbacks \in Seq(Answer)
        BY <1>1 DEF Typed
      <3> QED BY <3>1, AppendFacts
    <2>2. stored' \in [Entity -> Nat] /\ storageRoutineTerminated' \in BOOLEAN
      BY <1>1 DEF Typed
    <2> QED BY <1>1, <1>2, <2>1, <2>2, StorageTyped
  <1> QED BY <1>3, <1>4, StorageServed

LEMMA StorageReadsRight ==
  ASSUME Inv, operationQueue # <<>>, asked[id].kind \in {"load", "exists", "list"}
  PROVE  /\ id \in Nat /\ asked[id].to = "storage"
         /\ (asked[id].kind # "list" => on \in Entity)
         /\ \A e \in Entity : LastSave(e, id) = stored[e] /\ stored[e] \in Nat
  <1>1. Typed /\ Order /\ StoredNewest
    BY DEF Inv
  <1>2. /\ id \in Nat /\ asked[id].to = "storage"
        /\ Sane(asked[id].to, asked[id].kind, asked[id].on)
    BY <1>1, StorageHead
  <1>3. \A e \in Entity : LastSave(e, id) = stored[e] /\ stored[e] \in Nat
    BY <1>1, StoredRead DEF Typed
  <1> QED BY <1>2, <1>3 DEF Sane, on

LEMMA LoadInv ==
  ASSUME Inv, StorageRest, Load, UNCHANGED <<storageRoutineTerminated, lost, cut>>
  PROVE  Inv' /\ Classified
  <1> DEFINE a == [id |-> id, error |-> IF Missing("load") THEN "missing" ELSE "none",
                   value |-> stored[on], ids |-> {}]
  <1>1. /\ operationQueue # <<>> /\ asked[id].kind = "load" /\ Served /\ stored' = stored
        /\ faults' = faults /\ callbacks' = Append(callbacks, a)
        /\ \E errors : CloseOn(errors)
    BY DEF Load, Serving, id, Post
  <1>2. /\ id \in Nat /\ on \in Entity /\ asked[id].to = "storage"
        /\ LastSave(on, id) = stored[on] /\ stored[on] \in Nat
    BY <1>1, StorageReadsRight
  <1>3. a \in Answer /\ a.id = id /\ a.value = stored[on]
    BY <1>2, AnswerShape DEF Error
  <1>4. Right(a, cut')
    BY <1>1, <1>2, <1>3 DEF Right, on
  <1> HIDE DEF a
  <1>5. faults' \in 0 .. MaxFaults /\ storageEngine' \in BOOLEAN
    BY <1>1, ClosesOn DEF Inv, Typed
  <1> QED BY <1>1, <1>3, <1>4, <1>5, StorageReads

LEMMA ExistsInv ==
  ASSUME Inv, StorageRest, Exists, UNCHANGED <<storageRoutineTerminated, lost, cut>>
  PROVE  Inv' /\ Classified
  <1> DEFINE a == [id |-> id, error |-> IF Missing("exists") THEN "missing" ELSE "none",
                   value |-> IF stored[on] = 0 THEN 0 ELSE 1, ids |-> {}]
  <1>1. /\ operationQueue # <<>> /\ asked[id].kind = "exists" /\ Served /\ stored' = stored
        /\ faults' = faults /\ callbacks' = Append(callbacks, a) /\ storageEngine' = storageEngine
    BY DEF Exists, Serving, id, Post
  <1>2. /\ id \in Nat /\ on \in Entity /\ asked[id].to = "storage"
        /\ LastSave(on, id) = stored[on] /\ stored[on] \in Nat
    BY <1>1, StorageReadsRight
  <1>3. a \in Answer /\ a.id = id /\ a.value = IF stored[on] = 0 THEN 0 ELSE 1
    BY <1>2, AnswerShape DEF Error
  <1>4. Right(a, cut')
    <2>1. (a.value = 1) = (LastSave(on, id) # 0)
      BY <1>2, <1>3
    <2> QED BY <1>1, <1>2, <1>3, <2>1 DEF Right, on
  <1> HIDE DEF a
  <1>5. faults' \in 0 .. MaxFaults /\ storageEngine' \in BOOLEAN
    BY <1>1 DEF Inv, Typed
  <1> QED BY <1>1, <1>3, <1>4, <1>5, StorageReads

LEMMA ListInv ==
  ASSUME Inv, StorageRest, ListEntityIDs, UNCHANGED <<storageRoutineTerminated, lost, cut>>
  PROVE  Inv' /\ Classified
  <1> DEFINE found == {e \in Entity : stored[e] # 0}
             a == [id |-> id, error |-> "none", value |-> 0, ids |-> found]
  <1>1. /\ operationQueue # <<>> /\ asked[id].kind = "list" /\ Served /\ stored' = stored
        /\ faults' = faults /\ callbacks' = Append(callbacks, a) /\ storageEngine' = storageEngine
    BY DEF ListEntityIDs, SavedIDs, Serving, id, Post
  <1>2. /\ id \in Nat /\ asked[id].to = "storage"
        /\ \A e \in Entity : LastSave(e, id) = stored[e] /\ stored[e] \in Nat
    BY <1>1, StorageReadsRight
  <1>3. found = {e \in Entity : LastSave(e, id) # 0} /\ found \in SUBSET Entity
    BY <1>2
  <1> HIDE DEF found
  <1>4. a \in Answer /\ a.id = id /\ a.ids = found
    BY <1>2, <1>3, AnswerShape DEF Error
  <1>5. Right(a, cut')
    BY <1>1, <1>2, <1>3, <1>4 DEF Right
  <1> HIDE DEF a
  <1>6. faults' \in 0 .. MaxFaults /\ storageEngine' \in BOOLEAN
    BY <1>1 DEF Inv, Typed
  <1> QED BY <1>1, <1>4, <1>5, <1>6, StorageReads

LEMMA ListCutInv ==
  ASSUME Inv, StorageRest, ListCutShort, UNCHANGED <<storageRoutineTerminated, lost>>
  PROVE  Inv' /\ Classified
  <1>1. /\ operationQueue # <<>> /\ asked[id].kind = "list" /\ Served /\ stored' = stored
        /\ Fault \/ faults' = faults
        /\ storageEngine' = storageEngine /\ cut' = cut \cup {id}
    BY DEF ListCutShort, Serving, id
  <1>2. PICK some \in SUBSET SavedIDs :
          callbacks' = Append(callbacks,
                              [id |-> id, error |-> "none", value |-> 0, ids |-> some])
    BY DEF ListCutShort, Post
  <1> DEFINE a == [id |-> id, error |-> "none", value |-> 0, ids |-> some]
  <1>3. /\ id \in Nat /\ asked[id].to = "storage"
        /\ \A e \in Entity : LastSave(e, id) = stored[e] /\ stored[e] \in Nat
    BY <1>1, StorageReadsRight
  <1>4. some \subseteq {e \in Entity : LastSave(e, id) # 0} /\ some \in SUBSET Entity
    BY <1>3 DEF SavedIDs
  <1>5. a \in Answer /\ a.id = id /\ a.ids = some
    BY <1>3, <1>4, AnswerShape DEF Error
  <1>6. Right(a, cut')
    BY <1>1, <1>3, <1>4, <1>5 DEF Right
  <1>7. callbacks' = Append(callbacks, a)
    BY <1>2
  <1> HIDE DEF a
  <1>8. faults' \in 0 .. MaxFaults /\ storageEngine' \in BOOLEAN
    BY <1>1, FaultTyped DEF Inv, Typed
  <1> QED BY <1>1, <1>5, <1>6, <1>7, <1>8, StorageReads

LEMMA ReadFailsInv ==
  ASSUME Inv, StorageRest, ReadFails, UNCHANGED <<storageRoutineTerminated, lost, cut>>
  PROVE  Inv' /\ Classified
  <1> DEFINE a == [id |-> id, error |-> "fault", value |-> 0, ids |-> {}]
  <1>1. /\ operationQueue # <<>> /\ asked[id].kind \in {"load", "exists", "list"} /\ Served
        /\ stored' = stored /\ Fault /\ callbacks' = Append(callbacks, a)
        /\ CloseOn(backend.eof)
    BY DEF ReadFails, Serving, id, Post
  <1>2. id \in Nat /\ asked[id].to = "storage"
    BY <1>1, StorageReadsRight
  <1>3. a \in Answer /\ a.id = id /\ a.error = "fault"
    BY <1>2, AnswerShape DEF Error
  <1>4. Right(a, cut')
    BY <1>2, <1>3 DEF Right
  <1> HIDE DEF a
  <1>5. faults' \in 0 .. MaxFaults /\ storageEngine' \in BOOLEAN
    BY <1>1, FaultTyped, ClosesOn DEF Inv
  <1> QED BY <1>1, <1>3, <1>4, <1>5, StorageReads

LEMMA ReadPanicsInv ==
  ASSUME Inv, StorageRest, ReadPanics, UNCHANGED storageRoutineTerminated
  PROVE  Inv' /\ Classified
  <1>1. /\ operationQueue # <<>> /\ asked[id].kind \in {"load", "exists", "list"} /\ Served
        /\ stored' = stored /\ Fault /\ callbacks' = callbacks /\ lost' = lost \cup {id}
        /\ storageEngine' = storageEngine
    BY DEF ReadPanics, Serving, id
  <1>2. faults' \in 0 .. MaxFaults /\ storageEngine' \in BOOLEAN
    BY <1>1, FaultTyped DEF Inv, Typed
  <1> QED BY <1>1, <1>2, StorageReads

LEMMA OpenStorageInv ==
  ASSUME Inv, StorageRest, OpenStorage, UNCHANGED <<storageRoutineTerminated, lost, cut>>
  PROVE  Inv' /\ Classified
  <1>1. Typed /\ Stopping
    BY DEF Inv
  <1>2. UNCHANGED <<operationQueue, callbacks, stored, faults>> /\ storageEngine' = TRUE
    BY DEF OpenStorage
  <1>3. Typed'
    BY <1>1, <1>2, StorageTyped DEF Typed
  <1>4. Stopping'
    BY <1>1, <1>2 DEF Stopping, StorageRest
  <1> QED BY <1>2, <1>3, <1>4, PlainStep DEF Plain, StorageRest

LEMMA TerminateInv ==
  ASSUME Inv, StorageRest, Terminate, UNCHANGED lost
  PROVE  Inv' /\ Classified
  <1>1. Typed /\ Stopping
    BY DEF Inv
  <1>2. /\ UNCHANGED <<operationQueue, storageEngine, callbacks, stored, faults>>
        /\ storageRoutineTerminated' = TRUE /\ closed = TRUE /\ operationQueue = <<>>
    BY <1>1 DEF Terminate, Typed
  <1>3. Typed'
    BY <1>1, <1>2, StorageTyped DEF Typed
  <1>4. Stopping'
    BY <1>1, <1>2 DEF Stopping, StorageRest
  <1> QED BY <1>2, <1>3, <1>4, PlainStep DEF Plain, StorageRest

-----------------------------------------------------------------------------
(* The workers of the job groups                                            *)

JobRest ==
  UNCHANGED <<asked, kvBackend, operationQueue, storageEngine, backend, stored, closed,
              storageRoutineTerminated, cut, requests, main, stopping, cleared, toDestroy,
              drained, log, claims>>

LEMMA JobTyped ==
  ASSUME Typed, JobRest, callbacks' \in Seq(Answer), faults' \in 0 .. MaxFaults,
         worker' \in [Group -> {"none", "open", "closed"}],
         jobs' \in [Group -> Seq(1 .. MaxRequests)],
         engine' \in [{"kvdb", "rank"} -> BOOLEAN], kv' \in [Name -> 0 .. Foreign],
         oldVal' \in 0 .. NotRead, session' \in BOOLEAN,
         rank' \in [score : BOOLEAN, details : BOOLEAN]
  PROVE  Typed'
  BY DEF Typed, JobRest

LEMMA JobStopping ==
  ASSUME Typed, Stopping, JobRest, NEW g \in Group, jobs[g] # <<>>, Finish(g), worker' = worker
  PROVE  Stopping'
  <1>1. worker[g] # "none" /\ ~ (main = "waitclear" /\ ~ cleared)
    BY DEF Stopping
  <1>2. \A p \in Group : worker'[p] = "none" => jobs'[p] = <<>>
    <2>1. \A p \in Group : p = g \/ jobs'[p] = jobs[p]
      BY DEF Finish, Typed
    <2> QED BY <1>1, <2>1 DEF Stopping
  <1> QED BY <1>1, <1>2 DEF Stopping, JobRest

\* The head of a job channel leaves it, answered or lost.
LEMMA JobServed ==
  ASSUME Inv, JobRest, Typed', NEW g \in Group, jobs[g] # <<>>, Finish(g), worker' = worker,
         \/ /\ lost' = lost
            /\ \E a \in Answer : /\ callbacks' = Append(callbacks, a) /\ a.id = Head(jobs[g])
                                 /\ Right(a, cut')
         \/ callbacks' = callbacks /\ lost' = lost \cup {Head(jobs[g])},
         SessionOpen', Once'
  PROVE  Inv' /\ Classified
  <1>1. /\ Typed /\ Order /\ Known /\ Kept /\ StoredNewest /\ SessionOpen /\ Seen /\ Once
        /\ Stopping
    BY DEF Inv
  <1>2. /\ asked' = asked /\ operationQueue' = operationQueue /\ log' = log
        /\ stored' = stored /\ drained' = drained
    BY DEF JobRest
  <1>3. Leaves(g) /\ g \in Requester
    BY <1>1, <1>2, JobLeaves, RequesterShape
  <1>4. Grown
    BY <1>1, <1>2, SameGrown DEF JobRest
  <1>5. StoredNewest'
    <2>1. "storage" \in Requester /\ g # "storage"
      BY RequesterShape
    <2>2. Done("storage")' = Done("storage")
      BY <1>1, <1>3, <2>1, LeavesOrder
    <2> QED BY <1>1, <1>2, <1>4, <2>2, StoredStays
  <1>6. Head(jobs[g]) \in 1 .. Len(asked) /\ Head(Pending[g]) = Head(jobs[g])
    BY <1>1, JobHead
  <1>7. Stopping'
    BY <1>1, JobStopping
  <1>8. ASSUME NEW a \in Answer, callbacks' = Append(callbacks, a), a.id = Head(jobs[g]),
               Right(a, cut'), lost' = lost
        PROVE  Inv' /\ Classified
    <2>1. Replies(g, a)
      BY <1>3, <1>6, <1>8 DEF Replies
    <2>2. Classified
      BY <1>3, <2>1 DEF Classified
    <2>3. Seen'
      BY <1>1, <1>4, <1>6, <1>8, SeenNew
    <2> QED BY <1>2, <1>5, <1>7, <2>2, <2>3, Closing
  <1>9. ASSUME callbacks' = callbacks, lost' = lost \cup {Head(jobs[g])}
        PROVE  Inv' /\ Classified
    <2>1. Drops(g)
      BY <1>3, <1>6, <1>9 DEF Drops
    <2>2. Classified
      BY <1>3, <2>1 DEF Classified
    <2>3. Seen'
      BY <1>1, <1>4, <1>9, SeenStays
    <2> QED BY <1>2, <1>5, <1>7, <2>2, <2>3, Closing
  <1> QED BY <1>8, <1>9

\* What leaves the session alone leaves its history alone.
LEMMA OtherSession ==
  ASSUME Inv, JobRest, NEW g \in Group, g # "mongodb", jobs[g] # <<>>, Finish(g),
         session' = session
  PROVE  SessionOpen'
  <1>1. Typed /\ Order /\ SessionOpen
    BY DEF Inv
  <1>2. asked' = asked /\ operationQueue' = operationQueue /\ log' = log
    BY DEF JobRest
  <1>3. Leaves(g) /\ g \in Requester /\ "mongodb" \in Requester
    BY <1>1, <1>2, JobLeaves, RequesterShape DEF Group
  <1>4. Done("mongodb")' = Done("mongodb")
    BY <1>1, <1>3, LeavesOrder
  <1> QED BY <1>1, <1>2, <1>4, SameGrown, SessionStays DEF JobRest

LEMMA RunJobInv ==
  ASSUME Inv, JobRest, NEW g \in Group, RunJob(g)
  PROVE  Inv' /\ Classified
  <1>1. Typed /\ Order /\ Known /\ SessionOpen /\ Once
    BY DEF Inv
  <1> DEFINE h == Head(jobs[g])
  <1>2. PICK o \in Outcomes(g, h) :
          /\ o.error = "fault" => faults < MaxFaults
          /\ faults' = faults + (IF o.error = "fault" THEN 1 ELSE 0)
          /\ kv' = o.kv /\ session' = o.session /\ rank' = o.rank
          /\ \E eof : engine' = IF g \in DOMAIN engine /\ eof
                                THEN [engine EXCEPT ![g] = FALSE] ELSE engine
          /\ IF o.error = "panic" THEN lost' = lost \cup {h} /\ UNCHANGED callbacks
             ELSE Post(h, o.error, o.value, {}) /\ UNCHANGED lost
    BY DEF RunJob
  <1>3. /\ jobs[g] # <<>> /\ Finish(g) /\ oldVal' = IF g = "kvdb" THEN NotRead ELSE oldVal
        /\ worker' = worker /\ asked' = asked /\ claims' = claims /\ operationQueue' = operationQueue
        /\ log' = log
    BY DEF RunJob, JobRest
  <1>4. Sound(g, h, o)
    BY <1>1, <1>2, <1>3, OutcomesSound
  <1>5. h \in 1 .. Len(asked) /\ h \in Nat
    BY <1>1, <1>3, JobHead
  <1> DEFINE a == [id |-> h, error |-> o.error, value |-> o.value, ids |-> {}]
  <1>6. o.error \in Error /\ o.value \in Nat
    BY <1>4 DEF Sound
  <1>7. a \in Answer /\ a.id = h /\ a.error = o.error /\ a.value = o.value
    BY <1>5, <1>6, AnswerShape
  <1>8. \/ o.error # "panic" /\ lost' = lost /\ callbacks' = Append(callbacks, a)
        \/ o.error = "panic" /\ callbacks' = callbacks /\ lost' = lost \cup {h}
    BY <1>2 DEF Post
  <1> HIDE DEF a, h
  <1>9. g = "mongodb" => (a.error = "nosession" <=> session = FALSE)
    BY <1>4, <1>7 DEF Sound
  <1>10. Right(a, cut')
    BY <1>1, <1>3, <1>7, <1>9, JobRight DEF h
  <1>11. Typed'
    <2>1. callbacks' \in Seq(Answer)
      <3>1. callbacks \in Seq(Answer)
        BY <1>1 DEF Typed
      <3> QED BY <1>7, <1>8, <3>1, AppendFacts
    <2>2. faults' \in 0 .. MaxFaults
      BY <1>1, <1>2, LimitAssumption DEF Typed
    <2>3. jobs' \in [Group -> Seq(1 .. MaxRequests)]
      BY <1>1, <1>3, JobLeaves
    <2>4. engine' \in [{"kvdb", "rank"} -> BOOLEAN]
      <3>1. engine \in [{"kvdb", "rank"} -> BOOLEAN]
        BY <1>1 DEF Typed
      <3>2. engine' \in {engine, [engine EXCEPT ![g] = FALSE]}
        BY <1>2, Zenon
      <3> QED BY <3>1, <3>2
    <2>5. /\ kv' \in [Name -> 0 .. Foreign] /\ session' \in BOOLEAN
          /\ rank' \in [score : BOOLEAN, details : BOOLEAN]
      BY <1>2, <1>4 DEF Sound
    <2>6. oldVal' \in 0 .. NotRead
      BY <1>1, <1>3, NumberShape DEF Typed
    <2>7. worker' \in [Group -> {"none", "open", "closed"}]
      BY <1>1, <1>3 DEF Typed
    <2> QED BY <1>1, <2>1, <2>2, <2>3, <2>4, <2>5, <2>6, <2>7, JobTyped
  <1>12. SessionOpen'
    <2>1. CASE g = "mongodb"
      <3>1. Leaves(g) /\ g \in Requester /\ Pending[g] = jobs[g]
        BY <1>1, <1>3, JobLeaves, RequesterShape, PendingShape
      <3>2. Done(g)' = Done(g) \cup {h}
        BY <1>1, <3>1, LeavesOrder DEF h
      <3> QED BY <1>1, <1>2, <1>3, <1>4, <2>1, <3>2, SessionServed DEF h
    <2>2. CASE g # "mongodb"
      <3>1. session' = session
        BY <1>2, <1>4, <2>2 DEF Sound
      <3> QED BY <1>3, <2>2, <3>1, OtherSession
    <2> QED BY <2>1, <2>2
  <1>13. Once'
    <2>1. Grown
      BY <1>1, <1>3, SameGrown DEF JobRest
    <2>2. kv[Unnamed] # 0 => kv'[Unnamed] # 0
      BY <1>2, <1>4 DEF Sound
    <2>3. oldVal # 0 => oldVal' # 0
      BY <1>3, NumberShape
    <2>4. CASE o.error # "panic" /\ Claims(a)
      <3>1. /\ asked[h].to = "kvdb" /\ asked[h].kind = "getorput"
            /\ o.error = "none" /\ o.value = 0
        BY <1>7, <2>4 DEF Claims
      <3>2. g = "kvdb"
        BY <1>1, <1>3, <3>1, JobHead DEF h
      <3>3. oldVal = 0 /\ kv'[Unnamed] # 0
        BY <1>2, <1>4, <3>1, <3>2 DEF Sound
      <3>4. oldVal' # 0
        BY <1>3, <3>2, NumberShape
      <3> QED BY <1>1, <1>3, <1>5, <1>7, <1>8, <2>1, <2>4, <3>3, <3>4, OnceClaimed
    <2>5. CASE o.error # "panic" /\ ~ Claims(a)
      BY <1>1, <1>3, <1>5, <1>7, <1>8, <2>1, <2>2, <2>3, <2>5, OnceQuiet
    <2>6. CASE o.error = "panic"
      BY <1>1, <1>3, <1>8, <2>1, <2>2, <2>3, <2>6, OnceQuiet
    <2> QED BY <2>4, <2>5, <2>6
  <1> QED BY <1>3, <1>7, <1>8, <1>10, <1>11, <1>12, <1>13, JobServed DEF h

LEMMA ReadOldValInv ==
  ASSUME Inv, JobRest, ReadOldVal
  PROVE  Inv' /\ Classified
  <1>1. Typed /\ Order /\ Stopping
    BY DEF Inv
  <1> DEFINE name == asked[Head(jobs["kvdb"])].on
  <1>2. /\ jobs["kvdb"] # <<>> /\ asked[Head(jobs["kvdb"])].kind = "getorput"
        /\ oldVal' = kv[Cell(name)]
        /\ UNCHANGED <<callbacks, worker, jobs, engine, kv, session, rank, faults, lost>>
    BY DEF ReadOldVal
  <1>3. name = Unnamed
    BY <1>1, <1>2, JobHead DEF Sane, Group
  <1>4. oldVal' = kv[Unnamed]
    BY <1>2, <1>3, CellShape
  <1>5. oldVal' \in 0 .. NotRead
    BY <1>1, <1>4, CellShape, NumberShape DEF Typed
  <1>6. Typed'
    <2>1. /\ callbacks' \in Seq(Answer) /\ faults' \in 0 .. MaxFaults
          /\ worker' \in [Group -> {"none", "open", "closed"}]
          /\ jobs' \in [Group -> Seq(1 .. MaxRequests)]
          /\ engine' \in [{"kvdb", "rank"} -> BOOLEAN] /\ kv' \in [Name -> 0 .. Foreign]
          /\ session' \in BOOLEAN /\ rank' \in [score : BOOLEAN, details : BOOLEAN]
      BY <1>1, <1>2 DEF Typed
    <2> QED BY <1>1, <1>5, <2>1, JobTyped
  <1>7. Stopping'
    BY <1>1, <1>2 DEF Stopping, JobRest
  <1> QED BY <1>2, <1>4, <1>6, <1>7, PlainStep DEF Plain, JobRest

LEMMA ReadOldValFailsInv ==
  ASSUME Inv, JobRest, ReadOldValFails
  PROVE  Inv' /\ Classified
  <1>1. Typed /\ Order /\ Known /\ SessionOpen /\ Once
    BY DEF Inv
  <1> DEFINE a == [id |-> Head(jobs["kvdb"]), error |-> "fault", value |-> 0, ids |-> {}]
  <1>2. /\ jobs["kvdb"] # <<>> /\ faults < MaxFaults /\ faults' = faults + 1
        /\ \E eof : engine' = [engine EXCEPT !["kvdb"] = ~eof]
        /\ callbacks' = Append(callbacks, a) /\ Finish("kvdb")
        /\ UNCHANGED <<worker, kv, oldVal, session, rank, lost>>
    BY DEF ReadOldValFails, Post
  <1>3. "kvdb" \in Group /\ asked' = asked /\ claims' = claims
        /\ operationQueue' = operationQueue /\ log' = log
    BY DEF Group, JobRest
  <1>4. Head(jobs["kvdb"]) \in 1 .. Len(asked) /\ Head(jobs["kvdb"]) \in Nat
    BY <1>1, <1>2, <1>3, JobHead
  <1>5. a \in Answer /\ a.id = Head(jobs["kvdb"]) /\ a.error = "fault"
    BY <1>4, AnswerShape DEF Error
  <1> HIDE DEF a
  <1>6. Right(a, cut') /\ ~ Claims(a)
    BY <1>1, <1>2, <1>3, <1>5, JobRight DEF Claims
  <1>7. Typed'
    <2>1. callbacks' \in Seq(Answer)
      <3>1. callbacks \in Seq(Answer)
        BY <1>1 DEF Typed
      <3> QED BY <1>2, <1>5, <3>1, AppendFacts
    <2>2. faults' \in 0 .. MaxFaults
      BY <1>1, <1>2, LimitAssumption DEF Typed
    <2>3. jobs' \in [Group -> Seq(1 .. MaxRequests)]
      BY <1>1, <1>2, <1>3, JobLeaves
    <2>4. engine' \in [{"kvdb", "rank"} -> BOOLEAN]
      <3>1. engine \in [{"kvdb", "rank"} -> BOOLEAN]
        BY <1>1 DEF Typed
      <3>2. PICK eof : engine' = [engine EXCEPT !["kvdb"] = ~eof]
        BY <1>2
      <3> QED BY <3>1, <3>2
    <2>5. /\ worker' \in [Group -> {"none", "open", "closed"}]
          /\ kv' \in [Name -> 0 .. Foreign] /\ oldVal' \in 0 .. NotRead
          /\ session' \in BOOLEAN /\ rank' \in [score : BOOLEAN, details : BOOLEAN]
      BY <1>1, <1>2 DEF Typed
    <2> QED BY <1>1, <2>1, <2>2, <2>3, <2>4, <2>5, JobTyped
  <1>8. SessionOpen'
    BY <1>2, <1>3, OtherSession
  <1>9. Once'
    BY <1>1, <1>2, <1>3, <1>4, <1>5, <1>6, SameGrown, OnceQuiet DEF JobRest
  <1> QED BY <1>2, <1>3, <1>5, <1>6, <1>7, <1>8, <1>9, JobServed

LEMMA OpenEngineInv ==
  ASSUME Inv, JobRest, NEW g \in DOMAIN engine, OpenEngine(g)
  PROVE  Inv' /\ Classified
  <1>1. Typed /\ Stopping
    BY DEF Inv
  <1>2. /\ engine' = [engine EXCEPT ![g] = TRUE]
        /\ UNCHANGED <<callbacks, worker, jobs, kv, oldVal, session, rank, faults, lost>>
    BY DEF OpenEngine
  <1>3. Typed'
    <2>1. /\ callbacks' \in Seq(Answer) /\ faults' \in 0 .. MaxFaults
          /\ worker' \in [Group -> {"none", "open", "closed"}]
          /\ jobs' \in [Group -> Seq(1 .. MaxRequests)]
          /\ kv' \in [Name -> 0 .. Foreign] /\ oldVal' \in 0 .. NotRead
          /\ session' \in BOOLEAN /\ rank' \in [score : BOOLEAN, details : BOOLEAN]
      BY <1>1, <1>2 DEF Typed
    <2>2. engine' \in [{"kvdb", "rank"} -> BOOLEAN]
      BY <1>1, <1>2 DEF Typed
    <2> QED BY <1>1, <2>1, <2>2, JobTyped
  <1>4. Stopping'
    BY <1>1, <1>2 DEF Stopping, JobRest
  <1> QED BY <1>2, <1>3, <1>4, PlainStep DEF Plain, JobRest

LEMMA OpenEnginePanicsInv ==
  ASSUME Inv, JobRest, NEW g \in DOMAIN engine, OpenEnginePanics(g)
  PROVE  Inv' /\ Classified
  <1>1. Typed /\ Order /\ Known /\ SessionOpen /\ Once
    BY DEF Inv
  <1>2. /\ jobs[g] # <<>> /\ faults < MaxFaults /\ faults' = faults + 1
        /\ lost' = lost \cup {Head(jobs[g])} /\ Finish(g)
        /\ UNCHANGED <<callbacks, worker, engine, kv, oldVal, session, rank>>
    BY DEF OpenEnginePanics
  <1>3. g \in Group /\ g # "mongodb"
    BY <1>1 DEF Typed, Group
  <1>4. asked' = asked /\ claims' = claims /\ operationQueue' = operationQueue /\ log' = log
    BY DEF JobRest
  <1>5. Typed'
    <2>1. /\ callbacks' \in Seq(Answer)
          /\ worker' \in [Group -> {"none", "open", "closed"}]
          /\ engine' \in [{"kvdb", "rank"} -> BOOLEAN]
          /\ kv' \in [Name -> 0 .. Foreign] /\ oldVal' \in 0 .. NotRead
          /\ session' \in BOOLEAN /\ rank' \in [score : BOOLEAN, details : BOOLEAN]
      BY <1>1, <1>2 DEF Typed
    <2>2. faults' \in 0 .. MaxFaults
      BY <1>1, <1>2, LimitAssumption DEF Typed
    <2>3. jobs' \in [Group -> Seq(1 .. MaxRequests)]
      BY <1>1, <1>2, <1>3, <1>4, JobLeaves
    <2> QED BY <1>1, <2>1, <2>2, <2>3, JobTyped
  <1>6. SessionOpen'
    BY <1>2, <1>3, OtherSession
  <1>7. Once'
    BY <1>1, <1>2, <1>4, SameGrown, OnceQuiet DEF JobRest
  <1> QED BY <1>2, <1>3, <1>5, <1>6, <1>7, JobServed

LEMMA WorkerQuitsInv ==
  ASSUME Inv, JobRest, NEW g \in Group, WorkerQuits(g)
  PROVE  Inv' /\ Classified
  <1>1. Typed /\ Stopping
    BY DEF Inv
  <1>2. /\ worker[g] = "closed" /\ jobs[g] = <<>> /\ worker' = [worker EXCEPT ![g] = "none"]
        /\ UNCHANGED <<callbacks, jobs, engine, kv, oldVal, session, rank, faults, lost>>
    BY DEF WorkerQuits
  <1>3. worker \in [Group -> {"none", "open", "closed"}]
    BY <1>1 DEF Typed
  <1>4. /\ worker' \in [Group -> {"none", "open", "closed"}]
        /\ \A p \in Group : worker'[p] = IF p = g THEN "none" ELSE worker[p]
    BY <1>2, <1>3
  <1>5. Typed'
    <2>1. /\ callbacks' \in Seq(Answer) /\ faults' \in 0 .. MaxFaults
          /\ engine' \in [{"kvdb", "rank"} -> BOOLEAN]
          /\ jobs' \in [Group -> Seq(1 .. MaxRequests)]
          /\ kv' \in [Name -> 0 .. Foreign] /\ oldVal' \in 0 .. NotRead
          /\ session' \in BOOLEAN /\ rank' \in [score : BOOLEAN, details : BOOLEAN]
      BY <1>1, <1>2 DEF Typed
    <2> QED BY <1>1, <1>4, <2>1, JobTyped
  <1>6. Stopping'
    BY <1>1, <1>2, <1>4 DEF Stopping, JobRest
  <1> QED BY <1>2, <1>5, <1>6, PlainStep DEF Plain, JobRest

LEMMA ForeignPutInv ==
  ASSUME Inv, JobRest, ForeignPut
  PROVE  Inv' /\ Classified
  <1>1. Typed /\ Stopping
    BY DEF Inv
  <1>2. UNCHANGED <<callbacks, worker, jobs, engine, oldVal, session, rank, faults, lost>>
    BY DEF ForeignPut
  <1>3. PICK n \in Name : kv' = [kv EXCEPT ![Cell(n)] = Foreign]
    BY DEF ForeignPut
  <1>4. kv' \in [Name -> 0 .. Foreign] /\ (kv[Unnamed] # 0 => kv'[Unnamed] # 0)
    <2>1. kv \in [Name -> 0 .. Foreign] /\ Foreign \in 0 .. Foreign /\ Foreign # 0
      BY <1>1, NumberShape DEF Typed
    <2> QED BY <1>3, <2>1, CellShape
  <1>5. Typed'
    <2>1. /\ callbacks' \in Seq(Answer) /\ faults' \in 0 .. MaxFaults
          /\ worker' \in [Group -> {"none", "open", "closed"}]
          /\ engine' \in [{"kvdb", "rank"} -> BOOLEAN]
          /\ jobs' \in [Group -> Seq(1 .. MaxRequests)] /\ oldVal' \in 0 .. NotRead
          /\ session' \in BOOLEAN /\ rank' \in [score : BOOLEAN, details : BOOLEAN]
      BY <1>1, <1>2 DEF Typed
    <2> QED BY <1>1, <1>4, <2>1, JobTyped
  <1>6. Stopping'
    BY <1>1, <1>2 DEF Stopping, JobRest
  <1> QED BY <1>2, <1>4, <1>5, <1>6, PlainStep DEF Plain, JobRest

-----------------------------------------------------------------------------
(* The invariant                                                            *)

LEMMA InitInv ==
  ASSUME Init
  PROVE  Inv
  <1>1. /\ asked = <<>> /\ callbacks = <<>> /\ faults = 0 /\ log = <<>> /\ claims = 0
        /\ worker = [g \in Group |-> "none"] /\ jobs = [g \in Group |-> <<>>]
        /\ engine = [g \in {"kvdb", "rank"} |-> TRUE] /\ kv = [n \in Name |-> 0]
        /\ oldVal = NotRead /\ session = TRUE /\ rank = [score |-> FALSE, details |-> FALSE]
        /\ lost = {} /\ operationQueue = <<>> /\ storageEngine = TRUE
        /\ stored = [e \in Entity |-> 0] /\ closed = FALSE /\ storageRoutineTerminated = FALSE
        /\ cut = {}
        /\ main = "running" /\ stopping = "none" /\ cleared = FALSE /\ toDestroy = {}
        /\ drained = 0
    BY DEF Init, JobInit, StorageInit
  <1>2. backend \in StorageBackends /\ kvBackend \in KvBackends /\ requests \subseteq Askable
    BY DeploymentAssumption DEF Init
  <1>3. Typed
    <2>1. \A g \in Group : jobs[g] \in Seq(1 .. MaxRequests)
      BY <1>1
    <2>2. jobs \in [Group -> Seq(1 .. MaxRequests)]
      BY <1>1, <2>1
    <2>3. /\ kv \in [Name -> 0 .. Foreign] /\ oldVal \in 0 .. NotRead /\ faults \in 0 .. MaxFaults
      BY <1>1, NumberShape
    <2>4. /\ worker \in [Group -> {"none", "open", "closed"}]
          /\ engine \in [{"kvdb", "rank"} -> BOOLEAN] /\ stored \in [Entity -> Nat]
          /\ rank \in [score : BOOLEAN, details : BOOLEAN]
      BY <1>1
    <2>5. /\ asked \in Seq(Ticket) /\ callbacks \in Seq(Answer) /\ log \in Seq(Nat)
          /\ operationQueue \in Seq(Nat)
      BY <1>1
    <2> QED BY <1>1, <1>2, <2>2, <2>3, <2>4, <2>5 DEF Typed, Modes
  <1>4. \A q \in Requester : Pending[q] = <<>>
    BY <1>1, <1>3, PendingShape, RequesterShape
  <1>5. Order
    <2>1. ASSUME NEW q \in Requester PROVE Queued(asked, q, <<>>)
      BY <1>1 DEF Queued
    <2> QED BY <1>4, <2>1 DEF Order
  <1>6. \A q \in Requester : Done(q) = {}
    BY <1>1 DEF Done, DoneOf
  <1>7. Ids = {} /\ Range(log) = {}
    BY <1>1 DEF Ids, Range
  <1>8. Known /\ Kept
    BY <1>1, <1>6, <1>7, RequesterShape DEF Known, Kept
  <1>9. StoredNewest
    BY <1>1, <1>6, RequesterShape DEF StoredNewest, Newest
  <1>10. SessionOpen
    BY <1>1, <1>6 DEF SessionOpen, Requester, Group
  <1>11. Seen /\ Once
    BY <1>1 DEF Seen, Once
  <1>12. Stopping
    <2>1. Cardinality(toDestroy) = 0 /\ Cardinality(Entity) \in Nat /\ Len(asked) = 0
      BY <1>1, LimitAssumption, FS_EmptySet, FS_CardinalityType
    <2> QED BY <1>1, <2>1, LimitAssumption DEF Stopping
  <1>13. Drained
    BY <1>1 DEF Drained
  <1> QED BY <1>3, <1>5, <1>8, <1>9, <1>10, <1>11, <1>12, <1>13 DEF Inv

LEMMA StorageStepInv ==
  ASSUME Inv, StorageStep, UNCHANGED mainVars
  PROVE  Inv' /\ Classified
  <1>1. cut \subseteq cut' /\ cut' \subseteq 1 .. Len(asked)
    <2>1. Typed /\ Order
      BY DEF Inv
    <2>2. cut \subseteq 1 .. Len(asked)
      BY <2>1 DEF Typed
    <2>3. CASE UNCHANGED cut
      BY <2>2, <2>3
    <2>4. CASE ListCutShort
      <3>1. operationQueue # <<>> /\ cut' = cut \cup {id}
        BY <2>4 DEF ListCutShort, Serving
      <3>2. id \in 1 .. Len(asked)
        BY <2>1, <3>1, StorageHead
      <3> QED BY <2>2, <3>1, <3>2
    <2> QED BY <2>3, <2>4, Zenon DEF StorageStep
  <1>2. StorageRest
    BY <1>1 DEF StorageStep, StorageRest, mainVars
  <1> QED BY <1>2, WriteInv, WriteFailsInv, LoadInv, ExistsInv, ListInv, ListCutInv, ReadFailsInv,
             ReadPanicsInv, OpenStorageInv, TerminateInv DEF StorageStep

LEMMA JobStepInv ==
  ASSUME Inv, JobStep \/ ForeignPut, UNCHANGED storageVars, UNCHANGED mainVars
  PROVE  Inv' /\ Classified
  <1>1. asked' = asked /\ kvBackend' = kvBackend
    BY DEF JobStep, ReadOldVal, ReadOldValFails, RunJob, WorkerQuits, OpenEngine,
           OpenEnginePanics, ForeignPut
  <1>2. JobRest
    BY <1>1 DEF JobRest, storageVars, mainVars
  <1> QED BY <1>2, ReadOldValInv, ReadOldValFailsInv, RunJobInv, WorkerQuitsInv, OpenEngineInv,
             OpenEnginePanicsInv, ForeignPutInv DEF JobStep

\* The inductive invariant, and that every step asks, answers, drops, runs an answer
\* or does none of these: the main routine, the storage routine, the workers of the
\* job groups and another game take their steps in any order.
THEOREM Inductive ==
  Inv /\ [Next]_vars => Inv' /\ Classified
  <1> SUFFICES ASSUME Inv, [Next]_vars PROVE Inv' /\ Classified
    OBVIOUS
  <1>1. CASE HandlerAsks
    BY <1>1, HandlerAsksInv
  <1>2. CASE Stop
    BY <1>2, StopInv
  <1>3. CASE MainStep
    BY <1>3, TickInv, PostsCompleteInv, ClearedSomeInv, StartDestroyingInv, OnDestroyAsksInv,
       DestroyEntityInv, TerminatedInv, FreezedInv, FreezeFailsInv, CloseStorageInv, ExitInv
       DEF MainStep
  <1>4. CASE Services
    BY <1>4, JobStepInv, StorageStepInv DEF Services
  <1>5. CASE Foreigner
    BY <1>5, JobStepInv DEF Foreigner
  <1>6. CASE UNCHANGED vars
    <2>1. UNCHANGED <<asked, callbacks, faults, worker, jobs, engine, kvBackend, kv, oldVal,
                      session, rank, lost, operationQueue, storageEngine, backend, stored,
                      closed, storageRoutineTerminated, cut, requests, main, stopping, cleared,
                      toDestroy, drained, log, claims>>
      BY <1>6 DEF vars, jobVars, storageVars, mainVars
    <2>2. Typed' /\ Stopping'
      BY <2>1 DEF Inv, Typed, Stopping
    <2> QED BY <2>1, <2>2, PlainStep DEF Plain
  <1> QED BY <1>1, <1>2, <1>3, <1>4, <1>5, <1>6 DEF Next

LEMMA SpecInv == Spec => []Inv
  BY InitInv, Inductive, PTL DEF Spec

-----------------------------------------------------------------------------
(* What follows                                                             *)

\* Every number in a queue and every lost one is that of a request, stored values
\* are numbers of requests, a group without worker has no job, and the rest keeps
\* its type.
THEOREM PersistenceTypeCorrect ==
  Spec => []PersistenceTypeOK
  <1>1. ASSUME Inv PROVE PersistenceTypeOK
    <2>1. /\ Typed /\ Order /\ Known /\ StoredNewest /\ Stopping
      BY <1>1 DEF Inv
    <2>2. DOMAIN asked = 1 .. Len(asked) /\ Len(asked) \in Nat
          /\ \A n \in 1 .. Len(asked) : asked[n] \in Ticket
      BY <2>1 DEF Typed
    <2>3. \A n \in DOMAIN asked : asked[n].to \in Requester
      BY <2>2, TicketShape DEF Sane
    <2>4. \A q \in Requester : Range(Pending[q]) \subseteq DOMAIN asked
      <3> SUFFICES ASSUME NEW q \in Requester PROVE Range(Pending[q]) \subseteq DOMAIN asked
        OBVIOUS
      <3>1. Pending[q] \in Seq(1 .. Len(asked))
        BY <2>1 DEF Order, Queued
      <3> QED BY <2>2, <3>1 DEF Range
    <2>5. Range(operationQueue) \cup UNION {Range(jobs[g]) : g \in Group} \subseteq DOMAIN asked
      BY <2>1, <2>4, PendingShape, RequesterShape
    <2>6. ASSUME NEW e \in Entity PROVE stored[e] \in 0 .. Len(asked)
      <3>1. stored[e] = 0 \/ stored[e] \in Done("storage")
              \/ (operationQueue # <<>> /\ stored[e] = Head(operationQueue))
        BY <2>1 DEF StoredNewest, Newest
      <3>2. CASE stored[e] = 0
        BY <2>2, <3>2
      <3>3. CASE stored[e] \in Done("storage")
        BY <2>2, <3>3, DoneShape
      <3>4. CASE operationQueue # <<>> /\ stored[e] = Head(operationQueue)
        <4>1. Head(operationQueue) \in 1 .. Len(asked)
          BY <2>1, <3>4, StorageHead DEF id
        <4> QED BY <2>2, <3>4, <4>1
      <3> QED BY <3>1, <3>2, <3>3, <3>4
    <2>7. stored \in [Entity -> 0 .. Len(asked)]
      BY <2>1, <2>6 DEF Typed
    <2>8. lost \cup cut \subseteq DOMAIN asked
      BY <2>1, <2>2 DEF Known, Typed
    <2> QED BY <2>1, <2>3, <2>5, <2>7, <2>8 DEF PersistenceTypeOK, Typed, Stopping
  <1> QED BY <1>1, SpecInv, PTL

\* A load and an existence check that do not fail see the last save requested before
\* them and none requested after, although saves fail, reach the backend nevertheless
\* and are tried again; a list of IDs names no other entity than those saved before
\* it, and each of them unless it fails or the backend ends it early without an error
\* (rows.Err, Glob, SCAN of a cluster); an operation of a MongoDB handle finds the
\* session closed if and only if a Close came first (storageRoutine,
\* MongoDB.checkConnected).
THEOREM AnswersSeeEarlierAlways ==
  Spec => []AnswersSeeEarlierRequests
  <1>1. ASSUME Inv PROVE AnswersSeeEarlierRequests
    <2>1. Seen /\ DOMAIN callbacks = 1 .. Len(callbacks)
      BY <1>1 DEF Inv, Typed
    <2> QED BY <2>1 DEF Seen, Right, AnswersSeeEarlierRequests
  <1> QED BY <1>1, SpecInv, PTL

\* A game that exits leaves in the backend the last save requested of every entity,
\* and every job requested before it was drained has answered to the main routine or
\* panicked (doTerminate, doFreeze, WaitClear, storage.Shutdown).
THEOREM ExitLosesNothingAlways ==
  Spec => []ExitLosesNothing
  <1>1. ASSUME Inv, main = "exited" PROVE ExitLosesNothing
    <2>1. Typed /\ Order /\ StoredNewest /\ Stopping /\ Drained
      BY <1>1 DEF Inv
    <2>2. operationQueue = <<>>
      BY <1>1, <2>1 DEF Stopping
    <2>3. Done("storage") = {m \in 1 .. Len(asked) : asked[m].to = "storage"}
      BY <2>1, <2>2, DoneAll, PendingShape DEF Done
    <2>4. ASSUME NEW e \in Entity PROVE stored[e] = LastSave(e, Len(asked) + 1)
      <3>1. stored[e] \in Nat /\ Len(asked) + 1 \in Nat /\ Len(asked) + 1 - 1 = Len(asked)
        BY <2>1 DEF Typed
      <3>2. Newest(e, stored[e], Done("storage"))
        BY <2>1, <2>2 DEF StoredNewest
      <3>3. /\ stored[e] = 0 \/ (stored[e] \in 1 .. Len(asked) /\ IsSaveOf(asked[stored[e]], e))
            /\ \A m \in 1 .. Len(asked) : IsSaveOf(asked[m], e) => m <= stored[e]
        BY <2>3, <3>2 DEF Newest, IsSaveOf
      <3> QED BY <3>1, <3>3, LastSaveIs
    <2> QED BY <2>1, <2>4 DEF ExitLosesNothing, Drained
  <1>2. Inv => ExitLosesNothing
    BY <1>1 DEF ExitLosesNothing
  <1> QED BY <1>2, SpecInv, PTL

\* Of all GetOrPut of a key at most one finds it empty, whatever the other games
\* write and whatever fails (kvdb.GetOrPut run by one worker).
THEOREM ClaimOnceAlways ==
  Spec => []ClaimOnce
  <1>1. ASSUME Inv PROVE ClaimOnce
    <2> DEFINE S == {i \in DOMAIN callbacks : Claims(callbacks[i])}
    <2>1. Once /\ DOMAIN callbacks = 1 .. Len(callbacks)
      BY <1>1 DEF Inv, Typed
    <2>2. CASE S = {}
      <3>1. Cardinality(S) = 0
        BY <2>2, FS_EmptySet
      <3>2. claims + 0 <= 1
        BY <2>1 DEF Once
      <3> HIDE DEF S
      <3>3. claims + Cardinality(S) <= 1
        BY <3>1, <3>2
      <3> QED BY <3>3 DEF ClaimOnce, S
    <2>3. CASE S # {}
      <3>1. PICK i : i \in S
        BY <2>3
      <3>2. S = {i} /\ claims = 0
        BY <2>1, <3>1 DEF Once
      <3>3. Cardinality(S) = 1
        BY <3>2, FS_Singleton
      <3> QED BY <3>2, <3>3 DEF ClaimOnce
    <2> QED BY <2>2, <2>3
  <1> QED BY <1>1, SpecInv, PTL

-----------------------------------------------------------------------------
(* The abstract specification                                               *)

\* The answers told to the main routine: those it ran, and those it has still to run.
ToldBy(l, c) == l \o [i \in DOMAIN c |-> c[i].id]
Told == ToldBy(log, callbacks)

LEMMA ToldShape ==
  ASSUME NEW l \in Seq(Nat), NEW c \in Seq(Answer)
  PROVE  /\ ToldBy(l, c) \in Seq(Nat) /\ Len(ToldBy(l, c)) = Len(l) + Len(c)
         /\ Len(l) \in Nat /\ Len(c) \in Nat
         /\ \A i \in 1 .. Len(l) : ToldBy(l, c)[i] = l[i]
         /\ \A i \in 1 .. Len(c) : ToldBy(l, c)[Len(l) + i] = c[i].id
  <1> DEFINE ids == [i \in DOMAIN c |-> c[i].id]
  <1>1. DOMAIN c = 1 .. Len(c) /\ Len(c) \in Nat /\ Len(l) \in Nat
    OBVIOUS
  <1>2. \A i \in 1 .. Len(c) : c[i].id \in Nat
    <2>1. \A i \in 1 .. Len(c) : c[i] \in Answer
      OBVIOUS
    <2> QED BY <2>1 DEF Answer
  <1>3. ids \in Seq(Nat) /\ Len(ids) = Len(c) /\ \A i \in 1 .. Len(c) : ids[i] = c[i].id
    BY <1>1, <1>2
  <1> HIDE DEF ids
  <1>4. /\ l \o ids \in Seq(Nat) /\ Len(l \o ids) = Len(l) + Len(ids)
        /\ \A i \in 1 .. Len(l) : (l \o ids)[i] = l[i]
    <2>1. l \o ids \in Seq(Nat)
      BY <1>3
    <2>2. /\ Len(l \o ids) = Len(l) + Len(ids)
          /\ \A i \in 1 .. Len(l) + Len(ids) :
               (l \o ids)[i] = IF i <= Len(l) THEN l[i] ELSE ids[i - Len(l)]
      BY <1>3, ConcatProperties
    <2>3. \A i \in 1 .. Len(l) : (l \o ids)[i] = l[i]
      BY <1>1, <1>3, <2>2
    <2> QED BY <2>1, <2>2, <2>3
  <1>5. \A i \in 1 .. Len(ids) : (l \o ids)[Len(l) + i] = ids[i]
    BY <1>1, <1>3
  <1> QED BY <1>1, <1>3, <1>4, <1>5 DEF ToldBy, ids

LEMMA SameSeq ==
  ASSUME NEW s \in Seq(Nat), NEW t \in Seq(Nat), Len(s) = Len(t),
         \A i \in 1 .. Len(s) : s[i] = t[i]
  PROVE  s = t
  OBVIOUS

\* Running an answer tells nothing new.
LEMMA ToldRuns ==
  ASSUME Typed, Typed', Runs
  PROVE  Told' = Told
  <1>1. /\ callbacks \in Seq(Answer) /\ log \in Seq(Nat) /\ callbacks # <<>>
        /\ callbacks' = Tail(callbacks) /\ log' = Append(log, Head(callbacks).id)
    BY DEF Typed, Runs
  <1>2. /\ Len(callbacks') = Len(callbacks) - 1 /\ Len(callbacks) \in Nat \ {0}
        /\ \A i \in 1 .. Len(callbacks') : callbacks'[i] = callbacks[i + 1]
        /\ Head(callbacks) = callbacks[1] /\ Head(callbacks) \in Answer
    BY <1>1, TailFacts
  <1>3. /\ Len(log') = Len(log) + 1 /\ Len(log) \in Nat
        /\ \A i \in 1 .. Len(log) : log'[i] = log[i]
        /\ log'[Len(log) + 1] = callbacks[1].id
    BY <1>1, <1>2, AppendFacts DEF Answer
  <1>4. /\ Told' \in Seq(Nat) /\ Len(Told') = Len(log') + Len(callbacks')
        /\ \A i \in 1 .. Len(log') : Told'[i] = log'[i]
        /\ \A i \in 1 .. Len(callbacks') : Told'[Len(log') + i] = callbacks'[i].id
    <2>1. log' \in Seq(Nat) /\ callbacks' \in Seq(Answer)
      BY DEF Typed
    <2>2. Told' = ToldBy(log', callbacks')
      BY DEF Told, ToldBy
    <2> QED BY <2>1, <2>2, ToldShape
  <1>5. /\ Told \in Seq(Nat) /\ Len(Told) = Len(log) + Len(callbacks)
        /\ \A i \in 1 .. Len(log) : Told[i] = log[i]
        /\ \A i \in 1 .. Len(callbacks) : Told[Len(log) + i] = callbacks[i].id
    BY ToldShape DEF Told, Typed
  <1>6. Len(Told') = Len(Told)
    BY <1>2, <1>3, <1>4, <1>5
  <1>7. ASSUME NEW i \in 1 .. Len(Told) PROVE Told'[i] = Told[i]
    <2>1. CASE i \in 1 .. Len(log)
      BY <1>3, <1>4, <1>5, <2>1
    <2>2. CASE i = Len(log) + 1
      <3>1. 1 \in 1 .. Len(callbacks) /\ i \in 1 .. Len(log')
        BY <1>2, <1>3, <2>2
      <3> QED BY <1>3, <1>4, <1>5, <2>2, <3>1
    <2>3. CASE i \notin 1 .. (Len(log) + 1)
      <3> DEFINE j == i - (Len(log) + 1)
      <3>1. /\ j \in 1 .. Len(callbacks') /\ j + 1 \in 1 .. Len(callbacks)
            /\ i = Len(log') + j /\ i = Len(log) + (j + 1)
        BY <1>2, <1>3, <1>5, <2>3
      <3> HIDE DEF j
      <3>2. Told'[i] = callbacks'[j].id
        BY <1>4, <3>1
      <3>3. Told[i] = callbacks[j + 1].id
        BY <1>5, <3>1
      <3> QED BY <1>2, <3>1, <3>2, <3>3
    <2> QED BY <1>3, <2>1, <2>2, <2>3
  <1> QED BY <1>4, <1>5, <1>6, <1>7, SameSeq

LEMMA ToldReplies ==
  ASSUME Typed, Typed', NEW a \in Answer, callbacks' = Append(callbacks, a), log' = log
  PROVE  Told' = Append(Told, a.id)
  <1>1. /\ Len(callbacks') = Len(callbacks) + 1 /\ Len(callbacks) \in Nat /\ Len(log) \in Nat
        /\ \A i \in 1 .. Len(callbacks) : callbacks'[i] = callbacks[i]
        /\ callbacks'[Len(callbacks) + 1] = a
    BY AppendFacts DEF Typed
  <1>2. /\ Told' \in Seq(Nat) /\ Len(Told') = Len(log') + Len(callbacks')
        /\ \A i \in 1 .. Len(log') : Told'[i] = log'[i]
        /\ \A i \in 1 .. Len(callbacks') : Told'[Len(log') + i] = callbacks'[i].id
    <2>1. log' \in Seq(Nat) /\ callbacks' \in Seq(Answer)
      BY DEF Typed
    <2>2. Told' = ToldBy(log', callbacks')
      BY DEF Told, ToldBy
    <2> QED BY <2>1, <2>2, ToldShape
  <1>3. /\ Told \in Seq(Nat) /\ Len(Told) = Len(log) + Len(callbacks)
        /\ \A i \in 1 .. Len(log) : Told[i] = log[i]
        /\ \A i \in 1 .. Len(callbacks) : Told[Len(log) + i] = callbacks[i].id
    BY ToldShape DEF Told, Typed
  <1>4. /\ Append(Told, a.id) \in Seq(Nat) /\ Len(Append(Told, a.id)) = Len(Told) + 1
        /\ \A i \in 1 .. Len(Told) : Append(Told, a.id)[i] = Told[i]
        /\ Append(Told, a.id)[Len(Told) + 1] = a.id
    <2>1. a.id \in Nat /\ Told \in Seq(Nat)
      BY <1>3 DEF Answer
    <2> QED BY <2>1, AppendFacts
  <1>5. Len(Told') = Len(Told) + 1 /\ Len(Told) = Len(log) + Len(callbacks) /\ Len(log') = Len(log)
    BY <1>1, <1>2, <1>3
  <1>6. ASSUME NEW i \in 1 .. (Len(Told) + 1) PROVE Told'[i] = Append(Told, a.id)[i]
    <2>1. CASE i \in 1 .. Len(log)
      <3>1. i \in 1 .. Len(Told)
        BY <1>1, <1>5, <2>1
      <3>2. Told[i] = log[i]
        BY <1>3, <2>1
      <3>3. Told'[i] = log[i]
        BY <1>2, <2>1
      <3> QED BY <1>4, <3>1, <3>2, <3>3
    <2>2. CASE i = Len(Told) + 1
      <3>1. Len(callbacks) + 1 \in 1 .. Len(callbacks') /\ i = Len(log) + (Len(callbacks) + 1)
        BY <1>1, <1>5, <2>2
      <3>2. Told'[i] = callbacks'[Len(callbacks) + 1].id
        BY <1>2, <1>5, <3>1
      <3> QED BY <1>1, <1>4, <2>2, <3>2
    <2>3. CASE i \notin 1 .. Len(log) /\ i # Len(Told) + 1
      <3> DEFINE j == i - Len(log)
      <3>1. /\ j \in 1 .. Len(callbacks) /\ j \in 1 .. Len(callbacks') /\ i = Len(log) + j
            /\ i \in 1 .. Len(Told)
        BY <1>1, <1>5, <2>3
      <3> HIDE DEF j
      <3>2. Told'[i] = callbacks'[j].id /\ Told[i] = callbacks[j].id
        BY <1>2, <1>3, <1>5, <3>1
      <3> QED BY <1>1, <1>4, <3>1, <3>2
    <2> QED BY <2>1, <2>2, <2>3
  <1> QED BY <1>2, <1>4, <1>5, <1>6, SameSeq

LEMMA ClassifiedMaps ==
  ASSUME Inv, Inv', Classified
  PROVE  [A!Next]_(A!vars)
  <1>1. Typed /\ Typed' /\ Stopping'
    BY DEF Inv
  <1>2. CASE \E q \in Requester : Asks(q) /\ (Runs \/ Idle)
    <2>1. PICK q \in Requester : Asks(q) /\ (Runs \/ Idle)
      BY <1>2
    <2>2. Told' = Told
      BY <1>1, <2>1, ToldRuns DEF Idle, Told, ToldBy
    <2>3. Len(asked') = Len(asked) + 1 /\ Len(asked) \in Nat
      BY <2>1, AsksOrder DEF Inv
    <2>4. Len(asked) + 1 <= MaxRequests + Cardinality(Entity)
      <3>1. Cardinality(toDestroy') \in Nat
        BY <1>1, LimitAssumption, FS_Subset, FS_CardinalityType DEF Typed
      <3>2. Len(asked') + Cardinality(toDestroy') <= MaxRequests + Cardinality(Entity)
        BY <1>1 DEF Stopping
      <3>3. MaxRequests + Cardinality(Entity) \in Nat
        BY <1>1, LimitAssumption, LeftToDestroy
      <3> QED BY <2>3, <3>1, <3>2, <3>3
    <2>5. A!Ask(q)
      BY <2>1, <2>2, <2>3, <2>4 DEF Asks, A!Ask, Told, ToldBy
    <2> QED BY <2>5 DEF A!Next
  <1>3. ASSUME NEW q \in Requester, NEW a \in Answer, Replies(q, a) PROVE A!Next
    <2>1. Told' = Append(Told, Head(Pending[q])) /\ asked' = asked
      BY <1>1, <1>3, ToldReplies DEF Replies, Leaves
    <2>2. A!Answer(q)
      BY <1>3, <2>1 DEF Replies, Leaves, A!Answer, Told, ToldBy
    <2> QED BY <2>2 DEF A!Next
  <1>4. ASSUME NEW q \in Requester, Drops(q) PROVE A!Next
    <2>1. Told' = Told /\ asked' = asked
      BY <1>4 DEF Drops, Leaves, Told, ToldBy
    <2>2. A!Drop(q)
      BY <1>4, <2>1 DEF Drops, Leaves, A!Drop, Told, ToldBy
    <2> QED BY <2>2 DEF A!Next
  <1>5. CASE Rests /\ (Runs \/ Idle)
    <2>1. Told' = Told
      BY <1>1, <1>5, ToldRuns DEF Idle, Told, ToldBy
    <2> QED BY <1>5, <2>1 DEF Rests, Told, ToldBy, A!vars
  <1> QED BY <1>2, <1>3, <1>4, <1>5 DEF Classified

\* The storage and the job groups implement module Async: each queue answers its
\* requests in the order they were made and each at most once, through faults,
\* panics, reconnections, drained and restarted workers and failed freezes.
THEOREM AnswersInOrderAlways ==
  Spec => AnswersInOrder
  <1>1. Init => A!Init
    <2> SUFFICES ASSUME Init PROVE A!Init
      OBVIOUS
    <2>1. /\ asked = <<>> /\ callbacks = <<>> /\ log = <<>> /\ operationQueue = <<>>
          /\ jobs = [g \in Group |-> <<>>]
      BY DEF Init, JobInit, StorageInit
    <2>2. Pending = [q \in Requester |-> <<>>]
      BY <2>1, RequesterShape DEF Pending
    <2>3. Told = <<>>
      <3>1. Typed
        BY InitInv DEF Inv
      <3>2. Told \in Seq(Nat) /\ Len(Told) = 0
        <4>1. callbacks \in Seq(Answer) /\ log \in Seq(Nat) /\ Len(callbacks) = 0 /\ Len(log) = 0
          BY <2>1, <3>1 DEF Typed
        <4>2. /\ ToldBy(log, callbacks) \in Seq(Nat)
              /\ Len(ToldBy(log, callbacks)) = Len(log) + Len(callbacks)
          BY <4>1, ToldShape
        <4> QED BY <4>1, <4>2 DEF Told
      <3> QED BY <3>2
    <2>4. Len(asked) + 1 = 1
      BY <2>1
    <2> QED BY <2>2, <2>3, <2>4 DEF A!Init, Told, ToldBy
  <1>2. Inv /\ Inv' /\ [Next]_vars => [A!Next]_(A!vars)
    BY Inductive, ClassifiedMaps
  <1> QED BY <1>1, <1>2, SpecInv, PTL DEF Spec, AnswersInOrder, A!Spec
=============================================================================
