---------------------------- MODULE PacketsProofs ----------------------------
(***************************************************************************)
(* Proofs about Packets, for any packets, buffers and connections, provided *)
(* no packet that can be compressed is sent to two connections that        *)
(* compress (MCPacketsBroadcast shows what happens otherwise).             *)
(***************************************************************************)
EXTENDS Packets, FiniteSetTheorems, SequenceTheorems, TLAPS

Content == [payload : Nat, size : 0..2, zip : BOOLEAN]
Sending == [payload : Nat, compress : BOOLEAN]
Arriving == [packet : Packet, payload : Nat, size : 0..2, zip : BOOLEAN]
Steps == {"next", "compress", "reclaim", "swap", "write", "release"}
Goroutine == [packets : Seq(Packet), at : Steps, buffer : Buffer \cup {<< >>},
              from : Packet \cup Buffer \cup {<< >>}]

TypeOK ==
  /\ refcount \in [Packet -> Nat] /\ held \in [Packet -> Nat]
  /\ bytes \in [Packet -> Packet \cup Buffer]
  /\ \A p \in Packet : bytes[p] \in Buffer \cup {p}
  /\ notCompress \subseteq Packet
  /\ content \in [Packet \cup Buffer -> Content]
  /\ pool \in [Buffer -> Nat]
  /\ recving \in {<< >>} \cup {<<r>> : r \in Arriving}
  /\ pending \in [Conn -> Seq(Packet)]
  /\ flushing \in [Conn -> Goroutine]
  /\ wire \in [Conn -> Seq(Content)] /\ broken \subseteq Conn
  /\ made \in Nat
  /\ of \in [Packet -> Nat]
  /\ sent \in [Conn -> Seq(Sending)]

\* References are counted, and a packet nobody refers to is cleared.
Counted == \A p \in Packet : refcount[p] = References(p)
ClearedAt(p) ==
  refcount[p] = 0 => bytes[p] = p /\ content[p] = Empty /\ p \notin notCompress
Cleared == \A p \in Packet : ClearedAt(p)

\* Payloads are told apart by their numbers, and sent to a connection once.
Numbered ==
  /\ \A p \in Packet : of[p] <= made /\ (refcount[p] > 0 => of[p] > 0)
  /\ \A p, q \in Packet : of[p] = of[q] /\ of[p] > 0 => p = q
  /\ \A c \in Conn : \A i \in DOMAIN sent[c] : sent[c][i].payload \in 1..made
  /\ \A c \in Conn : \A i, j \in DOMAIN sent[c] :
       sent[c][i].payload = sent[c][j].payload => i = j

\* A packet that arrives is nobody's yet.
ArrivesAt(p) ==
  Receiving(p) =>
    /\ held[p] = 0 /\ content[p] = Empty /\ p \notin notCompress
    /\ of[p] = recving[1].payload
    /\ \A c \in Conn : ~SentTo(c, p)
Arrives == \A p \in Packet : ArrivesAt(p)

\* A buffer has one owner or is in its pool once.
Owned ==
  /\ \A p, q \in Packet : bytes[p] = bytes[q] /\ ~Swapping(p) /\ ~Swapping(q) => p = q
  /\ \A c, d \in Conn : flushing[c].buffer = flushing[d].buffer
                          /\ flushing[c].buffer # << >> => c = d
  /\ \A p \in Packet, c \in Conn :
       bytes[p] \in Buffer /\ bytes[p] = flushing[c].buffer => Swapping(p)
  /\ \A b \in Buffer : pool[b] <= 1
  /\ \A p \in Packet : bytes[p] \in Buffer /\ pool[bytes[p]] > 0 => Swapping(p)
  /\ \A c \in Conn : flushing[c].buffer \in Buffer => pool[flushing[c].buffer] = 0

\* What a packet holds, and what it was when it was sent.
Whole(p) ==
  /\ content[bytes[p]].payload = of[p]
  /\ content[bytes[p]].zip => Compressing
  /\ \A c \in Conn : \A i \in DOMAIN sent[c] :
       sent[c][i].payload = of[p] /\ ~sent[c][i].compress => ~requireCompress(p)
HoldsAt(p) == refcount[p] > 0 /\ ~Swapping(p) /\ ~Receiving(p) => Whole(p)
Holds == \A p \in Packet : HoldsAt(p)

\* What a connection may compress was sent to it alone.
Alone ==
  Compressing =>
    \A c, d \in Conn : \A i \in DOMAIN sent[c], j \in DOMAIN sent[d] :
      sent[c][i].payload = sent[d][j].payload /\ sent[c][i].compress => c = d

\* What was sent is written or queued, in this order, as long as no write fails;
\* after one that failed nothing is written.
Done(c) == Len(sent[c]) - Len(Queued(c))
Served(c) == Done(c) + (IF flushing[c].at = "release" THEN 1 ELSE 0)
Lines ==
  \A c \in Conn :
    /\ Len(wire[c]) <= Served(c) /\ (c \notin broken => Len(wire[c]) = Served(c))
    /\ \A i \in DOMAIN wire[c] : wire[c][i].payload = sent[c][i].payload
                                   /\ (wire[c][i].zip => Compressing)
    /\ \A i \in DOMAIN Queued(c) :
         /\ Done(c) + i \in DOMAIN sent[c]
         /\ sent[c][Done(c) + i].payload = of[Queued(c)[i]]

\* Where a flush goroutine is.
StagesAt(c) ==
  /\ flushing[c].packets = << >> => flushing[c] = Idle
  /\ flushing[c].at \notin {"compress", "reclaim", "swap"} => flushing[c].buffer = << >>
  /\ flushing[c].at \in {"compress", "reclaim", "swap"} =>
       /\ Compressing /\ flushing[c].buffer \in Buffer
       /\ \A i \in DOMAIN sent[c] : sent[c][i].payload = of[Current(c)] => sent[c][i].compress
  /\ flushing[c].at \in {"compress", "reclaim"} => requireCompress(Current(c))
  /\ flushing[c].at = "compress" => flushing[c].from = bytes[Current(c)]
  /\ flushing[c].at \in {"reclaim", "swap"} =>
       /\ content[flushing[c].buffer].payload = of[Current(c)]
       /\ content[flushing[c].buffer].zip
Stages == \A c \in Conn : StagesAt(c)

IInv == /\ TypeOK /\ Counted /\ Cleared /\ Numbered /\ Arrives
        /\ Owned /\ Holds /\ Alone /\ Lines /\ Stages

-----------------------------------------------------------------------------
(* What the invariant says of a packet, a queue and a flush goroutine      *)

LEMMA Contents ==
  /\ Empty \in Content
  /\ \A e \in Content, n \in Nat : [e EXCEPT !.payload = n] \in Content
  /\ \A e \in Content, n \in 0..2 : [e EXCEPT !.size = n] \in Content
  /\ \A e \in Content : [e EXCEPT !.zip = TRUE] \in Content
<1>1. Empty \in Content
  BY DEF Empty, Content
<1>2. \A e \in Content, n \in Nat : [e EXCEPT !.payload = n] \in Content
  BY DEF Content
<1>3. \A e \in Content, n \in 0..2 : [e EXCEPT !.size = n] \in Content
  BY DEF Content
<1>4. \A e \in Content : [e EXCEPT !.zip = TRUE] \in Content
  BY DEF Content
<1> QED BY <1>1, <1>2, <1>3, <1>4

LEMMA SubsetCount ==
  ASSUME NEW S \in SUBSET Conn
  PROVE  IsFiniteSet(S) /\ Cardinality(S) \in Nat /\ (Cardinality(S) = 0 <=> S = {})
BY PacketsAssumption, FS_Subset, FS_CardinalityType, FS_EmptySet DEF PacketsAssumption

LEMMA OneMore ==
  ASSUME NEW S \in SUBSET Conn, NEW c \in Conn, c \notin S
  PROVE  Cardinality(S \cup {c}) = Cardinality(S) + 1
BY SubsetCount, FS_AddElement

LEMMA QueuedType ==
  ASSUME TypeOK, NEW c \in Conn
  PROVE  /\ flushing[c] \in Goroutine /\ pending[c] \in Seq(Packet)
         /\ sent[c] \in Seq(Sending) /\ wire[c] \in Seq(Content)
         /\ flushing[c].packets \in Seq(Packet)
         /\ Queued(c) \in Seq(Packet)
         /\ Len(Queued(c)) = Len(flushing[c].packets) + Len(pending[c])
         /\ Len(Queued(c)) \in Nat /\ DOMAIN Queued(c) = 1..Len(Queued(c))
         /\ DOMAIN sent[c] = 1..Len(sent[c]) /\ Len(sent[c]) \in Nat
         /\ DOMAIN wire[c] = 1..Len(wire[c]) /\ Len(wire[c]) \in Nat
BY DEF TypeOK, Goroutine, Queued

\* A packet that waits in a queue waits there once, was sent, and is whole.
LEMMA InQueue ==
  ASSUME TypeOK, Counted, Numbered, Arrives, Lines,
         NEW c \in Conn, NEW i \in DOMAIN Queued(c), NEW p, p = Queued(c)[i]
  PROVE  /\ p \in Packet /\ Queues(c, p) /\ SentTo(c, p)
         /\ refcount[p] > 0 /\ ~Receiving(p) /\ of[p] > 0
         /\ \A j \in DOMAIN Queued(c) : Queued(c)[j] = p => i = j
<1>1. p \in Packet
  <2>1. Queued(c) \in Seq(Packet)
    BY QueuedType
  <2> QED BY <2>1
<1>2. Queues(c, p)
  <2>1. i \in DOMAIN Queued(c) /\ Queued(c)[i] = p
    OBVIOUS
  <2> QED BY ONLY <2>1 DEF Queues
<1>3. SentTo(c, p)
  BY DEF Lines, SentTo
<1>4. ~Receiving(p)
  BY <1>1, <1>3 DEF Arrives, ArrivesAt
<1>5. refcount[p] > 0
  <2> DEFINE S == {d \in Conn : Queues(d, p)}
  <2>1. S \in SUBSET Conn /\ c \in S
    BY <1>2
  <2>2. refcount[p] = held[p] + 0 + Cardinality(S)
    BY <1>1, <1>4 DEF Counted, References
  <2> HIDE DEF S
  <2>3. Cardinality(S) > 0
    BY <2>1, SubsetCount
  <2>4. Cardinality(S) \in Nat /\ held[p] \in Nat
    BY <1>1, <2>1, SubsetCount DEF TypeOK
  <2> QED BY <2>2, <2>3, <2>4
<1>6. of[p] > 0
  BY <1>1, <1>5 DEF Numbered
<1>7. ASSUME NEW j \in DOMAIN Queued(c), Queued(c)[j] = p PROVE i = j
  <2>1. Done(c) + i = Done(c) + j
    BY <1>7 DEF Lines, Numbered
  <2>2. /\ DOMAIN Queued(c) = 1..Len(Queued(c)) /\ Len(Queued(c)) \in Nat
        /\ Len(sent[c]) \in Nat
    BY QueuedType
  <2>3. Done(c) \in Int /\ i \in Int /\ j \in Int
    BY <2>2 DEF Done
  <2> QED BY ONLY <2>1, <2>3
<1> QED BY <1>1, <1>2, <1>3, <1>4, <1>5, <1>6, <1>7

LEMMA Refers ==
  ASSUME TypeOK, Counted, NEW p \in Packet
  PROVE  /\ refcount[p] \in Nat /\ held[p] \in Nat
         /\ refcount[p] = 0 => held[p] = 0 /\ ~Receiving(p) /\ \A c \in Conn : ~Queues(c, p)
         /\ held[p] > 0 => refcount[p] > 0
         /\ refcount[p] = 1 /\ held[p] = 1 => ~Receiving(p) /\ \A c \in Conn : ~Queues(c, p)
         /\ refcount[p] = 1 /\ Receiving(p) => \A c \in Conn : ~Queues(c, p)
<1> DEFINE S == {c \in Conn : Queues(c, p)}
<1>1. S \in SUBSET Conn /\ \A c \in Conn : Queues(c, p) => S # {}
  OBVIOUS
<1>2. refcount[p] = held[p] + (IF Receiving(p) THEN 1 ELSE 0) + Cardinality(S)
  BY DEF Counted, References
<1> HIDE DEF S
<1>3. /\ refcount[p] \in Nat /\ held[p] \in Nat
      /\ Cardinality(S) \in Nat /\ (Cardinality(S) = 0 <=> S = {})
  BY <1>1, SubsetCount DEF TypeOK
<1>4. \/ Receiving(p) /\ refcount[p] = held[p] + 1 + Cardinality(S)
      \/ ~Receiving(p) /\ refcount[p] = held[p] + 0 + Cardinality(S)
  BY <1>2
<1>5. /\ refcount[p] = 0 => held[p] = 0 /\ ~Receiving(p) /\ S = {}
      /\ held[p] > 0 => refcount[p] > 0
      /\ refcount[p] = 1 /\ held[p] = 1 => ~Receiving(p) /\ S = {}
      /\ refcount[p] = 1 /\ Receiving(p) => S = {}
  BY <1>3, <1>4
<1> QED BY <1>1, <1>3, <1>5

\* The packet a flush goroutine is at is the first of its queue.
LEMMA AtHead ==
  ASSUME TypeOK, Counted, Numbered, Arrives, Lines,
         NEW c \in Conn, flushing[c].packets # << >>
  PROVE  /\ 1 \in DOMAIN Queued(c) /\ Queued(c)[1] = Current(c)
         /\ Current(c) \in Packet /\ Queues(c, Current(c)) /\ SentTo(c, Current(c))
         /\ refcount[Current(c)] > 0 /\ ~Receiving(Current(c)) /\ of[Current(c)] > 0
         /\ Done(c) + 1 \in DOMAIN sent[c]
         /\ sent[c][Done(c) + 1].payload = of[Current(c)]
<1>1. 1 \in DOMAIN Queued(c) /\ Queued(c)[1] = Current(c)
  <2> DEFINE qs == flushing[c].packets  ps == pending[c]
  <2>1. qs \in Seq(Packet) /\ ps \in Seq(Packet) /\ qs # << >>
    BY QueuedType
  <2> HIDE DEF qs, ps
  <2>2. 1 \in DOMAIN (qs \o ps) /\ (qs \o ps)[1] = Head(qs)
    BY <2>1
  <2> QED BY <2>2 DEF Queued, Current, qs, ps
<1>2. /\ Done(c) + 1 \in DOMAIN sent[c]
      /\ sent[c][Done(c) + 1].payload = of[Current(c)]
  BY <1>1 DEF Lines
<1> QED BY <1>1, <1>2, InQueue

\* A goroutine that compresses a packet is the only one that has it.
LEMMA Compresses ==
  ASSUME TypeOK, Counted, Numbered, Arrives, Lines, Alone, Stages,
         NEW c \in Conn, flushing[c].at \in {"compress", "reclaim", "swap"}
  PROVE  /\ flushing[c].packets # << >>
         /\ \A d \in Conn : SentTo(d, Current(c)) => d = c
         /\ \A d \in Conn : Queues(d, Current(c)) => d = c
         /\ \A d \in Conn : flushing[d].packets # << >> /\ Current(d) = Current(c) => d = c
<1>1. flushing[c].packets # << >> /\ Compressing
  BY DEF Stages, StagesAt, Idle
<1>2. sent[c][Done(c) + 1].compress /\ Done(c) + 1 \in DOMAIN sent[c]
  /\ sent[c][Done(c) + 1].payload = of[Current(c)]
  BY <1>1, AtHead DEF Stages, StagesAt
<1>3. ASSUME NEW d \in Conn, SentTo(d, Current(c)) PROVE d = c
  BY <1>1, <1>2, <1>3 DEF Alone, SentTo
<1>4. ASSUME NEW d \in Conn, Queues(d, Current(c)) PROVE d = c
  BY <1>3, <1>4, InQueue DEF Queues
<1> QED BY <1>1, <1>3, <1>4, AtHead

\* Nobody else reads or fills a buffer while its packet is swapped.
LEMMA Swaps ==
  ASSUME TypeOK, Counted, Numbered, Arrives, Lines, Alone, Stages,
         NEW p \in Packet, Swapping(p)
  PROVE  /\ refcount[p] > 0 /\ ~Receiving(p) /\ of[p] > 0
         /\ \E c \in Conn : SentTo(c, p)
         /\ \E c \in Conn : Queues(c, p)
BY AtHead DEF Swapping, Flushing

-----------------------------------------------------------------------------
(* What a step of the main goroutine leaves alone                          *)

Kept(p) ==
  /\ bytes'[p] = bytes[p] /\ of'[p] = of[p] /\ (p \in notCompress' <=> p \in notCompress)
  /\ content'[bytes[p]] = content[bytes[p]]

LEMMA KeepsLines ==
  ASSUME IInv, UNCHANGED lines,
         \A p \in Packet : (\E c \in Conn : Queues(c, p)) => of'[p] = of[p]
  PROVE  Lines'
<1>1. ASSUME NEW c \in Conn
      PROVE  /\ wire'[c] = wire[c] /\ sent'[c] = sent[c] /\ flushing'[c] = flushing[c]
             /\ Queued(c)' = Queued(c) /\ broken' = broken
  BY DEF lines, Queued
<1>2. ASSUME NEW c \in Conn PROVE Done(c)' = Done(c) /\ Served(c)' = Served(c)
  BY <1>1, <1>2 DEF Done, Served
<1>3. ASSUME NEW c \in Conn, NEW i \in DOMAIN Queued(c)
      PROVE  of'[Queued(c)[i]] = of[Queued(c)[i]]
  BY <1>3, InQueue DEF IInv
<1>4. Lines
  BY DEF IInv
<1> QED BY <1>1, <1>2, <1>3, <1>4 DEF Lines

LEMMA KeepsStages ==
  ASSUME IInv, flushing' = flushing, sent' = sent,
         \A p \in Packet : (\E c \in Conn : Queues(c, p)) =>
           of'[p] = of[p] /\ (~Swapping(p) => Kept(p)),
         \A c \in Conn : flushing[c].buffer \in Buffer =>
           content'[flushing[c].buffer] = content[flushing[c].buffer]
  PROVE  Stages'
<1> SUFFICES ASSUME NEW c \in Conn, flushing[c].at \in {"compress", "reclaim", "swap"}
             PROVE  /\ of'[Current(c)] = of[Current(c)]
                    /\ flushing[c].at # "swap" => Kept(Current(c))
  BY DEF IInv, Stages, StagesAt, Current, Kept, requireCompress
<1>1. /\ flushing[c].packets # << >>
      /\ \A d \in Conn : flushing[d].packets # << >> /\ Current(d) = Current(c) => d = c
  BY Compresses DEF IInv
<1>2. Current(c) \in Packet /\ Queues(c, Current(c))
  BY <1>1, AtHead DEF IInv
<1>3. flushing[c].at # "swap" => ~Swapping(Current(c))
  BY <1>1 DEF Swapping, Flushing
<1> QED BY <1>2, <1>3

LEMMA KeepsWhole ==
  ASSUME NEW p \in Packet, Whole(p), Kept(p), sent' = sent
  PROVE  Whole(p)'
BY DEF Whole, Kept, requireCompress

LEMMA Apart ==
  ASSUME TypeOK, NEW p \in Packet, NEW q \in Packet, p # q
  PROVE  bytes[q] # p /\ p \notin Buffer
BY PacketsAssumption DEF TypeOK, PacketsAssumption

-----------------------------------------------------------------------------
(* The buffer a packet gets or gives back                                  *)

LEMMA PoolType ==
  ASSUME pool \in [Buffer -> Nat], NEW s
  PROVE  /\ PutBack(pool, s) \in [Buffer -> Nat]
         /\ \A b \in Buffer : Got(b) \in [Buffer -> Nat] /\ PutBack(Got(b), s) \in [Buffer -> Nat]
<1>1. \A pl \in [Buffer -> Nat] : PutBack(pl, s) \in [Buffer -> Nat]
  BY DEF PutBack
<1>2. \A b \in Buffer : Got(b) \in [Buffer -> Nat]
  BY DEF Got
<1> QED BY <1>1, <1>2

LEMMA Grabs ==
  ASSUME TypeOK, Owned, NEW p \in Packet, ~Swapping(p),
         NEW b \in Buffer, NEW cap, CanGet(b, cap),
         bytes' = [bytes EXCEPT ![p] = b], pool' = PutBack(Got(b), bytes[p]),
         flushing' = flushing
  PROVE  /\ Owned' /\ bytes[p] # b
         /\ \A q \in Packet : bytes[q] = b => Swapping(q)
         /\ \A c \in Conn : flushing[c].buffer # b
<1>1. \/ pool[b] = 1
      \/ /\ \A q \in Packet : bytes[q] # b
         /\ \A c \in Conn : flushing[c].buffer # b
  BY DEF CanGet, InUse, Owned, TypeOK
<1>2. \A q \in Packet : bytes[q] = b => Swapping(q)
  BY <1>1 DEF Owned
<1>3. \A c \in Conn : flushing[c].buffer # b
  BY <1>1 DEF Owned
<1>4. bytes[p] # b /\ (bytes[p] \in Buffer => pool[bytes[p]] = 0)
  BY <1>2 DEF Owned, TypeOK
<1>5. \A q \in Packet : bytes'[q] = IF q = p THEN b ELSE bytes[q]
  BY DEF TypeOK
<1>6. /\ pool'[b] = 0
      /\ \A x \in Buffer : x # b => pool'[x] = IF x = bytes[p] THEN 1 ELSE pool[x]
  BY <1>4 DEF PutBack, Got, Owned, TypeOK
<1>7. \A q \in Packet : Swapping(q)' <=> Swapping(q)
  BY DEF Swapping, Flushing, Current
<1>8. \A q \in Packet : bytes[q] = bytes[p] /\ ~Swapping(q) => q = p
  BY DEF Owned
<1>9. \A c \in Conn : bytes[p] \in Buffer => flushing[c].buffer # bytes[p]
  BY DEF Owned
<1>10. Owned'
  <2>1. \A q, r \in Packet : bytes'[q] = bytes'[r] /\ ~Swapping(q) /\ ~Swapping(r) => q = r
    BY <1>2, <1>5 DEF Owned
  <2>2. \A q \in Packet, c \in Conn :
          bytes'[q] \in Buffer /\ bytes'[q] = flushing[c].buffer => Swapping(q)
    BY <1>3, <1>5 DEF Owned
  <2>3. \A x \in Buffer : pool'[x] <= 1
    BY <1>6 DEF Owned
  <2>4. \A q \in Packet : bytes'[q] \in Buffer /\ pool'[bytes'[q]] > 0 => Swapping(q)
    BY <1>2, <1>5, <1>6, <1>8 DEF Owned
  <2>5. \A c \in Conn : flushing[c].buffer \in Buffer => pool'[flushing[c].buffer] = 0
    BY <1>3, <1>6, <1>9 DEF Owned
  <2>6. \A c, d \in Conn : flushing[c].buffer = flushing[d].buffer
                          /\ flushing[c].buffer # << >> => c = d
    BY DEF Owned
  <2> QED BY <1>7, <2>1, <2>2, <2>3, <2>4, <2>5, <2>6 DEF Owned
<1> QED BY <1>2, <1>3, <1>4, <1>10

LEMMA Returns ==
  ASSUME TypeOK, Owned, NEW p \in Packet, ~Swapping(p),
         bytes' = [bytes EXCEPT ![p] = p], pool' = PutBack(pool, bytes[p]),
         \A c \in Conn : flushing'[c].buffer = flushing[c].buffer,
         \A q \in Packet : Swapping(q)' <=> Swapping(q)
  PROVE  Owned'
<1>1. bytes[p] \in Buffer => pool[bytes[p]] = 0
  BY DEF Owned, TypeOK
<1>2. \A q \in Packet : bytes'[q] = IF q = p THEN p ELSE bytes[q]
  BY DEF TypeOK
<1>3. \A x \in Buffer : pool'[x] = IF x = bytes[p] THEN 1 ELSE pool[x]
  BY <1>1 DEF PutBack, TypeOK
<1>4. p \notin Buffer /\ \A q \in Packet : q # p => bytes[q] # p
  BY Apart, PacketsAssumption DEF PacketsAssumption
<1>5. \A q \in Packet : bytes[q] = bytes[p] /\ ~Swapping(q) => q = p
  BY DEF Owned
<1>6. \A c \in Conn : bytes[p] \in Buffer => flushing[c].buffer # bytes[p]
  BY DEF Owned
<1>7. \A q, r \in Packet : bytes'[q] = bytes'[r] /\ ~Swapping(q) /\ ~Swapping(r) => q = r
  BY <1>2, <1>4 DEF Owned
<1>8. \A q \in Packet, c \in Conn :
        bytes'[q] \in Buffer /\ bytes'[q] = flushing[c].buffer => Swapping(q)
  BY <1>2, <1>4 DEF Owned
<1>9. \A x \in Buffer : pool'[x] <= 1
  BY <1>3 DEF Owned
<1>10. \A q \in Packet : bytes'[q] \in Buffer /\ pool'[bytes'[q]] > 0 => Swapping(q)
  BY <1>2, <1>3, <1>4, <1>5 DEF Owned
<1>11. \A c \in Conn : flushing[c].buffer \in Buffer => pool'[flushing[c].buffer] = 0
  BY <1>3, <1>6 DEF Owned
<1>12. \A c, d \in Conn : flushing[c].buffer = flushing[d].buffer
                          /\ flushing[c].buffer # << >> => c = d
  BY DEF Owned
<1> QED BY <1>7, <1>8, <1>9, <1>10, <1>11, <1>12 DEF Owned

-----------------------------------------------------------------------------
(* The steps of the main goroutine                                         *)

LEMMA SwapsQueued ==
  ASSUME IInv, NEW p \in Packet, \A c \in Conn : ~Queues(c, p)
  PROVE  ~Swapping(p)
BY Swaps DEF IInv

LEMMA SameQueues ==
  ASSUME flushing' = flushing, pending' = pending, NEW p
  PROVE  /\ {c \in Conn : Queues(c, p)}' = {c \in Conn : Queues(c, p)}
         /\ Swapping(p)' <=> Swapping(p)
BY DEF Queues, Queued, Swapping, Flushing, Current

LEMMA SameReferences ==
  ASSUME flushing' = flushing, pending' = pending, NEW p,
         held'[p] = held[p], Receiving(p)' <=> Receiving(p)
  PROVE  References(p)' = References(p)
BY SameQueues DEF References

\* What a step that is about another packet leaves of this one.
Spared(p) ==
  /\ refcount'[p] = refcount[p] /\ held'[p] = held[p]
  /\ (Receiving(p)' <=> Receiving(p)) /\ (Receiving(p) => recving' = recving)
  /\ bytes'[p] = bytes[p] /\ of'[p] = of[p] /\ (p \in notCompress' <=> p \in notCompress)
  /\ content'[p] = content[p]
  /\ ~Swapping(p) => content'[bytes[p]] = content[bytes[p]]

LEMMA Elsewhere ==
  ASSUME IInv, TypeOK', UNCHANGED lines, Numbered', Owned',
         NEW p \in Packet,
         \A q \in Packet : q # p => Spared(q),
         \A c \in Conn : flushing[c].buffer \in Buffer =>
           content'[flushing[c].buffer] = content[flushing[c].buffer],
         (\E c \in Conn : Queues(c, p)) => of'[p] = of[p] /\ (~Swapping(p) => Kept(p)),
         refcount'[p] = References(p)', ClearedAt(p)', ArrivesAt(p)', HoldsAt(p)'
  PROVE  IInv'
<1>0. /\ flushing' = flushing /\ pending' = pending /\ sent' = sent
      /\ \A q \in Packet : q # p => Spared(q)
  BY DEF lines
<1>1. Counted'
  <2> SUFFICES ASSUME NEW q \in Packet, q # p PROVE refcount'[q] = References(q)'
    BY DEF Counted
  <2>1. Spared(q)
    BY <1>0
  <2>2. References(q)' = References(q)
    BY <1>0, <2>1, SameReferences DEF Spared
  <2> QED BY <2>1, <2>2 DEF Spared, IInv, Counted
<1>2. Cleared'
  <2> SUFFICES ASSUME NEW q \in Packet, q # p PROVE ClearedAt(q)'
    BY DEF Cleared
  <2> QED BY <1>0 DEF Spared, IInv, Cleared, ClearedAt
<1>3. Arrives'
  <2> SUFFICES ASSUME NEW q \in Packet, q # p PROVE ArrivesAt(q)'
    BY DEF Arrives
  <2>1. Spared(q) /\ ArrivesAt(q)
    BY <1>0 DEF IInv, Arrives
  <2>2. \A c \in Conn : SentTo(c, q)' <=> SentTo(c, q)
    BY <1>0, <2>1 DEF SentTo, Spared
  <2> QED BY <2>1, <2>2 DEF Spared, ArrivesAt
<1>4. Holds'
  <2> SUFFICES ASSUME NEW q \in Packet, q # p PROVE HoldsAt(q)'
    BY DEF Holds
  <2>1. Spared(q) /\ HoldsAt(q)
    BY <1>0 DEF IInv, Holds
  <2>2. Swapping(q)' <=> Swapping(q)
    BY <1>0, SameQueues
  <2>3. ~Swapping(q) => Kept(q)
    BY <2>1 DEF Spared, Kept
  <2> QED BY <1>0, <2>1, <2>2, <2>3, KeepsWhole DEF Spared, HoldsAt
<1>5. Alone'
  BY <1>0 DEF IInv, Alone
<1>6. \A q \in Packet : (\E c \in Conn : Queues(c, q)) =>
        of'[q] = of[q] /\ (~Swapping(q) => Kept(q))
  BY <1>0 DEF Spared, Kept
<1>7. Lines'
  BY <1>6, KeepsLines
<1>8. Stages'
  BY <1>0, <1>6, KeepsStages
<1> QED BY <1>1, <1>2, <1>3, <1>4, <1>5, <1>7, <1>8 DEF IInv

LEMMA StepNewPacket ==
  ASSUME IInv, NEW p \in Packet, NewPacket(p)
  PROVE  IInv'
<1>1. /\ refcount[p] = 0 /\ held[p] = 0 /\ ~Receiving(p) /\ \A c \in Conn : ~Queues(c, p)
      /\ bytes[p] = p /\ content[p] = Empty /\ p \notin notCompress /\ ~Swapping(p)
  BY Refers, SwapsQueued DEF IInv, Cleared, ClearedAt, NewPacket
<1>2. /\ refcount' = [refcount EXCEPT ![p] = 1] /\ held' = [held EXCEPT ![p] = 1]
      /\ made' = made + 1 /\ of' = [of EXCEPT ![p] = made + 1]
      /\ content' = [content EXCEPT ![p] = [Empty EXCEPT !.payload = made + 1]]
      /\ bytes' = bytes /\ notCompress' = notCompress /\ pool' = pool /\ recving' = recving
      /\ pending' = pending /\ flushing' = flushing /\ wire' = wire /\ broken' = broken /\ sent' = sent
  BY <1>1 DEF NewPacket, lines
<1>3. TypeOK'
  <2>1. made + 1 \in Nat
    BY DEF IInv, TypeOK
  <2>2. [Empty EXCEPT !.payload = made + 1] \in Content
    BY <2>1, Contents
  <2>3. /\ refcount' \in [Packet -> Nat] /\ held' \in [Packet -> Nat] /\ made' \in Nat
        /\ of' \in [Packet -> Nat] /\ content' \in [Packet \cup Buffer -> Content]
    BY <1>2, <2>1, <2>2 DEF IInv, TypeOK
  <2> QED BY <1>2, <2>3 DEF IInv, TypeOK
<1>4. \A q \in Packet : q # p => Spared(q)
  BY <1>2, Apart DEF Spared, Receiving, IInv, TypeOK
<1>5. Numbered'
  BY <1>2 DEF IInv, Numbered, TypeOK
<1>6. Owned'
  BY <1>2 DEF IInv, Owned, Swapping, Flushing, Current
<1>7. refcount'[p] = References(p)'
  <2> DEFINE S == {c \in Conn : Queues(c, p)}
  <2>1. Cardinality(S) = 0
    BY <1>1, SubsetCount
  <2>2. S' = S
    BY <1>2, SameQueues
  <2>3. References(p)' = held'[p] + 0 + Cardinality(S')
    BY <1>1, <1>2 DEF References, Receiving
  <2> HIDE DEF S
  <2> QED BY <1>2, <2>1, <2>2, <2>3 DEF IInv, TypeOK
<1>8. ClearedAt(p)' /\ ArrivesAt(p)'
  BY <1>1, <1>2 DEF ClearedAt, ArrivesAt, Receiving, IInv, TypeOK
<1>9. HoldsAt(p)'
  <2>1. \A c \in Conn : \A i \in DOMAIN sent[c] : sent[c][i].payload # made + 1
    BY DEF IInv, Numbered, TypeOK
  <2>2. content'[p] = [Empty EXCEPT !.payload = made + 1] /\ of'[p] = made + 1 /\ bytes'[p] = p
    BY <1>1, <1>2 DEF IInv, TypeOK
  <2> QED BY <2>1, <2>2, <1>2 DEF HoldsAt, Whole, Empty
<1>10. \A c \in Conn : flushing[c].buffer \in Buffer =>
         content'[flushing[c].buffer] = content[flushing[c].buffer]
  BY <1>2, PacketsAssumption DEF IInv, TypeOK, PacketsAssumption
<1>11. UNCHANGED lines
  BY <1>2 DEF lines
<1> QED BY <1>1, <1>3, <1>4, <1>5, <1>6, <1>7, <1>8, <1>9, <1>10, <1>11, Elsewhere

LEMMA Places ==
  ASSUME IInv, NEW p \in Packet, ~Swapping(p), flushing' = flushing,
         NEW size, NEW new \in Packet \cup Buffer, AssureCapacity(p, size, new)
  PROVE  /\ Owned' /\ pool' \in [Buffer -> Nat] /\ new \in Buffer \cup {p}
         /\ bytes' \in [Packet -> Packet \cup Buffer]
         /\ \A q \in Packet : bytes'[q] = IF q = p THEN new ELSE bytes[q]
         /\ \A q \in Packet : q # p => new # q /\ (~Swapping(q) => bytes[q] # new)
         /\ \A c \in Conn : flushing[c].buffer \in Buffer => flushing[c].buffer # new
<1>1. CASE new = bytes[p] /\ UNCHANGED <<bytes, pool>>
  <2>1. Owned'
    BY <1>1 DEF IInv, Owned, Swapping, Flushing, Current
  <2>2. new \in Buffer \cup {p} /\ \A q \in Packet : q # p => new # q
    BY <1>1, Apart DEF IInv, TypeOK
  <2>3. \A q \in Packet : q # p => (~Swapping(q) => bytes[q] # new)
    BY <1>1 DEF IInv, Owned
  <2>4. \A c \in Conn : flushing[c].buffer \in Buffer => flushing[c].buffer # new
    BY <1>1 DEF IInv, Owned
  <2> QED BY <1>1, <2>1, <2>2, <2>3, <2>4 DEF IInv, TypeOK
<1>2. CASE /\ new \in Buffer /\ CanGet(new, size)
           /\ bytes' = [bytes EXCEPT ![p] = new] /\ pool' = PutBack(Got(new), bytes[p])
  <2>1. /\ Owned' /\ bytes[p] # new
        /\ \A q \in Packet : bytes[q] = new => Swapping(q)
        /\ \A c \in Conn : flushing[c].buffer # new
    BY <1>2, Grabs DEF IInv
  <2>2. pool' \in [Buffer -> Nat]
    BY <1>2, PoolType DEF IInv, TypeOK
  <2>3. \A q \in Packet : q # new
    BY <1>2, PacketsAssumption DEF PacketsAssumption
  <2> QED BY <1>2, <2>1, <2>2, <2>3 DEF IInv, TypeOK
<1> QED BY <1>1, <1>2 DEF AssureCapacity

LEMMA StepAppendBytes ==
  ASSUME IInv, NEW p \in Packet, NEW size \in 1..2, AppendBytes(p, size)
  PROVE  IInv'
<1>1. /\ refcount[p] = 1 /\ held[p] = 1 /\ ~Receiving(p) /\ \A c \in Conn : ~Queues(c, p)
      /\ ~Swapping(p) /\ \A c \in Conn : ~SentTo(c, p)
  BY Refers, SwapsQueued DEF IInv, AppendBytes, Making
<1>2. /\ refcount' = refcount /\ held' = held /\ made' = made /\ of' = of
      /\ notCompress' = notCompress /\ recving' = recving
      /\ pending' = pending /\ flushing' = flushing /\ wire' = wire /\ broken' = broken /\ sent' = sent
  BY DEF AppendBytes, lines
<1>3. PICK new \in Packet \cup Buffer :
        /\ AssureCapacity(p, size, new)
        /\ content' = [content EXCEPT ![new] = [content[bytes[p]] EXCEPT !.size = size]]
  BY DEF AppendBytes
<1>4. /\ Owned' /\ pool' \in [Buffer -> Nat] /\ new \in Buffer \cup {p}
      /\ bytes' \in [Packet -> Packet \cup Buffer]
      /\ \A q \in Packet : bytes'[q] = IF q = p THEN new ELSE bytes[q]
      /\ \A q \in Packet : q # p => new # q /\ (~Swapping(q) => bytes[q] # new)
      /\ \A c \in Conn : flushing[c].buffer \in Buffer => flushing[c].buffer # new
  BY <1>1, <1>2, <1>3, Places
<1>5. TypeOK'
  <2>0. content[bytes[p]] \in Content /\ size \in 0..2
    BY DEF IInv, TypeOK
  <2>1. [content[bytes[p]] EXCEPT !.size = size] \in Content
    BY <2>0, Contents
  <2>2. content' \in [Packet \cup Buffer -> Content]
    BY <1>3, <2>1 DEF IInv, TypeOK
  <2> QED BY <1>2, <1>4, <2>2 DEF IInv, TypeOK
<1>6. \A q \in Packet : q # p => Spared(q)
  BY <1>2, <1>3, <1>4 DEF Spared, Receiving, IInv, TypeOK
<1>7. Numbered'
  BY <1>2 DEF IInv, Numbered
<1>8. refcount'[p] = References(p)'
  BY <1>2, SameReferences DEF IInv, Counted, Receiving
<1>9. ClearedAt(p)' /\ ArrivesAt(p)'
  BY <1>1, <1>2 DEF ClearedAt, ArrivesAt, Receiving
<1>10. HoldsAt(p)'
  <2>1. Whole(p)
    BY <1>1 DEF IInv, Holds, HoldsAt
  <2>2. bytes'[p] = new /\ of'[p] = of[p]
    BY <1>2, <1>4
  <2>3. content'[new] = [content[bytes[p]] EXCEPT !.size = size]
    BY <1>3 DEF IInv, TypeOK
  <2>4. content[bytes[p]] \in Content
    BY DEF IInv, TypeOK
  <2>5. /\ content'[new].payload = content[bytes[p]].payload
        /\ content'[new].zip = content[bytes[p]].zip
    BY ONLY <2>3, <2>4 DEF Content
  <2> QED BY <1>1, <1>2, <2>1, <2>2, <2>5 DEF HoldsAt, Whole, SentTo
<1>11. \A c \in Conn : flushing[c].buffer \in Buffer =>
         content'[flushing[c].buffer] = content[flushing[c].buffer]
  BY <1>3, <1>4 DEF IInv, TypeOK
<1>12. UNCHANGED lines
  BY <1>2 DEF lines
<1> QED BY <1>1, <1>4, <1>5, <1>6, <1>7, <1>8, <1>9, <1>10, <1>11, <1>12, Elsewhere

LEMMA StepSetNotCompress ==
  ASSUME IInv, NEW p \in Packet, SetNotCompress(p)
  PROVE  IInv'
<1>1. /\ refcount[p] = 1 /\ held[p] = 1 /\ ~Receiving(p) /\ \A c \in Conn : ~Queues(c, p)
      /\ ~Swapping(p) /\ \A c \in Conn : ~SentTo(c, p)
  BY Refers, SwapsQueued DEF IInv, SetNotCompress, Making
<1>2. /\ refcount' = refcount /\ held' = held /\ made' = made /\ of' = of
      /\ notCompress' = notCompress \cup {p} /\ recving' = recving
      /\ bytes' = bytes /\ content' = content /\ pool' = pool
      /\ pending' = pending /\ flushing' = flushing /\ wire' = wire /\ broken' = broken /\ sent' = sent
  BY DEF SetNotCompress, lines
<1>3. TypeOK'
  BY <1>2 DEF IInv, TypeOK
<1>4. \A q \in Packet : q # p => Spared(q)
  BY <1>2 DEF Spared, Receiving
<1>5. Numbered'
  BY <1>2 DEF IInv, Numbered
<1>6. Owned'
  BY <1>2 DEF IInv, Owned, Swapping, Flushing, Current
<1>7. refcount'[p] = References(p)'
  BY <1>2, SameReferences DEF IInv, Counted, Receiving
<1>8. ClearedAt(p)' /\ ArrivesAt(p)'
  BY <1>1, <1>2 DEF ClearedAt, ArrivesAt, Receiving
<1>9. HoldsAt(p)'
  BY <1>1, <1>2 DEF IInv, Holds, HoldsAt, Whole, SentTo
<1>10. UNCHANGED lines
  BY <1>2 DEF lines
<1> QED BY <1>1, <1>2, <1>3, <1>4, <1>5, <1>6, <1>7, <1>8, <1>9, <1>10, Elsewhere

LEMMA StepAddRefCount ==
  ASSUME IInv, NEW p \in Packet, AddRefCount(p)
  PROVE  IInv'
<1>1. refcount[p] > 0 /\ held[p] > 0
  BY Refers, PacketsAssumption DEF IInv, AddRefCount, PacketsAssumption
<1>2. /\ refcount' = [refcount EXCEPT ![p] = @ + 1] /\ held' = [held EXCEPT ![p] = @ + 1]
      /\ made' = made /\ of' = of /\ notCompress' = notCompress /\ recving' = recving
      /\ bytes' = bytes /\ content' = content /\ pool' = pool
      /\ pending' = pending /\ flushing' = flushing /\ wire' = wire /\ broken' = broken /\ sent' = sent
  BY DEF AddRefCount, lines
<1>3. TypeOK'
  <2>1. refcount' \in [Packet -> Nat] /\ held' \in [Packet -> Nat]
    BY <1>2 DEF IInv, TypeOK
  <2> QED BY <1>2, <2>1 DEF IInv, TypeOK
<1>4. \A q \in Packet : q # p => Spared(q)
  BY <1>2 DEF Spared, Receiving, IInv, TypeOK
<1>5. Numbered'
  BY <1>1, <1>2 DEF IInv, Numbered, TypeOK
<1>6. Owned'
  BY <1>2 DEF IInv, Owned, Swapping, Flushing, Current
<1>7. ~Receiving(p)
  BY <1>1 DEF IInv, Arrives, ArrivesAt
<1>8. refcount'[p] = References(p)'
  <2> DEFINE n == Cardinality({c \in Conn : Queues(c, p)})
  <2>1. n' = n
    BY <1>2, SameQueues
  <2>2. refcount[p] = held[p] + 0 + n /\ References(p)' = held'[p] + 0 + n'
    BY <1>2, <1>7 DEF IInv, Counted, References, Receiving
  <2>3. n \in Nat
    BY SubsetCount
  <2> HIDE DEF n
  <2> QED BY <1>2, <2>1, <2>2, <2>3 DEF IInv, TypeOK
<1>9. ClearedAt(p)' /\ ArrivesAt(p)'
  BY <1>1, <1>2, <1>7 DEF ClearedAt, ArrivesAt, Receiving, IInv, TypeOK
<1>10. HoldsAt(p)'
  <2>1. Kept(p)
    BY <1>2 DEF Kept
  <2> QED BY <1>1, <1>2, <1>7, <2>1, SameQueues, KeepsWhole DEF IInv, Holds, HoldsAt, Receiving
<1>11. UNCHANGED lines
  BY <1>2 DEF lines
<1>12. of'[p] = of[p] /\ (~Swapping(p) => Kept(p))
  BY <1>2 DEF Kept
<1> QED BY <1>2, <1>3, <1>4, <1>5, <1>6, <1>8, <1>9, <1>10, <1>11, <1>12, Elsewhere

\* The bytes of a packet that goes back to the pool.
LEMMA Releases ==
  ASSUME IInv, NEW p \in Packet, Release(p), refcount[p] > 0,
         refcount[p] = 1 => ~Swapping(p)
  PROVE  /\ refcount' = [refcount EXCEPT ![p] = @ - 1] /\ refcount' \in [Packet -> Nat]
         /\ refcount[p] # 1 => UNCHANGED <<pool, bytes, content, notCompress>>
         /\ refcount[p] = 1 =>
              /\ bytes' = [bytes EXCEPT ![p] = p] /\ pool' = PutBack(pool, bytes[p])
              /\ content' = [content EXCEPT ![p] = Empty] /\ notCompress' = notCompress \ {p}
         /\ bytes' \in [Packet -> Packet \cup Buffer] /\ content' \in [Packet \cup Buffer -> Content]
         /\ pool' \in [Buffer -> Nat] /\ notCompress' \subseteq Packet
         /\ \A q \in Packet : bytes'[q] \in Buffer \cup {q}
         /\ \A q \in Packet : q # p =>
              /\ Kept(q) \/ of'[q] # of[q]
              /\ refcount'[q] = refcount[q] /\ content'[q] = content[q]
         /\ \A b \in Buffer : content'[b] = content[b]
<1>1. /\ refcount' = [refcount EXCEPT ![p] = @ - 1] /\ refcount' \in [Packet -> Nat]
      /\ refcount'[p] = refcount[p] - 1
  BY DEF Release, IInv, TypeOK
<1>2. CASE refcount[p] # 1
  <2>1. UNCHANGED <<pool, bytes, content, notCompress>>
    BY <1>1, <1>2 DEF Release, IInv, TypeOK
  <2> QED BY <1>1, <1>2, <2>1 DEF IInv, TypeOK, Kept
<1>3. CASE refcount[p] = 1
  <2>1. /\ bytes' = [bytes EXCEPT ![p] = p] /\ pool' = PutBack(pool, bytes[p])
        /\ content' = [content EXCEPT ![p] = Empty] /\ notCompress' = notCompress \ {p}
    BY <1>1, <1>3 DEF Release
  <2>2. /\ bytes' \in [Packet -> Packet \cup Buffer] /\ content' \in [Packet \cup Buffer -> Content]
        /\ pool' \in [Buffer -> Nat] /\ notCompress' \subseteq Packet
        /\ \A q \in Packet : bytes'[q] \in Buffer \cup {q}
    BY <2>1, PoolType, Contents DEF IInv, TypeOK
  <2>3. \A q \in Packet : q # p =>
          /\ Kept(q) \/ of'[q] # of[q]
          /\ refcount'[q] = refcount[q] /\ content'[q] = content[q]
    BY <1>1, <2>1, Apart DEF Kept, IInv, TypeOK
  <2>4. \A b \in Buffer : content'[b] = content[b]
    BY <2>1, PacketsAssumption DEF PacketsAssumption, IInv, TypeOK
  <2> QED BY <1>1, <1>3, <2>1, <2>2, <2>3, <2>4
<1> QED BY <1>2, <1>3

LEMMA StepReleaseHeld ==
  ASSUME IInv, NEW p \in Packet, ReleaseHeld(p)
  PROVE  IInv'
<1>1. /\ refcount[p] > 0 /\ held[p] > 0 /\ ~Receiving(p)
      /\ refcount[p] = 1 => held[p] = 1 /\ ~Swapping(p) /\ \A c \in Conn : ~Queues(c, p)
  <2>1. refcount[p] > 0 /\ held[p] > 0 /\ ~Receiving(p)
    BY Refers DEF IInv, ReleaseHeld, Arrives, ArrivesAt
  <2>2. refcount[p] = held[p] + 0 + Cardinality({c \in Conn : Queues(c, p)})
    BY <2>1 DEF IInv, Counted, References
  <2> DEFINE n == Cardinality({c \in Conn : Queues(c, p)})
  <2>4. n \in Nat /\ refcount[p] = held[p] + 0 + n /\ held[p] \in Nat
    BY <2>2, SubsetCount DEF IInv, TypeOK
  <2> HIDE DEF n
  <2>3. refcount[p] = 1 => held[p] = 1
    BY <2>1, <2>4
  <2> QED BY <2>1, <2>3, Refers, SwapsQueued DEF IInv
<1>2. /\ held' = [held EXCEPT ![p] = @ - 1] /\ Release(p)
      /\ made' = made /\ of' = of /\ recving' = recving
      /\ pending' = pending /\ flushing' = flushing /\ wire' = wire /\ broken' = broken /\ sent' = sent
  BY DEF ReleaseHeld, lines
<1>3. /\ refcount' = [refcount EXCEPT ![p] = @ - 1] /\ refcount' \in [Packet -> Nat]
      /\ refcount[p] # 1 => UNCHANGED <<pool, bytes, content, notCompress>>
      /\ refcount[p] = 1 =>
           /\ bytes' = [bytes EXCEPT ![p] = p] /\ pool' = PutBack(pool, bytes[p])
           /\ content' = [content EXCEPT ![p] = Empty] /\ notCompress' = notCompress \ {p}
      /\ bytes' \in [Packet -> Packet \cup Buffer] /\ content' \in [Packet \cup Buffer -> Content]
      /\ pool' \in [Buffer -> Nat] /\ notCompress' \subseteq Packet
      /\ \A q \in Packet : bytes'[q] \in Buffer \cup {q}
      /\ \A q \in Packet : q # p =>
           /\ Kept(q) \/ of'[q] # of[q]
           /\ refcount'[q] = refcount[q] /\ content'[q] = content[q]
      /\ \A b \in Buffer : content'[b] = content[b]
  BY <1>1, <1>2, Releases
<1>4. held' \in [Packet -> Nat] /\ held'[p] = held[p] - 1
  BY <1>1, <1>2 DEF IInv, TypeOK
<1>5. TypeOK'
  BY <1>2, <1>3, <1>4 DEF IInv, TypeOK
<1>6. \A q \in Packet : q # p => Spared(q)
  BY <1>2, <1>3 DEF Spared, Kept, Receiving, IInv, TypeOK
<1>7. Numbered'
  BY <1>1, <1>2, <1>3 DEF IInv, Numbered, TypeOK
<1>8. \A q \in Packet : Swapping(q)' <=> Swapping(q)
  BY <1>2, SameQueues
<1>9. Owned'
  <2>1. CASE refcount[p] = 1
    BY <2>1, <1>1, <1>2, <1>3, <1>8, Returns DEF IInv
  <2>2. CASE refcount[p] # 1
    BY <2>2, <1>2, <1>3 DEF IInv, Owned, Swapping, Flushing, Current
  <2> QED BY <2>1, <2>2
<1>10. refcount'[p] = References(p)'
  <2> DEFINE n == Cardinality({c \in Conn : Queues(c, p)})
  <2>1. n' = n
    BY <1>2, SameQueues
  <2>2. refcount[p] = held[p] + 0 + n /\ References(p)' = held'[p] + 0 + n'
    BY <1>1, <1>2 DEF IInv, Counted, References, Receiving
  <2>3. n \in Nat
    BY SubsetCount
  <2>4. refcount'[p] = refcount[p] - 1 /\ refcount[p] \in Nat /\ held[p] \in Nat
    BY <1>3 DEF IInv, TypeOK
  <2> HIDE DEF n
  <2> QED BY <1>4, <2>1, <2>2, <2>3, <2>4
<1>11. ClearedAt(p)' /\ ArrivesAt(p)'
  BY <1>1, <1>2, <1>3 DEF ClearedAt, ArrivesAt, Receiving, IInv, TypeOK
<1>12. refcount[p] # 1 => Kept(p)
  BY <1>2, <1>3 DEF Kept
<1>13. HoldsAt(p)'
  <2>1. refcount'[p] > 0 => refcount[p] # 1
    BY <1>3 DEF IInv, TypeOK
  <2> QED BY <1>1, <1>2, <1>8, <1>12, <2>1, KeepsWhole DEF IInv, Holds, HoldsAt, Receiving
<1>14. UNCHANGED lines
  BY <1>2 DEF lines
<1>15. (\E c \in Conn : Queues(c, p)) => of'[p] = of[p] /\ (~Swapping(p) => Kept(p))
  BY <1>1, <1>2, <1>12
<1> QED BY <1>3, <1>5, <1>6, <1>7, <1>9, <1>10, <1>11, <1>13, <1>14, <1>15, Elsewhere

LEMMA StepRecvHeader ==
  ASSUME IInv, NEW p \in Packet, NEW size \in 0..2, NEW zip \in BOOLEAN, NEW wireSize \in 0..2,
         RecvHeader(p, size, zip, wireSize)
  PROVE  IInv'
<1>1. /\ refcount[p] = 0 /\ held[p] = 0 /\ ~Receiving(p) /\ \A c \in Conn : ~Queues(c, p)
      /\ bytes[p] = p /\ content[p] = Empty /\ p \notin notCompress /\ ~Swapping(p)
      /\ recving = << >>
  BY Refers, SwapsQueued DEF IInv, Cleared, ClearedAt, RecvHeader
<1>2. /\ refcount' = [refcount EXCEPT ![p] = 1] /\ held' = held
      /\ made' = made + 1 /\ of' = [of EXCEPT ![p] = made + 1]
      /\ recving' = <<[packet |-> p, payload |-> made + 1, size |-> size, zip |-> zip]>>
      /\ notCompress' = notCompress
      /\ pending' = pending /\ flushing' = flushing /\ wire' = wire /\ broken' = broken /\ sent' = sent
  BY DEF RecvHeader, lines
<1>3. PICK new \in Packet \cup Buffer :
        AssureCapacity(p, wireSize, new) /\ content' = [content EXCEPT ![new] = content[bytes[p]]]
  BY DEF RecvHeader
<1>4. /\ Owned' /\ pool' \in [Buffer -> Nat] /\ new \in Buffer \cup {p}
      /\ bytes' \in [Packet -> Packet \cup Buffer]
      /\ \A q \in Packet : bytes'[q] = IF q = p THEN new ELSE bytes[q]
      /\ \A q \in Packet : q # p => new # q /\ (~Swapping(q) => bytes[q] # new)
      /\ \A c \in Conn : flushing[c].buffer \in Buffer => flushing[c].buffer # new
  BY <1>1, <1>2, <1>3, Places
<1>5. TypeOK'
  <2>1. content' \in [Packet \cup Buffer -> Content]
    BY <1>3 DEF IInv, TypeOK
  <2>2. made + 1 \in Nat
    BY DEF IInv, TypeOK
  <2>3. [packet |-> p, payload |-> made + 1, size |-> size, zip |-> zip] \in Arriving
    BY <2>2 DEF Arriving
  <2>4. recving' \in {<<r>> : r \in Arriving}
    BY <1>2, <2>3
  <2>5. refcount' \in [Packet -> Nat] /\ of' \in [Packet -> Nat]
    BY <1>2, <2>2 DEF IInv, TypeOK
  <2> QED BY <1>2, <1>4, <2>1, <2>2, <2>4, <2>5 DEF IInv, TypeOK
<1>6. Receiving(p)' /\ recving'[1].payload = made + 1 /\ \A q \in Packet : q # p => ~Receiving(q)'
  BY <1>2 DEF Receiving
<1>7. \A q \in Packet : q # p => Spared(q)
  BY <1>1, <1>2, <1>3, <1>4, <1>6 DEF Spared, Receiving, IInv, TypeOK
<1>8. Numbered'
  <2>1. made' = made + 1 /\ made \in Nat /\ sent' = sent
    BY <1>2 DEF IInv, TypeOK
  <2>2. ASSUME NEW q \in Packet
        PROVE  /\ of[q] \in Nat /\ of[q] <= made
               /\ of'[q] = IF q = p THEN made + 1 ELSE of[q]
               /\ refcount[q] > 0 => of[q] > 0
               /\ q # p => refcount'[q] = refcount[q]
    BY <1>2 DEF IInv, Numbered, TypeOK
  <2>3. \A q \in Packet : of'[q] <= made' /\ (refcount'[q] > 0 => of'[q] > 0)
    BY <2>1, <2>2
  <2>4. \A q, r \in Packet : of'[q] = of'[r] /\ of'[q] > 0 => q = r
    <3>1. \A q, r \in Packet : of[q] = of[r] /\ of[q] > 0 => q = r
      BY DEF IInv, Numbered
    <3> QED BY <2>1, <2>2, <3>1
  <2>5. \A c \in Conn : \A j \in DOMAIN sent'[c] : sent'[c][j].payload \in 1..made'
    <3>1. \A c \in Conn : \A j \in DOMAIN sent[c] : sent[c][j].payload \in 1..made
      BY DEF IInv, Numbered
    <3> QED BY <2>1, <3>1
  <2>6. \A c \in Conn : \A j, k \in DOMAIN sent'[c] :
          sent'[c][j].payload = sent'[c][k].payload => j = k
    BY <2>1 DEF IInv, Numbered
  <2> QED BY <2>3, <2>4, <2>5, <2>6 DEF Numbered
<1>9. refcount'[p] = References(p)'
  <2> DEFINE S == {c \in Conn : Queues(c, p)}
  <2>1. Cardinality(S) = 0
    BY <1>1, SubsetCount
  <2>2. S' = S
    BY <1>2, SameQueues
  <2>3. References(p)' = held'[p] + 1 + Cardinality(S')
    BY <1>6 DEF References
  <2> HIDE DEF S
  <2> QED BY <1>1, <1>2, <2>1, <2>2, <2>3 DEF IInv, TypeOK
<1>10. ClearedAt(p)'
  BY <1>2 DEF ClearedAt, IInv, TypeOK
<1>11. ArrivesAt(p)'
  <2>1. content'[p] = Empty
    BY <1>1, <1>3 DEF IInv, TypeOK
  <2>2. of'[p] = made + 1
    BY <1>2 DEF IInv, TypeOK
  <2>3. \A c \in Conn : ~SentTo(c, p)'
    BY <1>2, <2>2 DEF SentTo, IInv, Numbered, TypeOK
  <2> QED BY <1>1, <1>2, <1>6, <2>1, <2>2, <2>3 DEF ArrivesAt
<1>12. HoldsAt(p)'
  BY <1>6 DEF HoldsAt
<1>13. \A c \in Conn : flushing[c].buffer \in Buffer =>
         content'[flushing[c].buffer] = content[flushing[c].buffer]
  BY <1>3, <1>4 DEF IInv, TypeOK
<1>14. UNCHANGED lines
  BY <1>2 DEF lines
<1> QED BY <1>1, <1>4, <1>5, <1>7, <1>8, <1>9, <1>10, <1>11, <1>12, <1>13, <1>14, Elsewhere

LEMMA ReceivingPacket ==
  ASSUME IInv, recving # << >>
  PROVE  LET r == recving[1]  p == r.packet IN
         /\ r \in Arriving /\ p \in Packet /\ Receiving(p) /\ \A q \in Packet : Receiving(q) => q = p
         /\ refcount[p] = 1 /\ held[p] = 0 /\ of[p] = r.payload
         /\ content[p] = Empty /\ p \notin notCompress
         /\ \A c \in Conn : ~SentTo(c, p) /\ ~Queues(c, p)
         /\ ~Swapping(p)
<1> DEFINE r == recving[1]  p == r.packet
<1>1. r \in Arriving /\ p \in Packet
  BY DEF IInv, TypeOK, Arriving
<1>2. Receiving(p) /\ \A q \in Packet : Receiving(q) => q = p
  BY DEF Receiving
<1> HIDE DEF p, r
<1>3. /\ held[p] = 0 /\ of[p] = recving[1].payload /\ content[p] = Empty /\ p \notin notCompress
      /\ \A c \in Conn : ~SentTo(c, p)
  BY <1>1, <1>2 DEF IInv, Arrives, ArrivesAt
<1>4. \A c \in Conn : ~Queues(c, p)
  <2> SUFFICES ASSUME NEW c \in Conn, NEW i \in DOMAIN Queued(c), Queued(c)[i] = p PROVE FALSE
    BY DEF Queues
  <2> QED BY <1>2, InQueue DEF IInv
<1>5. refcount[p] = 1
  <2> DEFINE S == {c \in Conn : Queues(c, p)}
  <2>1. Cardinality(S) = 0
    BY <1>4, SubsetCount
  <2>2. refcount[p] = held[p] + 1 + Cardinality(S)
    BY <1>1, <1>2 DEF IInv, Counted, References
  <2> HIDE DEF S
  <2> QED BY <1>3, <2>1, <2>2
<1>6. ~Swapping(p)
  BY <1>1, <1>4, SwapsQueued
<1> QED BY <1>1, <1>2, <1>3, <1>4, <1>5, <1>6 DEF p, r

LEMMA StepRecvPayload ==
  ASSUME IInv, RecvPayload
  PROVE  IInv'
<1>0. PICK r, p : r = recving[1] /\ p = r.packet
  OBVIOUS
<1> DEFINE whole == [payload |-> r.payload, size |-> r.size, zip |-> FALSE]
<1>1. recving # << >> /\ recving' = << >> /\ held' = [held EXCEPT ![p] = 1]
      /\ refcount' = refcount /\ notCompress' = notCompress /\ made' = made /\ of' = of
      /\ pending' = pending /\ flushing' = flushing /\ wire' = wire /\ broken' = broken /\ sent' = sent
      /\ \/ decompress(p, whole)
         \/ /\ content' = [content EXCEPT ![bytes[p]] = whole]
            /\ UNCHANGED <<bytes, pool>>
  BY <1>0 DEF RecvPayload, lines
<1>2. /\ r \in Arriving /\ p \in Packet /\ Receiving(p) /\ \A q \in Packet : Receiving(q) => q = p
      /\ refcount[p] = 1 /\ held[p] = 0 /\ of[p] = r.payload
      /\ content[p] = Empty /\ p \notin notCompress
      /\ \A c \in Conn : ~SentTo(c, p) /\ ~Queues(c, p)
      /\ ~Swapping(p)
  BY <1>0, <1>1, ReceivingPacket
<1>3. whole \in Content /\ whole.payload = of[p] /\ whole.zip = FALSE
  BY <1>2 DEF Arriving, Content
<1> HIDE DEF whole
<1>4. \A q \in Packet : Receiving(q)' = FALSE
  BY <1>1 DEF Receiving
<1>5. /\ bytes' \in [Packet -> Packet \cup Buffer] /\ content' \in [Packet \cup Buffer -> Content]
      /\ pool' \in [Buffer -> Nat] /\ Owned'
      /\ \A q \in Packet : bytes'[q] \in Buffer \cup {q}
      /\ \A q \in Packet : q # p =>
           /\ bytes'[q] = bytes[q] /\ content'[q] = content[q]
           /\ ~Swapping(q) => content'[bytes[q]] = content[bytes[q]]
      /\ \A c \in Conn : flushing[c].buffer \in Buffer =>
           content'[flushing[c].buffer] = content[flushing[c].buffer]
      /\ content'[bytes'[p]] = whole
  <2>1. \A q \in Packet : q # p => bytes[p] # q /\ (~Swapping(q) => bytes[q] # bytes[p])
    BY <1>2, Apart DEF IInv, Owned
  <2>2. \A c \in Conn : flushing[c].buffer \in Buffer => flushing[c].buffer # bytes[p]
    BY <1>2 DEF IInv, Owned
  <2>3. bytes[p] \in Packet \cup Buffer
    BY <1>2 DEF IInv, TypeOK
  <2>4. CASE decompress(p, whole)
    <3>1. PICK b \in Buffer :
            /\ CanGet(b, whole.size)
            /\ bytes' = [bytes EXCEPT ![p] = b] /\ pool' = PutBack(Got(b), bytes[p])
            /\ content' = [content EXCEPT ![b] = whole, ![bytes[p]] = [whole EXCEPT !.zip = TRUE]]
      BY <2>4 DEF decompress
    <3>2. /\ Owned' /\ bytes[p] # b
          /\ \A q \in Packet : bytes[q] = b => Swapping(q)
          /\ \A c \in Conn : flushing[c].buffer # b
      BY <1>1, <1>2, <3>1, Grabs DEF IInv
    <3>3. pool' \in [Buffer -> Nat]
      BY <3>1, PoolType DEF IInv, TypeOK
    <3>4. \A q \in Packet : q # b
      BY PacketsAssumption DEF PacketsAssumption
    <3>5. [whole EXCEPT !.zip = TRUE] \in Content
      BY <1>3, Contents
    <3>6. /\ content' \in [Packet \cup Buffer -> Content]
          /\ content'[b] = whole
          /\ \A s \in Packet \cup Buffer : s # b /\ s # bytes[p] => content'[s] = content[s]
      BY <1>3, <2>3, <3>1, <3>2, <3>5 DEF IInv, TypeOK
    <3>7. /\ bytes' \in [Packet -> Packet \cup Buffer]
          /\ \A q \in Packet : bytes'[q] = IF q = p THEN b ELSE bytes[q]
      BY <3>1 DEF IInv, TypeOK
    <3>8. \A q \in Packet : q # p =>
            /\ bytes'[q] = bytes[q] /\ content'[q] = content[q]
            /\ ~Swapping(q) => content'[bytes[q]] = content[bytes[q]]
      BY <2>1, <3>2, <3>4, <3>6, <3>7 DEF IInv, TypeOK
    <3>9. \A c \in Conn : flushing[c].buffer \in Buffer =>
            content'[flushing[c].buffer] = content[flushing[c].buffer]
      BY <2>2, <3>2, <3>6
    <3> QED BY <1>2, <3>2, <3>3, <3>6, <3>7, <3>8, <3>9 DEF IInv, TypeOK
  <2>5. CASE content' = [content EXCEPT ![bytes[p]] = whole] /\ UNCHANGED <<bytes, pool>>
    <3>1. Owned'
      BY <1>1, <2>5 DEF IInv, Owned, Swapping, Flushing, Current
    <3>2. /\ content' \in [Packet \cup Buffer -> Content] /\ content'[bytes[p]] = whole
          /\ \A s \in Packet \cup Buffer : s # bytes[p] => content'[s] = content[s]
      BY <1>3, <2>3, <2>5 DEF IInv, TypeOK
    <3>3. \A q \in Packet : q # p =>
            /\ content'[q] = content[q]
            /\ ~Swapping(q) => content'[bytes[q]] = content[bytes[q]]
      BY <2>1, <3>2 DEF IInv, TypeOK
    <3>4. \A c \in Conn : flushing[c].buffer \in Buffer =>
            content'[flushing[c].buffer] = content[flushing[c].buffer]
      BY <2>2, <3>2
    <3> QED BY <2>5, <3>1, <3>2, <3>3, <3>4 DEF IInv, TypeOK
  <2> QED BY <1>1, <2>4, <2>5
<1>6. TypeOK'
  <2>1. held' \in [Packet -> Nat]
    BY <1>1, <1>2 DEF IInv, TypeOK
  <2> QED BY <1>1, <1>5, <2>1 DEF IInv, TypeOK
<1>7. \A q \in Packet : q # p => Spared(q)
  BY <1>1, <1>2, <1>4, <1>5 DEF Spared, IInv, TypeOK
<1>8. Numbered'
  BY <1>1 DEF IInv, Numbered
<1>9. refcount'[p] = References(p)'
  <2> DEFINE S == {c \in Conn : Queues(c, p)}
  <2>1. Cardinality(S) = 0
    BY <1>2, SubsetCount
  <2>2. S' = S
    BY <1>1, SameQueues
  <2>3. References(p)' = held'[p] + 0 + Cardinality(S')
    BY <1>2, <1>4 DEF References
  <2> HIDE DEF S
  <2> QED BY <1>1, <1>2, <2>1, <2>2, <2>3 DEF IInv, TypeOK
<1>10. ClearedAt(p)' /\ ArrivesAt(p)'
  BY <1>1, <1>2, <1>4 DEF ClearedAt, ArrivesAt
<1>11. HoldsAt(p)'
  BY <1>1, <1>2, <1>3, <1>5 DEF HoldsAt, Whole, SentTo
<1>12. UNCHANGED lines
  BY <1>1 DEF lines
<1> QED BY <1>2, <1>5, <1>6, <1>7, <1>8, <1>9, <1>10, <1>11, <1>12, Elsewhere

LEMMA StepRecvBroken ==
  ASSUME IInv, RecvBroken
  PROVE  IInv'
<1>0. PICK p : p = recving[1].packet
  OBVIOUS
<1>1. recving # << >> /\ recving' = << >>
      /\ refcount' = [refcount EXCEPT ![p] = 0] /\ bytes' = [bytes EXCEPT ![p] = p]
      /\ notCompress' = notCompress /\ content' = content /\ pool' = pool /\ held' = held
      /\ made' = made /\ of' = of
      /\ pending' = pending /\ flushing' = flushing /\ wire' = wire /\ broken' = broken /\ sent' = sent
  BY <1>0 DEF RecvBroken, lines
<1>2. /\ p \in Packet /\ Receiving(p) /\ \A q \in Packet : Receiving(q) => q = p
      /\ refcount[p] = 1 /\ held[p] = 0
      /\ content[p] = Empty /\ p \notin notCompress
      /\ \A c \in Conn : ~Queues(c, p)
      /\ ~Swapping(p)
  BY <1>0, <1>1, ReceivingPacket
<1>3. \A q \in Packet : Receiving(q)' = FALSE
  BY <1>1 DEF Receiving
<1>4. /\ bytes' \in [Packet -> Packet \cup Buffer]
      /\ \A q \in Packet : bytes'[q] = IF q = p THEN p ELSE bytes[q]
      /\ refcount' \in [Packet -> Nat]
      /\ \A q \in Packet : refcount'[q] = IF q = p THEN 0 ELSE refcount[q]
  BY <1>1, <1>2 DEF IInv, TypeOK
<1>5. TypeOK'
  BY <1>1, <1>4 DEF IInv, TypeOK
<1>6. \A q \in Packet : q # p => Spared(q)
  BY <1>1, <1>2, <1>3, <1>4 DEF Spared
<1>7. Numbered'
  BY <1>1, <1>4 DEF IInv, Numbered, TypeOK
<1>8. Owned'
  <2>1. p \notin Buffer /\ \A q \in Packet : q # p => bytes[q] # p
    BY <1>2, Apart, PacketsAssumption DEF IInv, PacketsAssumption
  <2>2. \A q \in Packet : Swapping(q)' <=> Swapping(q)
    BY <1>1, SameQueues
  <2>3. \A q, s \in Packet : bytes'[q] = bytes'[s] /\ ~Swapping(q) /\ ~Swapping(s) => q = s
    BY <1>4, <2>1 DEF IInv, Owned
  <2>4. \A q \in Packet, c \in Conn :
          bytes'[q] \in Buffer /\ bytes'[q] = flushing[c].buffer => Swapping(q)
    BY <1>4, <2>1 DEF IInv, Owned
  <2>5. \A q \in Packet : bytes'[q] \in Buffer /\ pool[bytes'[q]] > 0 => Swapping(q)
    BY <1>4, <2>1 DEF IInv, Owned
  <2> QED BY <1>1, <2>2, <2>3, <2>4, <2>5 DEF IInv, Owned
<1>9. refcount'[p] = References(p)'
  <2> DEFINE S == {c \in Conn : Queues(c, p)}
  <2>1. Cardinality(S) = 0
    BY <1>2, SubsetCount
  <2>2. S' = S
    BY <1>1, SameQueues
  <2>3. References(p)' = held'[p] + 0 + Cardinality(S')
    BY <1>2, <1>3 DEF References
  <2> HIDE DEF S
  <2> QED BY <1>1, <1>2, <1>4, <2>1, <2>2, <2>3
<1>10. ClearedAt(p)' /\ ArrivesAt(p)'
  BY <1>1, <1>2, <1>3, <1>4 DEF ClearedAt, ArrivesAt
<1>11. HoldsAt(p)'
  BY <1>2, <1>4 DEF HoldsAt
<1>12. UNCHANGED lines
  BY <1>1 DEF lines
<1> QED BY <1>1, <1>2, <1>5, <1>6, <1>7, <1>8, <1>9, <1>10, <1>11, <1>12, Elsewhere

LEMMA Appended ==
  ASSUME NEW S, NEW s \in Seq(S), NEW t \in Seq(S), NEW x \in S
  PROVE  /\ s \o Append(t, x) \in Seq(S) /\ Len(s \o Append(t, x)) = Len(s \o t) + 1
         /\ \A i \in 1..Len(s \o t) : (s \o Append(t, x))[i] = (s \o t)[i]
         /\ (s \o Append(t, x))[Len(s \o t) + 1] = x
OBVIOUS

\* A packet goes to the end of a queue and of what was sent.
LEMMA Sends ==
  ASSUME IInv, NEW c \in Conn, NEW p \in Packet, SendPacket(c, p)
  PROVE  /\ refcount[p] > 0 /\ held[p] > 0 /\ ~Receiving(p) /\ of[p] \in 1..made
         /\ ~SentTo(c, p) /\ ~Queues(c, p)
         /\ \A d \in Conn : d # c => Queued(d)' = Queued(d) /\ sent'[d] = sent[d]
         /\ Len(Queued(c)') = Len(Queued(c)) + 1
         /\ DOMAIN (Queued(c)') = 1..(Len(Queued(c)) + 1)
         /\ \A i \in DOMAIN Queued(c) : Queued(c)'[i] = Queued(c)[i]
         /\ Queued(c)'[Len(Queued(c)) + 1] = p
         /\ sent' \in [Conn -> Seq(Sending)] /\ pending' \in [Conn -> Seq(Packet)]
         /\ Len(sent'[c]) = Len(sent[c]) + 1
         /\ DOMAIN sent'[c] = 1..(Len(sent[c]) + 1)
         /\ \A i \in DOMAIN sent[c] : sent'[c][i] = sent[c][i]
         /\ sent'[c][Len(sent[c]) + 1].payload = of[p]
         /\ sent'[c][Len(sent[c]) + 1].compress = requireCompress(p)
<1>1. refcount[p] > 0 /\ held[p] > 0 /\ ~Receiving(p)
  BY Refers DEF IInv, SendPacket, Arrives, ArrivesAt
<1>2. of[p] \in 1..made
  BY <1>1 DEF IInv, Numbered, TypeOK
<1>3. ~SentTo(c, p)
  BY DEF SendPacket, MaySend
<1>4. ~Queues(c, p)
  BY <1>3, InQueue DEF Queues, IInv
<1>5. flushing' = flushing /\ pending' = [pending EXCEPT ![c] = Append(@, p)]
  BY DEF SendPacket
<1>6. sent' = [sent EXCEPT ![c] = Append(@, [payload |-> of[p], compress |-> requireCompress(p)])]
  BY DEF SendPacket
<1>7. \A d \in Conn : d # c => Queued(d)' = Queued(d) /\ sent'[d] = sent[d]
  BY <1>5, <1>6 DEF Queued, IInv, TypeOK
<1>8. /\ Len(Queued(c)') = Len(Queued(c)) + 1 /\ Queued(c)' \in Seq(Packet)
      /\ \A i \in 1..Len(Queued(c)) : Queued(c)'[i] = Queued(c)[i]
      /\ Queued(c)'[Len(Queued(c)) + 1] = p
      /\ pending' \in [Conn -> Seq(Packet)]
  <2> DEFINE s == flushing[c].packets  t == pending[c]
  <2>1. s \in Seq(Packet) /\ t \in Seq(Packet)
    BY QueuedType DEF IInv
  <2>2. Queued(c) = s \o t /\ Queued(c)' = s \o Append(t, p)
    BY <1>5 DEF Queued, IInv, TypeOK
  <2>3. pending' \in [Conn -> Seq(Packet)]
    BY <1>5 DEF IInv, TypeOK
  <2> HIDE DEF s, t
  <2> QED BY <2>1, <2>2, <2>3, Appended
<1>9. /\ sent' \in [Conn -> Seq(Sending)] /\ Len(sent'[c]) = Len(sent[c]) + 1
      /\ \A i \in 1..Len(sent[c]) : sent'[c][i] = sent[c][i]
      /\ sent'[c][Len(sent[c]) + 1] = [payload |-> of[p], compress |-> requireCompress(p)]
      /\ sent'[c] \in Seq(Sending)
  <2> DEFINE x == [payload |-> of[p], compress |-> requireCompress(p)]
  <2>1. requireCompress(p) \in BOOLEAN
    BY DEF requireCompress
  <2>2. x \in Sending
    BY <2>1 DEF Sending, IInv, TypeOK
  <2> HIDE DEF x
  <2>3. sent' = [sent EXCEPT ![c] = Append(@, x)]
    BY <1>6 DEF x
  <2>4. sent[c] \in Seq(Sending) /\ sent'[c] = Append(sent[c], x)
    BY <2>3 DEF IInv, TypeOK
  <2>5. sent' \in [Conn -> Seq(Sending)]
    BY <2>2, <2>3 DEF IInv, TypeOK
  <2>6. /\ Len(sent'[c]) = Len(sent[c]) + 1 /\ sent'[c] \in Seq(Sending)
        /\ \A i \in 1..Len(sent[c]) : sent'[c][i] = sent[c][i]
        /\ sent'[c][Len(sent[c]) + 1] = x
    BY ONLY <2>2, <2>4
  <2> QED BY <2>5, <2>6 DEF x
<1>10. DOMAIN Queued(c) = 1..Len(Queued(c)) /\ DOMAIN sent[c] = 1..Len(sent[c])
  BY QueuedType DEF IInv
<1>11. DOMAIN (Queued(c)') = 1..(Len(Queued(c)) + 1) /\ DOMAIN sent'[c] = 1..(Len(sent[c]) + 1)
  BY <1>8, <1>9
<1> QED BY <1>1, <1>2, <1>3, <1>4, <1>7, <1>8, <1>9, <1>10, <1>11

LEMMA StepSendPacket ==
  ASSUME IInv, Compressing => ~Broadcast, NEW c \in Conn, NEW p \in Packet, SendPacket(c, p)
  PROVE  IInv'
<1> DEFINE n == Len(sent[c])  l == Len(Queued(c))
<1>1. /\ refcount[p] > 0 /\ held[p] > 0 /\ ~Receiving(p) /\ of[p] \in 1..made
      /\ ~SentTo(c, p) /\ ~Queues(c, p)
      /\ \A d \in Conn : d # c => Queued(d)' = Queued(d) /\ sent'[d] = sent[d]
      /\ Len(Queued(c)') = l + 1 /\ DOMAIN (Queued(c)') = 1..(l + 1)
      /\ \A i \in DOMAIN Queued(c) : Queued(c)'[i] = Queued(c)[i]
      /\ Queued(c)'[l + 1] = p
      /\ sent' \in [Conn -> Seq(Sending)] /\ pending' \in [Conn -> Seq(Packet)]
      /\ Len(sent'[c]) = n + 1 /\ DOMAIN sent'[c] = 1..(n + 1)
      /\ \A i \in DOMAIN sent[c] : sent'[c][i] = sent[c][i]
      /\ sent'[c][n + 1].payload = of[p]
      /\ sent'[c][n + 1].compress = requireCompress(p)
  BY Sends
<1>2. /\ DOMAIN Queued(c) = 1..l /\ l \in Nat /\ DOMAIN sent[c] = 1..n /\ n \in Nat
  BY QueuedType DEF IInv
<1> HIDE DEF n, l
<1>3. /\ refcount' = [refcount EXCEPT ![p] = @ + 1] /\ bytes' = bytes /\ notCompress' = notCompress
      /\ content' = content /\ pool' = pool /\ held' = held /\ flushing' = flushing
      /\ wire' = wire /\ broken' = broken /\ recving' = recving /\ made' = made /\ of' = of
  BY DEF SendPacket
<1>4. TypeOK'
  <2>1. refcount' \in [Packet -> Nat]
    BY <1>3 DEF IInv, TypeOK
  <2> QED BY <1>1, <1>3, <2>1 DEF IInv, TypeOK
<1>5. \A d \in Conn, q \in Packet : Queues(d, q)' <=> Queues(d, q) \/ (d = c /\ q = p)
  <2> SUFFICES ASSUME NEW d \in Conn, NEW q \in Packet
               PROVE  Queues(d, q)' <=> Queues(d, q) \/ (d = c /\ q = p)
    OBVIOUS
  <2>1. CASE d # c
    BY <1>1, <2>1 DEF Queues
  <2>2. CASE d = c
    <3>1. ASSUME Queues(c, q)' PROVE Queues(c, q) \/ q = p
      <4>1. PICK i \in 1..(l + 1) : Queued(c)'[i] = q
        BY <1>1, <3>1 DEF Queues
      <4>2. CASE i = l + 1
        BY <1>1, <4>1, <4>2
      <4>3. CASE i \in 1..l
        BY <1>1, <1>2, <4>1, <4>3 DEF Queues
      <4> QED BY <1>2, <4>2, <4>3
    <3>2. ASSUME Queues(c, q) PROVE Queues(c, q)'
      <4>1. PICK i \in 1..l : Queued(c)[i] = q
        BY <1>2, <3>2 DEF Queues
      <4>2. i \in DOMAIN Queued(c)
        BY <1>2
      <4>3. Queued(c)'[i] = Queued(c)[i]
        BY <1>1, <4>2
      <4>4. i \in 1..(l + 1)
        BY <1>2
      <4>5. i \in DOMAIN (Queued(c)') /\ Queued(c)'[i] = q
        BY <1>1, <4>1, <4>3, <4>4
      <4> QED BY <4>5 DEF Queues
    <3>3. Queues(c, p)'
      <4>1. l + 1 \in DOMAIN (Queued(c)') /\ Queued(c)'[l + 1] = p
        BY <1>1, <1>2
      <4> QED BY <4>1 DEF Queues
    <3> QED BY <2>2, <3>1, <3>2, <3>3
  <2> QED BY <2>1, <2>2
<1>6. Counted'
  <2> SUFFICES ASSUME NEW q \in Packet PROVE refcount'[q] = References(q)'
    BY DEF Counted
  <2> DEFINE S == {d \in Conn : Queues(d, q)}
  <2>1. CASE q # p
    <3>1. S' = S
      BY <1>5, <2>1
    <3> QED BY <1>3, <2>1, <3>1 DEF IInv, TypeOK, Counted, References, Receiving
  <2>2. CASE q = p
    <3>1. S' = S \cup {c} /\ c \notin S /\ S \in SUBSET Conn
      BY <1>1, <1>5, <2>2
    <3>2. /\ refcount[p] = held[p] + 0 + Cardinality(S)
          /\ References(q)' = held'[p] + 0 + Cardinality(S')
      BY <1>1, <1>3, <2>2 DEF IInv, Counted, References, Receiving
    <3> HIDE DEF S
    <3>3. Cardinality(S') = Cardinality(S) + 1 /\ Cardinality(S) \in Nat
      BY <3>1, OneMore, SubsetCount
    <3>4. refcount'[p] = refcount[p] + 1 /\ held[p] \in Nat
      BY <1>3 DEF IInv, TypeOK
    <3> QED BY <1>3, <2>2, <3>2, <3>3, <3>4
  <2> QED BY <2>1, <2>2
<1>7. Cleared'
  BY <1>1, <1>3 DEF IInv, Cleared, ClearedAt, TypeOK
<1>8. \A q \in Packet : of[q] = of[p] => q = p
  BY <1>1 DEF IInv, Numbered
<1>9. \A d \in Conn : \A i \in DOMAIN sent'[d] :
        \/ i \in DOMAIN sent[d] /\ sent'[d][i] = sent[d][i]
        \/ d = c /\ i = n + 1
  <2> SUFFICES ASSUME NEW d \in Conn, NEW i \in DOMAIN sent'[d]
               PROVE  \/ i \in DOMAIN sent[d] /\ sent'[d][i] = sent[d][i]
                      \/ d = c /\ i = n + 1
    OBVIOUS
  <2>1. CASE d # c
    BY <1>1, <2>1
  <2>2. CASE d = c
    <3>1. i \in 1..(n + 1)
      BY <1>1, <2>2
    <3>2. CASE i \in DOMAIN sent[c]
      BY <1>1, <2>2, <3>2
    <3>3. i \in DOMAIN sent[c] \/ i = n + 1
      BY <1>2, <3>1
    <3> QED BY <2>2, <3>2, <3>3
  <2> QED BY <2>1, <2>2
<1>10. \A i \in DOMAIN sent[c] : sent[c][i].payload # of[p]
  BY <1>1 DEF SentTo
<1>11. Numbered'
  <2>1. \A q \in Packet : of'[q] <= made' /\ (refcount'[q] > 0 => of'[q] > 0)
    BY <1>1, <1>3 DEF IInv, Numbered, TypeOK
  <2>2. \A d \in Conn : \A i \in DOMAIN sent'[d] : sent'[d][i].payload \in 1..made
    BY <1>1, <1>9 DEF IInv, Numbered
  <2>3. \A d \in Conn : \A i, j \in DOMAIN sent'[d] :
          sent'[d][i].payload = sent'[d][j].payload => i = j
    <3> SUFFICES ASSUME NEW d \in Conn, NEW i \in DOMAIN sent'[d], NEW j \in DOMAIN sent'[d],
                        sent'[d][i].payload = sent'[d][j].payload
                 PROVE  i = j
      OBVIOUS
    <3>1. \/ i \in DOMAIN sent[d] /\ sent'[d][i] = sent[d][i]
          \/ d = c /\ i = n + 1
      BY <1>9
    <3>2. \/ j \in DOMAIN sent[d] /\ sent'[d][j] = sent[d][j]
          \/ d = c /\ j = n + 1
      BY <1>9
    <3>3. i \in DOMAIN sent[d] /\ j \in DOMAIN sent[d]
            /\ sent[d][i].payload = sent[d][j].payload => i = j
      BY DEF IInv, Numbered
    <3> QED BY <1>1, <1>10, <3>1, <3>2, <3>3
  <2> QED BY <1>3, <2>1, <2>2, <2>3 DEF IInv, Numbered
<1>12. Arrives'
  <2> SUFFICES ASSUME NEW q \in Packet, Receiving(q)' PROVE ArrivesAt(q)'
    BY DEF Arrives, ArrivesAt
  <2>1. Receiving(q) /\ ArrivesAt(q) /\ q # p
    BY <1>1, <1>3 DEF Receiving, IInv, Arrives
  <2>2. \A d \in Conn : ~SentTo(d, q)'
    <3> SUFFICES ASSUME NEW d \in Conn, NEW i \in DOMAIN sent'[d] PROVE sent'[d][i].payload # of[q]
      BY <1>3 DEF SentTo
    <3>1. \/ i \in DOMAIN sent[d] /\ sent'[d][i] = sent[d][i]
          \/ d = c /\ i = n + 1
      BY <1>9
    <3>2. ~SentTo(d, q) /\ of[q] # of[p]
      BY <1>8, <2>1 DEF ArrivesAt
    <3> QED BY <1>1, <3>1, <3>2 DEF SentTo
  <2> QED BY <1>3, <2>1, <2>2 DEF ArrivesAt
<1>13. \A q \in Packet : Swapping(q)' <=> Swapping(q)
  BY <1>3 DEF Swapping, Flushing, Current
<1>14. Owned'
  BY <1>3 DEF IInv, Owned, Swapping, Flushing, Current
<1>15. Holds'
  <2> SUFFICES ASSUME NEW q \in Packet, refcount'[q] > 0, ~Swapping(q)', ~Receiving(q)'
               PROVE  Whole(q)'
    BY DEF Holds, HoldsAt
  <2>1. Whole(q)
    BY <1>1, <1>3, <1>13 DEF IInv, Holds, HoldsAt, TypeOK, Receiving
  <2>2. \A d \in Conn : \A i \in DOMAIN sent'[d] :
          sent'[d][i].payload = of[q] /\ ~sent'[d][i].compress => ~requireCompress(q)
    <3> SUFFICES ASSUME NEW d \in Conn, NEW i \in DOMAIN sent'[d],
                        sent'[d][i].payload = of[q], ~sent'[d][i].compress
                 PROVE  ~requireCompress(q)
      OBVIOUS
    <3>1. \/ i \in DOMAIN sent[d] /\ sent'[d][i] = sent[d][i]
          \/ d = c /\ i = n + 1
      BY <1>9
    <3> QED BY <1>1, <1>8, <2>1, <3>1 DEF Whole
  <2> QED BY <1>3, <2>1, <2>2 DEF Whole, requireCompress
<1>16. Alone'
  <2> SUFFICES ASSUME Compressing, NEW d \in Conn, NEW e \in Conn,
                      NEW i \in DOMAIN sent'[d], NEW j \in DOMAIN sent'[e],
                      sent'[d][i].payload = sent'[e][j].payload, sent'[d][i].compress
               PROVE  d = e
    BY DEF Alone
  <2>1. \A f \in Conn : \A k \in DOMAIN sent[f] :
          sent[f][k].payload = of[p] => ~sent[f][k].compress
    <3> SUFFICES ASSUME NEW f \in Conn, NEW k \in DOMAIN sent[f],
                        sent[f][k].payload = of[p], sent[f][k].compress
                 PROVE  FALSE
      OBVIOUS
    <3>1. sent[f][k] \in Sending /\ sent[f][k] # [payload |-> of[p], compress |-> TRUE]
      <4>1. sent[f] \in Seq(Sending)
        BY DEF IInv, TypeOK
      <4>2. sent[f][k] \in Sending
        BY <4>1
      <4>3. sent[f][k] # [payload |-> of[p], compress |-> TRUE]
        BY DEF SendPacket, MaySend
      <4> QED BY <4>2, <4>3
    <3> QED BY <3>1 DEF Sending
  <2>2. ~Swapping(p)
    <3> SUFFICES ASSUME NEW f \in Conn, Flushing(f, "swap"), Current(f) = p
                 PROVE  FALSE
      BY DEF Swapping
    <3>1. SentTo(f, p)
      BY AtHead DEF Flushing, IInv
    <3> QED BY <2>1, <3>1 DEF SentTo, Flushing, IInv, Stages, StagesAt
  <2>3. Whole(p)
    BY <1>1, <2>2 DEF IInv, Holds, HoldsAt
  <2>4. requireCompress(p) => \A f \in Conn : ~SentTo(f, p)
    BY <2>1, <2>3 DEF Whole, SentTo
  <2>5. CASE i \in DOMAIN sent[d] /\ sent'[d][i] = sent[d][i]
             /\ j \in DOMAIN sent[e] /\ sent'[e][j] = sent[e][j]
    BY <2>5 DEF IInv, Alone
  <2>6. CASE e = c /\ j = n + 1 /\ i \in DOMAIN sent[d] /\ sent'[d][i] = sent[d][i]
    BY <1>1, <2>1, <2>6
  <2>7. CASE d = c /\ i = n + 1
    <3>1. \/ j \in DOMAIN sent[e] /\ sent'[e][j] = sent[e][j]
          \/ e = c /\ j = n + 1
      BY <1>9
    <3>2. requireCompress(p) /\ sent'[e][j].payload = of[p]
      BY <1>1, <2>7
    <3>3. ~SentTo(e, p)
      BY <2>4, <3>2
    <3> QED BY <2>7, <3>1, <3>2, <3>3 DEF SentTo
  <2> QED BY <1>9, <2>5, <2>6, <2>7
<1>17. Lines'
  <2> SUFFICES ASSUME NEW d \in Conn
               PROVE  /\ Len(wire[d]) <= Served(d)' /\ (d \notin broken => Len(wire[d]) = Served(d)')
                      /\ \A i \in DOMAIN wire[d] :
                           wire[d][i].payload = sent'[d][i].payload /\ (wire[d][i].zip => Compressing)
                      /\ \A i \in DOMAIN (Queued(d)') :
                           /\ Done(d)' + i \in DOMAIN sent'[d]
                           /\ sent'[d][Done(d)' + i].payload = of[Queued(d)'[i]]
    BY <1>3 DEF Lines
  <2>1. CASE d # c
    <3>1. /\ Queued(d)' = Queued(d) /\ sent'[d] = sent[d] /\ Done(d)' = Done(d)
          /\ Served(d)' = Served(d)
      BY <1>1, <1>3, <2>1 DEF Done, Served
    <3> QED BY <3>1 DEF IInv, Lines
  <2>2. CASE d = c
    <3>1. Done(c)' = Done(c) /\ Done(c) = n - l
      BY <1>1, <1>2 DEF Done, n, l
    <3>2. DOMAIN wire[c] = 1..Len(wire[c]) /\ Len(wire[c]) \in Nat
      BY QueuedType DEF IInv
    <3>3. /\ Len(wire[c]) <= Served(c) /\ (c \notin broken => Len(wire[c]) = Served(c))
          /\ Served(c)' = Served(c)
          /\ Served(c) = Done(c) + (IF flushing[c].at = "release" THEN 1 ELSE 0)
      BY <1>3, <3>1 DEF IInv, Lines, Served
    <3>4. Len(wire[c]) <= n
      <4>1. CASE flushing[c].at = "release"
        <5>1. flushing[c].packets # << >>
          BY <4>1 DEF IInv, Stages, StagesAt, Idle
        <5>2. Done(c) + 1 \in DOMAIN sent[c]
          BY <5>1, AtHead DEF IInv
        <5> QED BY <1>2, <3>3, <4>1, <5>2
      <4>2. CASE flushing[c].at # "release"
        BY <1>2, <3>1, <3>3, <4>2
      <4> QED BY <4>1, <4>2
    <3>5. \A i \in DOMAIN wire[c] :
            wire[c][i].payload = sent'[c][i].payload /\ (wire[c][i].zip => Compressing)
      <4> SUFFICES ASSUME NEW i \in DOMAIN wire[c]
                   PROVE  wire[c][i].payload = sent'[c][i].payload /\ (wire[c][i].zip => Compressing)
        OBVIOUS
      <4>1. i \in 1..n
        BY <1>2, <3>2, <3>4
      <4>2. wire[c][i].payload = sent[c][i].payload /\ (wire[c][i].zip => Compressing)
        BY DEF IInv, Lines
      <4> QED BY <1>1, <1>2, <4>1, <4>2
    <3>6. ASSUME NEW i \in DOMAIN (Queued(c)')
          PROVE  /\ Done(c) + i \in DOMAIN sent'[c]
                 /\ sent'[c][Done(c) + i].payload = of[Queued(c)'[i]]
      <4>1. CASE i = l + 1
        BY <1>1, <1>2, <3>1, <4>1
      <4>2. CASE i \in DOMAIN Queued(c)
        <5>1. /\ Done(c) + i \in DOMAIN sent[c]
              /\ sent[c][Done(c) + i].payload = of[Queued(c)[i]]
          BY <4>2 DEF IInv, Lines
        <5> QED BY <1>1, <1>2, <4>2, <5>1
      <4> QED BY <1>1, <1>2, <4>1, <4>2
    <3> QED BY <2>2, <3>1, <3>3, <3>5, <3>6
  <2> QED BY <2>1, <2>2
<1>18. Stages'
  <2> SUFFICES ASSUME NEW d \in Conn, flushing[d].at \in {"compress", "reclaim", "swap"},
                      NEW i \in DOMAIN sent'[d], sent'[d][i].payload = of[Current(d)]
               PROVE  sent'[d][i].compress
    BY <1>3 DEF IInv, Stages, StagesAt, Current, requireCompress
  <2>1. flushing[d].packets # << >>
    BY Compresses DEF IInv
  <2>2. Current(d) \in Packet /\ Queues(d, Current(d))
    BY <2>1, AtHead DEF IInv
  <2>3. i \in DOMAIN sent[d] /\ sent'[d][i] = sent[d][i]
    BY <1>1, <1>8, <1>9, <2>2
  <2> QED BY <2>3 DEF IInv, Stages, StagesAt
<1> QED BY <1>4, <1>6, <1>7, <1>11, <1>12, <1>14, <1>15, <1>16, <1>17, <1>18 DEF IInv

-----------------------------------------------------------------------------
(* The steps of a flush goroutine                                          *)

LEMMA NotSwapped ==
  ASSUME IInv, NEW c \in Conn, flushing[c].packets # << >>, flushing[c].at # "swap"
  PROVE  ~Swapping(Current(c)) /\ Whole(Current(c))
<1>1. /\ Current(c) \in Packet /\ Queues(c, Current(c))
      /\ refcount[Current(c)] > 0 /\ ~Receiving(Current(c))
  BY AtHead DEF IInv
<1>2. ~Swapping(Current(c))
  <2> SUFFICES ASSUME NEW d \in Conn, Flushing(d, "swap"), Current(d) = Current(c)
               PROVE  FALSE
    BY DEF Swapping
  <2>1. c = d
    BY <1>1, Compresses DEF Flushing, IInv
  <2> QED BY <2>1 DEF Flushing
<1> QED BY <1>1, <1>2 DEF IInv, Holds, HoldsAt

\* What every step of a goroutine in the middle of a packet leaves alone.
LEMMA FlushKeeps ==
  ASSUME IInv, NEW c \in Conn, flushing' \in [Conn -> Goroutine],
         \A d \in Conn : d # c => flushing'[d] = flushing[d],
         flushing'[c].packets = flushing[c].packets,
         UNCHANGED <<refcount, held, notCompress, pending, sent, recving, made, of>>,
         \A q \in Packet : content'[q] = content[q] /\ (refcount[q] = 0 => bytes'[q] = bytes[q])
  PROVE  /\ Counted' /\ Cleared' /\ Numbered' /\ Arrives' /\ Alone'
         /\ \A d \in Conn : /\ Queued(d)' = Queued(d) /\ Done(d)' = Done(d)
                            /\ Current(d)' = Current(d)
         /\ wire' = wire /\ broken' = broken
              /\ (flushing'[c].at = "release" <=> flushing[c].at = "release") => Lines'
         /\ \A q \in Packet : q # Current(c) => (Swapping(q)' <=> Swapping(q))
<1>1. \A d \in Conn : flushing'[d].packets = flushing[d].packets
  OBVIOUS
<1>2. \A d \in Conn : /\ Queued(d)' = Queued(d) /\ Done(d)' = Done(d)
                      /\ Current(d)' = Current(d)
  BY <1>1 DEF Queued, Done, Current
<1>3. Counted'
  <2> SUFFICES ASSUME NEW q \in Packet PROVE refcount'[q] = References(q)'
    BY DEF Counted
  <2>1. {d \in Conn : Queues(d, q)}' = {d \in Conn : Queues(d, q)}
    <3>1. \A d \in Conn : Queues(d, q)' <=> Queues(d, q)
      BY <1>2 DEF Queues
    <3> QED BY <3>1
  <2>2. References(q)' = References(q)
    BY <2>1 DEF References, Receiving
  <2> QED BY <2>2 DEF IInv, Counted
<1>4. Cleared'
  BY DEF IInv, Cleared, ClearedAt
<1>5. Numbered'
  BY DEF IInv, Numbered
<1>6. Arrives'
  BY DEF IInv, Arrives, ArrivesAt, Receiving, SentTo
<1>7. Alone'
  BY DEF IInv, Alone
<1>8. ASSUME wire' = wire, broken' = broken, flushing'[c].at = "release" <=> flushing[c].at = "release"
      PROVE  Lines'
  <2> SUFFICES ASSUME NEW d \in Conn
               PROVE  /\ Len(wire[d]) <= Served(d)' /\ (d \notin broken => Len(wire[d]) = Served(d)')
                      /\ \A i \in DOMAIN wire[d] :
                           wire[d][i].payload = sent[d][i].payload /\ (wire[d][i].zip => Compressing)
                      /\ \A i \in DOMAIN (Queued(d)') :
                           /\ Done(d)' + i \in DOMAIN sent[d]
                           /\ sent[d][Done(d)' + i].payload = of[Queued(d)'[i]]
    BY <1>8 DEF Lines
  <2>1. Served(d)' = Served(d)
    <3>1. flushing'[d].at = "release" <=> flushing[d].at = "release"
      BY <1>8
    <3> QED BY <1>2, <3>1 DEF Served
  <2> QED BY <1>2, <2>1 DEF IInv, Lines
<1>9. ASSUME NEW q \in Packet, q # Current(c) PROVE Swapping(q)' <=> Swapping(q)
  <2>1. \A d \in Conn : (Flushing(d, "swap") /\ Current(d) = q)'
                          <=> (Flushing(d, "swap") /\ Current(d) = q)
    BY <1>2, <1>9 DEF Flushing
  <2> QED BY <2>1 DEF Swapping
<1> QED BY <1>2, <1>3, <1>4, <1>5, <1>6, <1>7, <1>8, <1>9

LEMMA StepFlush ==
  ASSUME IInv, NEW c \in Conn, Flush(c)
  PROVE  IInv'
<1>1. /\ flushing' = [flushing EXCEPT ![c].packets = pending[c]]
      /\ pending' = [pending EXCEPT ![c] = << >>] /\ flushing[c].packets = << >>
      /\ refcount' = refcount /\ bytes' = bytes /\ notCompress' = notCompress
      /\ content' = content /\ pool' = pool /\ held' = held /\ sent' = sent
      /\ wire' = wire /\ broken' = broken /\ recving' = recving /\ made' = made /\ of' = of
  BY DEF Flush, owned
<1>2. flushing[c] = Idle
  BY <1>1 DEF IInv, Stages, StagesAt
<1>3. /\ flushing' \in [Conn -> Goroutine] /\ pending' \in [Conn -> Seq(Packet)]
      /\ \A d \in Conn : d # c => flushing'[d] = flushing[d] /\ pending'[d] = pending[d]
      /\ flushing'[c].packets = pending[c] /\ pending'[c] = << >>
      /\ flushing'[c].at = "next" /\ flushing'[c].buffer = << >>
      /\ flushing[c].at = "next" /\ flushing[c].buffer = << >>
  <2>1. flushing[c] \in Goroutine /\ pending[c] \in Seq(Packet)
    BY QueuedType DEF IInv
  <2>2. flushing'[c] = [flushing[c] EXCEPT !.packets = pending[c]]
        /\ \A d \in Conn : d # c => flushing'[d] = flushing[d]
    BY <1>1 DEF IInv, TypeOK
  <2>3. /\ flushing'[c] \in Goroutine /\ flushing'[c].packets = pending[c]
        /\ flushing'[c].at = flushing[c].at /\ flushing'[c].buffer = flushing[c].buffer
    BY <2>1, <2>2 DEF Goroutine
  <2>4. flushing' \in [Conn -> Goroutine]
    BY <1>1, <2>3 DEF IInv, TypeOK
  <2>5. pending' \in [Conn -> Seq(Packet)] /\ pending'[c] = << >>
        /\ \A d \in Conn : d # c => pending'[d] = pending[d]
    BY <1>1 DEF IInv, TypeOK
  <2>6. flushing[c].at = "next" /\ flushing[c].buffer = << >>
    BY <1>2 DEF Idle
  <2> QED BY <2>2, <2>3, <2>4, <2>5, <2>6
<1>4. TypeOK'
  BY <1>1, <1>3 DEF IInv, TypeOK
<1>5. \A d \in Conn : Queued(d)' = Queued(d) /\ Done(d)' = Done(d)
  <2> SUFFICES ASSUME NEW d \in Conn PROVE Queued(d)' = Queued(d)
    BY <1>1 DEF Done
  <2>1. CASE d # c
    BY <1>3, <2>1 DEF Queued
  <2>2. CASE d = c
    <3>1. pending[c] \in Seq(Packet)
      BY QueuedType DEF IInv
    <3>2. pending[c] \o << >> = << >> \o pending[c]
      BY <3>1
    <3> QED BY <1>1, <1>3, <2>2, <3>2 DEF Queued
  <2> QED BY <2>1, <2>2
<1>6. Counted'
  <2> SUFFICES ASSUME NEW q \in Packet PROVE refcount'[q] = References(q)'
    BY DEF Counted
  <2>1. \A d \in Conn : Queues(d, q)' <=> Queues(d, q)
    BY <1>5 DEF Queues
  <2>2. {d \in Conn : Queues(d, q)}' = {d \in Conn : Queues(d, q)}
    BY <2>1
  <2>3. References(q)' = References(q)
    BY <1>1, <2>2 DEF References, Receiving
  <2> QED BY <1>1, <2>3 DEF IInv, Counted
<1>7. Cleared' /\ Numbered' /\ Alone'
  BY <1>1 DEF IInv, Cleared, ClearedAt, Numbered, Alone
<1>8. Arrives'
  BY <1>1 DEF IInv, Arrives, ArrivesAt, Receiving, SentTo
<1>9. \A q \in Packet : Swapping(q)' <=> Swapping(q)
  <2> SUFFICES ASSUME NEW q \in Packet, NEW d \in Conn
               PROVE  (Flushing(d, "swap") /\ Current(d) = q)' <=> (Flushing(d, "swap") /\ Current(d) = q)
    BY DEF Swapping
  <2>1. CASE d # c
    BY <1>3, <2>1 DEF Flushing, Current
  <2>2. CASE d = c
    BY <1>3, <2>2 DEF Flushing
  <2> QED BY <2>1, <2>2
<1>10. Owned'
  <2>1. \A d \in Conn : flushing'[d].buffer = flushing[d].buffer
    BY <1>3
  <2> QED BY <1>1, <1>9, <2>1 DEF IInv, Owned
<1>11. Holds'
  <2> SUFFICES ASSUME NEW q \in Packet PROVE HoldsAt(q)'
    BY DEF Holds
  <2>1. HoldsAt(q)
    BY DEF IInv, Holds
  <2> QED BY <1>1, <1>9, <2>1 DEF HoldsAt, Whole, Receiving, requireCompress
<1>12. Lines'
  <2>1. \A d \in Conn : flushing'[d].at = flushing[d].at
    BY <1>3
  <2>2. \A d \in Conn : Served(d)' = Served(d)
    BY <1>5, <2>1 DEF Served
  <2> QED BY <1>1, <1>5, <2>2 DEF IInv, Lines
<1>13. Stages'
  <2> SUFFICES ASSUME NEW d \in Conn
               PROVE  StagesAt(d)'
    BY DEF Stages
  <2>1. CASE d # c
    <3>1. flushing'[d] = flushing[d] /\ Current(d)' = Current(d)
      BY <1>3, <2>1 DEF Current
    <3> QED BY <1>1, <3>1 DEF IInv, Stages, StagesAt, requireCompress
  <2>2. CASE d = c
    <3>1. flushing'[c].packets # << >>
      BY <1>3 DEF Flush
    <3> QED BY <1>3, <2>2, <3>1 DEF StagesAt
  <2> QED BY <2>1, <2>2
<1> QED BY <1>4, <1>6, <1>7, <1>8, <1>10, <1>11, <1>12, <1>13 DEF IInv

\* The record of a goroutine after a step that keeps its packets.
LEMMA Goes ==
  ASSUME TypeOK, NEW c \in Conn, NEW f \in Goroutine, flushing' = [flushing EXCEPT ![c] = f]
  PROVE  /\ flushing' \in [Conn -> Goroutine] /\ flushing'[c] = f
         /\ \A d \in Conn : d # c => flushing'[d] = flushing[d]
BY DEF TypeOK

LEMMA Records ==
  ASSUME NEW f \in Goroutine, NEW step \in Steps, NEW b \in Buffer \cup {<< >>},
         NEW s \in Packet \cup Buffer \cup {<< >>}
  PROVE  /\ [f EXCEPT !.at = step] \in Goroutine
         /\ [f EXCEPT !.at = step, !.buffer = b] \in Goroutine
         /\ [f EXCEPT !.at = step, !.from = s] \in Goroutine
         /\ [f EXCEPT !.at = step, !.buffer = b, !.from = s] \in Goroutine
<1>1. [f EXCEPT !.at = step] \in Goroutine
  BY DEF Goroutine
<1>2. [f EXCEPT !.at = step, !.buffer = b] \in Goroutine
  BY DEF Goroutine
<1>3. [f EXCEPT !.at = step, !.from = s] \in Goroutine
  BY DEF Goroutine
<1>4. [f EXCEPT !.at = step, !.buffer = b, !.from = s] \in Goroutine
  BY DEF Goroutine
<1> QED BY <1>1, <1>2, <1>3, <1>4

LEMMA IdleWith ==
  ASSUME NEW ps \in Seq(Packet)
  PROVE  /\ [Idle EXCEPT !.packets = ps, !.at = "write"] \in Goroutine
         /\ [Idle EXCEPT !.packets = ps, !.at = "write"].packets = ps
         /\ [Idle EXCEPT !.packets = ps, !.at = "write"].at = "write"
         /\ [Idle EXCEPT !.packets = ps, !.at = "write"].buffer = << >>
         /\ [Idle EXCEPT !.packets = ps] \in Goroutine
         /\ [Idle EXCEPT !.packets = ps].packets = ps
         /\ [Idle EXCEPT !.packets = ps].at = "next"
         /\ [Idle EXCEPT !.packets = ps].buffer = << >>
         /\ ps = << >> => [Idle EXCEPT !.packets = ps] = Idle
<1>1. /\ Idle \in Goroutine /\ Idle.packets = << >> /\ Idle.at = "next"
      /\ Idle.buffer = << >> /\ Idle.from = << >>
  BY DEF Idle, Goroutine, Steps
<1>2. ASSUME NEW f \in Goroutine
      PROVE  /\ [f EXCEPT !.packets = ps] \in Goroutine
             /\ [f EXCEPT !.packets = ps].packets = ps
             /\ [f EXCEPT !.packets = ps].at = f.at
             /\ [f EXCEPT !.packets = ps].buffer = f.buffer
             /\ [f EXCEPT !.packets = f.packets] = f
  BY DEF Goroutine
<1>3. ASSUME NEW f \in Goroutine
      PROVE  /\ [f EXCEPT !.packets = ps, !.at = "write"] \in Goroutine
             /\ [f EXCEPT !.packets = ps, !.at = "write"].packets = ps
             /\ [f EXCEPT !.packets = ps, !.at = "write"].at = "write"
             /\ [f EXCEPT !.packets = ps, !.at = "write"].buffer = f.buffer
  BY DEF Goroutine, Steps
<1>4. ps = << >> => [Idle EXCEPT !.packets = ps] = Idle
  BY <1>1, <1>2
<1> QED BY <1>1, <1>2, <1>3, <1>4

\* The goroutines that did not step, when the bytes of their packets are kept.
LEMMA OtherStages ==
  ASSUME IInv, NEW c \in Conn, NEW d \in Conn, d # c,
         flushing'[d] = flushing[d], sent'[d] = sent[d], of' = of,
         flushing[d].at \in {"compress", "reclaim"} => Kept(Current(d)),
         flushing[d].buffer \in Buffer =>
           content'[flushing[d].buffer] = content[flushing[d].buffer]
  PROVE  StagesAt(d)'
<1>1. StagesAt(d) /\ Current(d)' = Current(d)
  BY DEF IInv, Stages, Current
<1> QED BY <1>1 DEF StagesAt, Kept, requireCompress

LEMMA StepStartCompress ==
  ASSUME IInv, NEW c \in Conn, StartCompress(c)
  PROVE  IInv'
<1>0. PICK p : p = Current(c)
  OBVIOUS
<1>1. /\ flushing[c].packets # << >> /\ flushing[c].at = "next"
      /\ refcount' = refcount /\ bytes' = bytes /\ notCompress' = notCompress
      /\ content' = content /\ held' = held /\ pending' = pending /\ sent' = sent
      /\ wire' = wire /\ broken' = broken /\ recving' = recving /\ made' = made /\ of' = of
      /\ \/ /\ Compressing /\ requireCompress(p)
            /\ \E b \in Buffer :
                 /\ CanGet(b, PayloadCap(p)) /\ pool' = Got(b)
                 /\ flushing' = [flushing EXCEPT ![c].at = "compress", ![c].buffer = b,
                                                 ![c].from = bytes[p]]
         \/ flushing' = [flushing EXCEPT ![c].at = "write"] /\ pool' = pool
  BY <1>0 DEF StartCompress, Flushing
<1>2. /\ p \in Packet /\ ~Swapping(p) /\ Whole(p) /\ bytes[p] \in Packet \cup Buffer
      /\ flushing[c] \in Goroutine /\ flushing[c].buffer = << >>
  BY <1>0, <1>1, AtHead, NotSwapped, QueuedType DEF IInv, TypeOK, Stages, StagesAt
<1>3. PICK f \in Goroutine :
        /\ flushing' = [flushing EXCEPT ![c] = f] /\ f.packets = flushing[c].packets
        /\ \/ /\ Compressing /\ requireCompress(p) /\ f.at = "compress" /\ f.from = bytes[p]
              /\ \E b \in Buffer : CanGet(b, PayloadCap(p)) /\ pool' = Got(b) /\ f.buffer = b
           \/ f.at = "write" /\ f.buffer = << >> /\ pool' = pool
  <2>1. CASE flushing' = [flushing EXCEPT ![c].at = "write"] /\ pool' = pool
    <3> DEFINE f == [flushing[c] EXCEPT !.at = "write"]
    <3>1. f \in Goroutine /\ f.packets = flushing[c].packets /\ f.at = "write" /\ f.buffer = << >>
      BY <1>2 DEF Goroutine, Steps
    <3>2. flushing' = [flushing EXCEPT ![c] = f]
      BY <2>1
    <3> QED BY <2>1, <3>1, <3>2
  <2>2. ASSUME Compressing /\ requireCompress(p), NEW b \in Buffer,
               CanGet(b, PayloadCap(p)), pool' = Got(b),
               flushing' = [flushing EXCEPT ![c].at = "compress", ![c].buffer = b,
                                            ![c].from = bytes[p]]
        PROVE  \E f \in Goroutine :
                 /\ flushing' = [flushing EXCEPT ![c] = f] /\ f.packets = flushing[c].packets
                 /\ f.at = "compress" /\ f.from = bytes[p] /\ f.buffer = b
    <3> DEFINE f == [flushing[c] EXCEPT !.at = "compress", !.buffer = b, !.from = bytes[p]]
    <3>1. /\ f \in Goroutine /\ f.packets = flushing[c].packets /\ f.at = "compress"
          /\ f.buffer = b /\ f.from = bytes[p]
      BY <1>2 DEF Goroutine, Steps
    <3>2. flushing' = [flushing EXCEPT ![c] = f]
      BY <2>2
    <3> HIDE DEF f
    <3> QED BY <2>2, <3>1, <3>2
  <2>3. CASE /\ Compressing /\ requireCompress(p)
             /\ \E b \in Buffer :
                  /\ CanGet(b, PayloadCap(p)) /\ pool' = Got(b)
                  /\ flushing' = [flushing EXCEPT ![c].at = "compress", ![c].buffer = b,
                                                  ![c].from = bytes[p]]
    <3>1. PICK b \in Buffer :
            /\ CanGet(b, PayloadCap(p)) /\ pool' = Got(b)
            /\ flushing' = [flushing EXCEPT ![c].at = "compress", ![c].buffer = b,
                                            ![c].from = bytes[p]]
      BY <2>3
    <3>2. PICK f \in Goroutine :
            /\ flushing' = [flushing EXCEPT ![c] = f] /\ f.packets = flushing[c].packets
            /\ f.at = "compress" /\ f.from = bytes[p] /\ f.buffer = b
      BY <2>2, <2>3, <3>1
    <3> QED BY <2>3, <3>1, <3>2
  <2> QED BY <1>1, <2>1, <2>3
<1>4. /\ flushing' \in [Conn -> Goroutine] /\ flushing'[c] = f
      /\ \A d \in Conn : d # c => flushing'[d] = flushing[d]
  BY <1>3, Goes DEF IInv
<1>5. TypeOK'
  <2>1. pool' \in [Buffer -> Nat]
    BY <1>3, PoolType DEF IInv, TypeOK
  <2> QED BY <1>1, <1>4, <2>1 DEF IInv, TypeOK
<1>6. /\ Counted' /\ Cleared' /\ Numbered' /\ Arrives' /\ Alone' /\ Lines'
      /\ \A d \in Conn : Current(d)' = Current(d)
      /\ \A q \in Packet : q # Current(c) => (Swapping(q)' <=> Swapping(q))
  BY <1>1, <1>3, <1>4, FlushKeeps
<1>7. \A q \in Packet : Swapping(q)' <=> Swapping(q)
  <2>1. ~Swapping(p)'
    <3> SUFFICES ASSUME NEW d \in Conn PROVE ~(Flushing(d, "swap") /\ Current(d) = p)'
      BY DEF Swapping
    <3>1. CASE d = c
      BY <1>3, <1>4, <3>1 DEF Flushing
    <3>2. CASE d # c
      BY <1>2, <1>4, <1>6, <3>2 DEF Swapping, Flushing
    <3> QED BY <3>1, <3>2
  <2> QED BY <1>0, <1>2, <1>6, <2>1
<1>8. Owned'
  <2>1. CASE f.buffer = << >> /\ pool' = pool
    <3>1. \A d \in Conn : flushing'[d].buffer = flushing[d].buffer
      BY <1>2, <1>4, <2>1
    <3> QED BY <1>1, <1>7, <2>1, <3>1 DEF IInv, Owned
  <2>2. ASSUME NEW b \in Buffer, CanGet(b, PayloadCap(p)), pool' = Got(b), f.buffer = b
        PROVE  Owned'
    <3>1. \/ pool[b] = 1
          \/ /\ \A q \in Packet : bytes[q] # b
             /\ \A d \in Conn : flushing[d].buffer # b
      BY <2>2 DEF CanGet, InUse, IInv, Owned, TypeOK
    <3>2. \A q \in Packet : bytes[q] = b => Swapping(q)
      BY <3>1 DEF IInv, Owned
    <3>3. \A d \in Conn : flushing[d].buffer # b
      BY <3>1 DEF IInv, Owned
    <3>4. pool'[b] = 0 /\ \A x \in Buffer : x # b => pool'[x] = pool[x]
      BY <2>2, <3>1 DEF Got, IInv, Owned, TypeOK
    <3>5. \A d \in Conn : flushing'[d].buffer = IF d = c THEN b ELSE flushing[d].buffer
      BY <1>4, <2>2
    <3>6. \A d, e \in Conn : flushing'[d].buffer = flushing'[e].buffer
                               /\ flushing'[d].buffer # << >> => d = e
      BY <3>3, <3>5 DEF IInv, Owned
    <3>7. \A q \in Packet, d \in Conn :
            bytes[q] \in Buffer /\ bytes[q] = flushing'[d].buffer => Swapping(q)
      BY <3>2, <3>5 DEF IInv, Owned
    <3>8. \A x \in Buffer : pool'[x] <= 1
      BY <3>4 DEF IInv, Owned
    <3>9. \A q \in Packet : bytes[q] \in Buffer /\ pool'[bytes[q]] > 0 => Swapping(q)
      BY <3>2, <3>4 DEF IInv, Owned
    <3>10. \A d \in Conn : flushing'[d].buffer \in Buffer => pool'[flushing'[d].buffer] = 0
      BY <3>3, <3>4, <3>5 DEF IInv, Owned
    <3> QED BY <1>1, <1>7, <3>6, <3>7, <3>8, <3>9, <3>10 DEF IInv, Owned
  <2> QED BY <1>3, <2>1, <2>2
<1>9. Holds'
  <2> SUFFICES ASSUME NEW q \in Packet PROVE HoldsAt(q)'
    BY DEF Holds
  <2>1. HoldsAt(q)
    BY DEF IInv, Holds
  <2> QED BY <1>1, <1>7, <2>1 DEF HoldsAt, Whole, Receiving, requireCompress
<1>10. Stages'
  <2> SUFFICES ASSUME NEW d \in Conn PROVE StagesAt(d)'
    BY DEF Stages
  <2>1. CASE d # c
    <3>1. Kept(Current(d))
      BY <1>1 DEF Kept
    <3> QED BY <1>1, <1>4, <2>1, <3>1, OtherStages
  <2>2. CASE d = c
    <3>1. requireCompress(p) =>
            \A i \in DOMAIN sent[c] : sent[c][i].payload = of[p] => sent[c][i].compress
      BY <1>2 DEF Whole
    <3>2. Current(c)' = p /\ requireCompress(p)' = requireCompress(p)
      BY <1>0, <1>1, <1>6 DEF requireCompress
    <3>3. /\ flushing'[c].packets # << >>
          /\ flushing'[c].at = "compress" => flushing'[c].from = bytes'[p]
      BY <1>1, <1>3, <1>4
    <3> QED BY <1>1, <1>3, <1>4, <2>2, <3>1, <3>2, <3>3 DEF StagesAt
  <2> QED BY <2>1, <2>2
<1> QED BY <1>5, <1>6, <1>8, <1>9, <1>10 DEF IInv

\* Nothing changes for who swaps when a goroutine is not at it before and after.
LEMMA SameSwapping ==
  ASSUME IInv, NEW c \in Conn, flushing[c].at # "swap", flushing'[c].at # "swap",
         \A d \in Conn : d # c => flushing'[d] = flushing[d],
         NEW q
  PROVE  Swapping(q)' <=> Swapping(q)
<1> SUFFICES ASSUME NEW d \in Conn
             PROVE  (Flushing(d, "swap") /\ Current(d) = q)' <=> (Flushing(d, "swap") /\ Current(d) = q)
  BY DEF Swapping
<1>1. CASE d = c
  BY <1>1 DEF Flushing
<1>2. CASE d # c
  BY <1>2 DEF Flushing, Current
<1> QED BY <1>1, <1>2

\* The packet of a goroutine that compresses is at no other goroutine.
LEMMA AtNoOther ==
  ASSUME IInv, NEW c \in Conn, NEW d \in Conn, d # c, flushing[c].packets # << >>,
         flushing[d].at \in {"compress", "reclaim", "swap"}
  PROVE  Current(d) # Current(c) /\ Current(d) \in Packet /\ flushing[d].packets # << >>
BY Compresses, AtHead DEF IInv

LEMMA StepCompress ==
  ASSUME IInv, NEW c \in Conn, Compress(c)
  PROVE  IInv'
<1>0. PICK p, b : p = Current(c) /\ b = flushing[c].buffer
  OBVIOUS
<1>1. /\ flushing[c].packets # << >> /\ flushing[c].at = "compress"
      /\ refcount' = refcount /\ bytes' = bytes /\ notCompress' = notCompress
      /\ pool' = pool /\ held' = held /\ pending' = pending /\ sent' = sent
      /\ wire' = wire /\ broken' = broken /\ recving' = recving /\ made' = made /\ of' = of
  BY DEF Compress, Flushing
<1>2. /\ p \in Packet /\ ~Swapping(p) /\ Whole(p) /\ bytes[p] \in Packet \cup Buffer
      /\ flushing[c] \in Goroutine /\ b \in Buffer /\ Compressing /\ requireCompress(p)
      /\ flushing[c].from = bytes[p] /\ content[bytes[p]] \in Content
      /\ \A i \in DOMAIN sent[c] : sent[c][i].payload = of[p] => sent[c][i].compress
      /\ content[bytes[p]].payload = of[p] /\ ~content[bytes[p]].zip
  <2>1. p \in Packet /\ ~Swapping(p) /\ Whole(p) /\ flushing[c] \in Goroutine
    BY <1>0, <1>1, AtHead, NotSwapped, QueuedType DEF IInv
  <2>2. /\ b \in Buffer /\ Compressing /\ requireCompress(p) /\ flushing[c].from = bytes[p]
        /\ \A i \in DOMAIN sent[c] : sent[c][i].payload = of[p] => sent[c][i].compress
    BY <1>0, <1>1 DEF IInv, Stages, StagesAt
  <2> QED BY <2>1, <2>2 DEF IInv, TypeOK, Whole, requireCompress
<1>3. PICK f \in Goroutine :
        /\ flushing' = [flushing EXCEPT ![c] = f] /\ f.packets = flushing[c].packets
        /\ \/ f.at = "reclaim" /\ f.buffer = b
              /\ content' = [content EXCEPT ![b] = [content[bytes[p]] EXCEPT !.zip = TRUE]]
           \/ f.at = "write" /\ f.buffer = << >> /\ content' = content
  <2>1. CASE /\ flushing' = [flushing EXCEPT ![c].at = "reclaim", ![c].from = << >>]
             /\ content' = [content EXCEPT ![b] = [content[bytes[p]] EXCEPT !.zip = TRUE]]
    <3> DEFINE f == [flushing[c] EXCEPT !.at = "reclaim", !.from = << >>]
    <3>1. f \in Goroutine /\ f.packets = flushing[c].packets /\ f.at = "reclaim"
          /\ f.buffer = flushing[c].buffer
      BY <1>2 DEF Goroutine, Steps
    <3>2. flushing' = [flushing EXCEPT ![c] = f]
      BY <2>1
    <3> HIDE DEF f
    <3> QED BY <1>0, <2>1, <3>1, <3>2
  <2>2. CASE /\ flushing' = [flushing EXCEPT ![c] = [Idle EXCEPT !.packets = flushing[c].packets,
                                                                !.at = "write"]]
             /\ content' = content
    <3> DEFINE f == [Idle EXCEPT !.packets = flushing[c].packets, !.at = "write"]
    <3>1. f \in Goroutine /\ f.packets = flushing[c].packets /\ f.at = "write" /\ f.buffer = << >>
      <4>0. PICK ps : ps = flushing[c].packets
        OBVIOUS
      <4>1. ps \in Seq(Packet)
        BY <1>2, <4>0 DEF Goroutine
      <4>2. /\ [Idle EXCEPT !.packets = ps, !.at = "write"] \in Goroutine
            /\ [Idle EXCEPT !.packets = ps, !.at = "write"].packets = ps
            /\ [Idle EXCEPT !.packets = ps, !.at = "write"].at = "write"
            /\ [Idle EXCEPT !.packets = ps, !.at = "write"].buffer = << >>
        BY <4>1, IdleWith
      <4> QED BY <4>0, <4>2
    <3>2. flushing' = [flushing EXCEPT ![c] = f]
      BY <2>2
    <3> HIDE DEF f
    <3> QED BY <2>2, <3>1, <3>2
  <2>3. \/ /\ content' = [content EXCEPT ![b] = IF content[bytes[p]].zip
                                                 THEN [Empty EXCEPT !.zip = TRUE]
                                                 ELSE [content[bytes[p]] EXCEPT !.zip = TRUE]]
           /\ flushing' = [flushing EXCEPT ![c].at = "reclaim", ![c].from = << >>]
        \/ /\ flushing' = [flushing EXCEPT ![c] = [Idle EXCEPT !.packets = flushing[c].packets,
                                                              !.at = "write"]]
           /\ content' = content
    BY <1>0, <1>2 DEF Compress
  <2>4. ~content[bytes[p]].zip
    BY <1>2
  <2> QED BY <2>1, <2>2, <2>3, <2>4
<1>4. /\ flushing' \in [Conn -> Goroutine] /\ flushing'[c] = f
      /\ \A d \in Conn : d # c => flushing'[d] = flushing[d]
  BY <1>3, Goes DEF IInv
<1>5. /\ content' \in [Packet \cup Buffer -> Content]
      /\ \A s \in Packet \cup Buffer : s # b => content'[s] = content[s]
      /\ f.at = "reclaim" => content'[b].payload = of[p] /\ content'[b].zip
  <2> DEFINE x == [content[bytes[p]] EXCEPT !.zip = TRUE]
  <2>1. x \in Content /\ x.payload = content[bytes[p]].payload /\ x.zip
    BY <1>2, Contents DEF Content
  <2> HIDE DEF x
  <2>2. \/ content' = [content EXCEPT ![b] = x]
        \/ f.at # "reclaim" /\ content' = content
    BY <1>3 DEF x
  <2>3. content \in [Packet \cup Buffer -> Content]
    BY DEF IInv, TypeOK
  <2>4. CASE content' = [content EXCEPT ![b] = x]
    BY <1>2, <2>1, <2>3, <2>4
  <2>5. CASE f.at # "reclaim" /\ content' = content
    BY <2>3, <2>5
  <2> QED BY <2>2, <2>4, <2>5
<1>6. TypeOK'
  BY <1>1, <1>4, <1>5 DEF IInv, TypeOK
<1>7. \A q \in Packet : content'[q] = content[q] /\ (~Swapping(q) => bytes[q] # b)
  BY <1>0, <1>2, <1>5, PacketsAssumption DEF IInv, Owned, PacketsAssumption
<1>8. /\ Counted' /\ Cleared' /\ Numbered' /\ Arrives' /\ Alone' /\ Lines'
      /\ \A d \in Conn : Current(d)' = Current(d)
  BY <1>1, <1>3, <1>4, <1>7, FlushKeeps
<1>9. \A q \in Packet : Swapping(q)' <=> Swapping(q)
  BY <1>1, <1>3, <1>4, SameSwapping
<1>10. Owned'
  <2>1. \A d \in Conn : flushing'[d].buffer = flushing[d].buffer \/ flushing'[d].buffer = << >>
    BY <1>0, <1>3, <1>4
  <2>2. \A d, e \in Conn : flushing'[d].buffer = flushing'[e].buffer
                             /\ flushing'[d].buffer # << >> => d = e
    BY <2>1 DEF IInv, Owned
  <2>3. \A q \in Packet, d \in Conn :
          bytes[q] \in Buffer /\ bytes[q] = flushing'[d].buffer => Swapping(q)
    BY <2>1, PacketsAssumption DEF IInv, Owned, PacketsAssumption
  <2>4. \A d \in Conn : flushing'[d].buffer \in Buffer => pool[flushing'[d].buffer] = 0
    BY <2>1, PacketsAssumption DEF IInv, Owned, PacketsAssumption
  <2> QED BY <1>1, <1>9, <2>2, <2>3, <2>4 DEF IInv, Owned
<1>11. \A q \in Packet : ~Swapping(q) => Kept(q)
  BY <1>1, <1>5, <1>7 DEF Kept, IInv, TypeOK
<1>12. Holds'
  <2> SUFFICES ASSUME NEW q \in Packet PROVE HoldsAt(q)'
    BY DEF Holds
  <2>1. HoldsAt(q)
    BY DEF IInv, Holds
  <2> QED BY <1>1, <1>9, <1>11, <2>1, KeepsWhole DEF HoldsAt, Receiving
<1>13. Stages'
  <2> SUFFICES ASSUME NEW d \in Conn PROVE StagesAt(d)'
    BY DEF Stages
  <2>1. CASE d # c
    <3>1. flushing[d].at \in {"compress", "reclaim"} => Kept(Current(d))
      <4>1. flushing[d].at \in {"compress", "reclaim"} =>
              flushing[d].packets # << >> /\ Current(d) \in Packet
        BY <1>1, <2>1, AtNoOther
      <4> QED BY <1>11, <4>1, NotSwapped
    <3>2. flushing[d].buffer \in Buffer => flushing[d].buffer # b
      BY <1>0, <1>2, <2>1, PacketsAssumption DEF IInv, Owned, PacketsAssumption
    <3> QED BY <1>1, <1>4, <1>5, <2>1, <3>1, <3>2, OtherStages
  <2>2. CASE d = c
    <3>1. Current(c)' = p /\ requireCompress(p)'
      BY <1>0, <1>1, <1>2, <1>8, <1>11 DEF requireCompress, Kept
    <3>2. flushing'[c].packets # << >>
      BY <1>1, <1>3, <1>4
    <3> QED BY <1>1, <1>2, <1>3, <1>4, <1>5, <2>2, <3>1, <3>2 DEF StagesAt
  <2> QED BY <2>1, <2>2
<1> QED BY <1>6, <1>8, <1>10, <1>12, <1>13 DEF IInv

LEMMA StepReclaim ==
  ASSUME IInv, NEW c \in Conn, Reclaim(c)
  PROVE  IInv'
<1>0. PICK p, b : p = Current(c) /\ b = flushing[c].buffer
  OBVIOUS
<1>1. /\ flushing[c].packets # << >> /\ flushing[c].at = "reclaim"
      /\ refcount' = refcount /\ bytes' = bytes /\ notCompress' = notCompress
      /\ content' = content /\ held' = held /\ pending' = pending /\ sent' = sent
      /\ wire' = wire /\ broken' = broken /\ recving' = recving /\ made' = made /\ of' = of
      /\ pool' = PutBack(pool, bytes[p])
      /\ flushing' = [flushing EXCEPT ![c].at = "swap"]
  BY <1>0 DEF Reclaim, Flushing
<1>2. /\ p \in Packet /\ ~Swapping(p) /\ flushing[c] \in Goroutine
      /\ b \in Buffer /\ Compressing /\ content[b].payload = of[p] /\ content[b].zip
      /\ \A i \in DOMAIN sent[c] : sent[c][i].payload = of[p] => sent[c][i].compress
  <2>1. p \in Packet /\ ~Swapping(p) /\ flushing[c] \in Goroutine
    BY <1>0, <1>1, AtHead, NotSwapped, QueuedType DEF IInv
  <2> QED BY <1>0, <1>1, <2>1 DEF IInv, Stages, StagesAt
<1>3. PICK f \in Goroutine :
        /\ flushing' = [flushing EXCEPT ![c] = f] /\ f.packets = flushing[c].packets
        /\ f.at = "swap" /\ f.buffer = b
  <2> DEFINE f == [flushing[c] EXCEPT !.at = "swap"]
  <2>1. f \in Goroutine /\ f.packets = flushing[c].packets /\ f.at = "swap"
        /\ f.buffer = flushing[c].buffer
    BY <1>2 DEF Goroutine, Steps
  <2>2. flushing' = [flushing EXCEPT ![c] = f]
    BY <1>1
  <2> HIDE DEF f
  <2> QED BY <1>0, <2>1, <2>2
<1>4. /\ flushing' \in [Conn -> Goroutine] /\ flushing'[c] = f
      /\ \A d \in Conn : d # c => flushing'[d] = flushing[d]
  BY <1>3, Goes DEF IInv
<1>5. TypeOK'
  <2>1. pool' \in [Buffer -> Nat]
    BY <1>1, PoolType DEF IInv, TypeOK
  <2> QED BY <1>1, <1>4, <2>1 DEF IInv, TypeOK
<1>6. /\ Counted' /\ Cleared' /\ Numbered' /\ Arrives' /\ Alone' /\ Lines'
      /\ \A d \in Conn : Current(d)' = Current(d)
      /\ \A q \in Packet : q # p => (Swapping(q)' <=> Swapping(q))
  BY <1>0, <1>1, <1>3, <1>4, FlushKeeps
<1>7. Swapping(p)'
  <2>1. Current(c)' = p /\ flushing'[c].packets # << >> /\ flushing'[c].at = "swap"
    BY <1>0, <1>1, <1>3, <1>4, <1>6
  <2> QED BY <2>1 DEF Swapping, Flushing
<1>8. Owned'
  <2>1. \A d \in Conn : flushing'[d].buffer = flushing[d].buffer
    BY <1>0, <1>3, <1>4
  <2>2. \A x \in Buffer : pool'[x] = IF x = bytes[p] THEN pool[x] + 1 ELSE pool[x]
    BY <1>1 DEF PutBack, IInv, TypeOK
  <2>3. bytes[p] \in Buffer => pool[bytes[p]] = 0
    BY <1>2 DEF IInv, Owned, TypeOK
  <2>4. \A q \in Packet : Swapping(q) => Swapping(q)'
    BY <1>6, <1>7
  <2>5. \A x \in Buffer : pool'[x] <= 1
    BY <2>2, <2>3 DEF IInv, Owned
  <2>6. ASSUME NEW q \in Packet, bytes[q] \in Buffer, pool'[bytes[q]] > 0 PROVE Swapping(q)'
    <3>1. CASE bytes[q] = bytes[p]
      BY <1>2, <1>7, <2>4, <3>1 DEF IInv, Owned
    <3>2. CASE bytes[q] # bytes[p]
      BY <2>2, <2>4, <2>6, <3>2 DEF IInv, Owned
    <3> QED BY <3>1, <3>2
  <2>7. \A d \in Conn : flushing[d].buffer \in Buffer => pool'[flushing[d].buffer] = 0
    BY <1>2, <2>2 DEF IInv, Owned
  <2>8. \A q, r \in Packet : bytes[q] = bytes[r] /\ ~Swapping(q)' /\ ~Swapping(r)' => q = r
    BY <2>4 DEF IInv, Owned
  <2>9. \A q \in Packet, d \in Conn :
          bytes[q] \in Buffer /\ bytes[q] = flushing[d].buffer => Swapping(q)'
    BY <2>4 DEF IInv, Owned
  <2>10. \A d, e \in Conn : flushing[d].buffer = flushing[e].buffer
                              /\ flushing[d].buffer # << >> => d = e
    BY DEF IInv, Owned
  <2> QED BY <1>1, <2>1, <2>5, <2>6, <2>7, <2>8, <2>9, <2>10 DEF Owned
<1>9. Holds'
  <2> SUFFICES ASSUME NEW q \in Packet, q # p PROVE HoldsAt(q)'
    BY <1>7 DEF Holds, HoldsAt
  <2>1. HoldsAt(q)
    BY DEF IInv, Holds
  <2> QED BY <1>1, <1>6, <2>1 DEF HoldsAt, Whole, Receiving, requireCompress
<1>10. Stages'
  <2> SUFFICES ASSUME NEW d \in Conn PROVE StagesAt(d)'
    BY DEF Stages
  <2>1. CASE d # c
    <3>1. Kept(Current(d))
      BY <1>1 DEF Kept
    <3> QED BY <1>1, <1>4, <2>1, <3>1, OtherStages
  <2>2. CASE d = c
    <3>1. Current(c)' = p /\ flushing'[c].packets # << >>
      BY <1>0, <1>1, <1>3, <1>4, <1>6
    <3> QED BY <1>1, <1>2, <1>3, <1>4, <2>2, <3>1 DEF StagesAt
  <2> QED BY <2>1, <2>2
<1> QED BY <1>5, <1>6, <1>8, <1>9, <1>10 DEF IInv

LEMMA StepSwap ==
  ASSUME IInv, NEW c \in Conn, Swap(c)
  PROVE  IInv'
<1>0. PICK p, b : p = Current(c) /\ b = flushing[c].buffer
  OBVIOUS
<1>1. /\ flushing[c].packets # << >> /\ flushing[c].at = "swap"
      /\ refcount' = refcount /\ bytes' = [bytes EXCEPT ![p] = b] /\ notCompress' = notCompress
      /\ content' = content /\ held' = held /\ pending' = pending /\ sent' = sent
      /\ wire' = wire /\ broken' = broken /\ recving' = recving /\ made' = made
      /\ of' = of /\ pool' = pool
      /\ flushing' = [flushing EXCEPT ![c].at = "write", ![c].buffer = << >>]
  BY <1>0 DEF Swap, Flushing
<1>2. /\ p \in Packet /\ flushing[c] \in Goroutine /\ refcount[p] > 0 /\ ~Receiving(p)
      /\ b \in Buffer /\ Compressing /\ content[b].payload = of[p] /\ content[b].zip
      /\ \A i \in DOMAIN sent[c] : sent[c][i].payload = of[p] => sent[c][i].compress
      /\ \A d \in Conn : SentTo(d, p) => d = c
      /\ \A d \in Conn : flushing[d].packets # << >> /\ Current(d) = p => d = c
  <2>1. p \in Packet /\ flushing[c] \in Goroutine /\ refcount[p] > 0 /\ ~Receiving(p)
    BY <1>0, <1>1, AtHead, QueuedType DEF IInv
  <2>2. /\ \A d \in Conn : SentTo(d, p) => d = c
        /\ \A d \in Conn : flushing[d].packets # << >> /\ Current(d) = p => d = c
    BY <1>0, <1>1, Compresses DEF IInv
  <2> QED BY <1>0, <1>1, <2>1, <2>2 DEF IInv, Stages, StagesAt
<1>3. PICK f \in Goroutine :
        /\ flushing' = [flushing EXCEPT ![c] = f] /\ f.packets = flushing[c].packets
        /\ f.at = "write" /\ f.buffer = << >>
  <2> DEFINE f == [flushing[c] EXCEPT !.at = "write", !.buffer = << >>]
  <2>1. f \in Goroutine /\ f.packets = flushing[c].packets /\ f.at = "write" /\ f.buffer = << >>
    BY <1>2 DEF Goroutine, Steps
  <2>2. flushing' = [flushing EXCEPT ![c] = f]
    BY <1>1
  <2> HIDE DEF f
  <2> QED BY <2>1, <2>2
<1>4. /\ flushing' \in [Conn -> Goroutine] /\ flushing'[c] = f
      /\ \A d \in Conn : d # c => flushing'[d] = flushing[d]
  BY <1>3, Goes DEF IInv
<1>5. /\ bytes' \in [Packet -> Packet \cup Buffer]
      /\ \A q \in Packet : bytes'[q] = IF q = p THEN b ELSE bytes[q]
      /\ \A q \in Packet : bytes'[q] \in Buffer \cup {q}
  BY <1>1, <1>2 DEF IInv, TypeOK
<1>6. TypeOK'
  BY <1>1, <1>4, <1>5 DEF IInv, TypeOK
<1>7. /\ Counted' /\ Cleared' /\ Numbered' /\ Arrives' /\ Alone' /\ Lines'
      /\ \A d \in Conn : Current(d)' = Current(d)
      /\ \A q \in Packet : q # p => (Swapping(q)' <=> Swapping(q))
  BY <1>0, <1>1, <1>2, <1>3, <1>4, <1>5, FlushKeeps
<1>8. ~Swapping(p)'
  <2> SUFFICES ASSUME NEW d \in Conn PROVE ~(Flushing(d, "swap") /\ Current(d) = p)'
    BY DEF Swapping
  <2>1. CASE d = c
    BY <1>3, <1>4, <2>1 DEF Flushing
  <2>2. CASE d # c
    BY <1>2, <1>4, <1>7, <2>2 DEF Flushing
  <2> QED BY <2>1, <2>2
<1>9. Owned'
  <2>1. \A d \in Conn : flushing'[d].buffer = IF d = c THEN << >> ELSE flushing[d].buffer
    BY <1>3, <1>4
  <2>2. \A q \in Packet : bytes[q] = b => Swapping(q)
    BY <1>0, <1>2 DEF IInv, Owned
  <2>3. \A d \in Conn : d # c => flushing[d].buffer # b
    BY <1>0, <1>2, PacketsAssumption DEF IInv, Owned, PacketsAssumption
  <2>4. pool[b] = 0
    BY <1>0, <1>2 DEF IInv, Owned
  <2>5. ASSUME NEW q \in Packet, NEW r \in Packet,
               bytes'[q] = bytes'[r], ~Swapping(q)', ~Swapping(r)'
        PROVE  q = r
    BY <1>5, <1>7, <2>2, <2>5 DEF IInv, Owned
  <2>6. \A d, e \in Conn : flushing'[d].buffer = flushing'[e].buffer
                             /\ flushing'[d].buffer # << >> => d = e
    BY <2>1 DEF IInv, Owned
  <2>7. ASSUME NEW q \in Packet, NEW d \in Conn,
               bytes'[q] \in Buffer, bytes'[q] = flushing'[d].buffer
        PROVE  Swapping(q)'
    <3>1. d # c /\ flushing'[d].buffer = flushing[d].buffer
      BY <2>1, <2>7, PacketsAssumption DEF PacketsAssumption
    <3> QED BY <1>5, <1>7, <2>3, <2>7, <3>1 DEF IInv, Owned
  <2>8. ASSUME NEW q \in Packet, bytes'[q] \in Buffer, pool[bytes'[q]] > 0 PROVE Swapping(q)'
    BY <1>5, <1>7, <2>4, <2>8 DEF IInv, Owned
  <2>9. \A d \in Conn : flushing'[d].buffer \in Buffer => pool[flushing'[d].buffer] = 0
    BY <2>1, PacketsAssumption DEF IInv, Owned, PacketsAssumption
  <2> QED BY <1>1, <2>5, <2>6, <2>7, <2>8, <2>9 DEF IInv, Owned
<1>10. Holds'
  <2> SUFFICES ASSUME NEW q \in Packet PROVE HoldsAt(q)'
    BY DEF Holds
  <2>1. CASE q # p
    <3>1. HoldsAt(q) /\ Kept(q)
      BY <1>1, <1>5, <2>1 DEF IInv, Holds, Kept
    <3> QED BY <1>1, <1>7, <2>1, <3>1, KeepsWhole DEF HoldsAt, Receiving
  <2>2. CASE q = p
    <3>1. bytes'[p] = b /\ ~requireCompress(p)'
      BY <1>1, <1>2, <1>5 DEF requireCompress
    <3> QED BY <1>1, <1>2, <2>2, <3>1 DEF HoldsAt, Whole
  <2> QED BY <2>1, <2>2
<1>11. Stages'
  <2> SUFFICES ASSUME NEW d \in Conn PROVE StagesAt(d)'
    BY DEF Stages
  <2>1. CASE d # c
    <3>1. flushing[d].at \in {"compress", "reclaim"} => Kept(Current(d))
      <4>1. flushing[d].at \in {"compress", "reclaim"} => Current(d) # p /\ Current(d) \in Packet
        BY <1>0, <1>1, <2>1, AtNoOther
      <4> QED BY <1>1, <1>5, <4>1 DEF Kept
    <3> QED BY <1>1, <1>4, <2>1, <3>1, OtherStages
  <2>2. CASE d = c
    BY <1>1, <1>3, <1>4, <2>2 DEF StagesAt
  <2> QED BY <2>1, <2>2
<1> QED BY <1>6, <1>7, <1>9, <1>10, <1>11 DEF IInv

LEMMA StepWrite ==
  ASSUME IInv, NEW c \in Conn, Write(c)
  PROVE  IInv'
<1>0. PICK p, x : p = Current(c) /\ x = content[bytes[p]]
  OBVIOUS
<1>1. /\ flushing[c].packets # << >> /\ flushing[c].at = "write"
      /\ refcount' = refcount /\ bytes' = bytes /\ notCompress' = notCompress
      /\ content' = content /\ held' = held /\ pending' = pending /\ sent' = sent
      /\ recving' = recving /\ made' = made /\ of' = of /\ pool' = pool
      /\ \/ c \notin broken /\ wire' = [wire EXCEPT ![c] = Append(@, x)] /\ broken' = broken
         \/ wire' = wire /\ broken' = broken \cup {c}
      /\ flushing' = [flushing EXCEPT ![c].at = "release"]
  BY <1>0 DEF Write, Flushing, owned
<1>2. /\ p \in Packet /\ Whole(p) /\ flushing[c] \in Goroutine /\ x \in Content
      /\ Done(c) + 1 \in DOMAIN sent[c] /\ sent[c][Done(c) + 1].payload = of[p]
      /\ flushing[c].buffer = << >>
  <2>1. /\ p \in Packet /\ Whole(p) /\ flushing[c] \in Goroutine
        /\ Done(c) + 1 \in DOMAIN sent[c] /\ sent[c][Done(c) + 1].payload = of[p]
    BY <1>0, <1>1, AtHead, NotSwapped, QueuedType DEF IInv
  <2> QED BY <1>0, <1>1, <2>1 DEF IInv, TypeOK, Stages, StagesAt
<1>3. PICK f \in Goroutine :
        /\ flushing' = [flushing EXCEPT ![c] = f] /\ f.packets = flushing[c].packets
        /\ f.at = "release" /\ f.buffer = << >>
  <2> DEFINE f == [flushing[c] EXCEPT !.at = "release"]
  <2>1. f \in Goroutine /\ f.packets = flushing[c].packets /\ f.at = "release"
        /\ f.buffer = flushing[c].buffer
    BY <1>2 DEF Goroutine, Steps
  <2>2. flushing' = [flushing EXCEPT ![c] = f]
    BY <1>1
  <2> HIDE DEF f
  <2> QED BY <1>2, <2>1, <2>2
<1>4. /\ flushing' \in [Conn -> Goroutine] /\ flushing'[c] = f
      /\ \A d \in Conn : d # c => flushing'[d] = flushing[d]
  BY <1>3, Goes DEF IInv
<1>5. /\ wire' \in [Conn -> Seq(Content)] /\ broken' \subseteq Conn
      /\ \A d \in Conn : d # c => wire'[d] = wire[d] /\ (d \in broken' <=> d \in broken)
  <2>1. wire \in [Conn -> Seq(Content)] /\ wire[c] \in Seq(Content) /\ broken \subseteq Conn
    BY DEF IInv, TypeOK
  <2>2. CASE wire' = wire /\ broken' = broken \cup {c}
    BY <2>1, <2>2
  <2>3. CASE wire' = [wire EXCEPT ![c] = Append(@, x)] /\ broken' = broken
    <3>1. Append(wire[c], x) \in Seq(Content)
      BY ONLY <1>2, <2>1
    <3>2. /\ wire' \in [Conn -> Seq(Content)]
          /\ \A d \in Conn : d # c => wire'[d] = wire[d]
      BY <2>1, <2>3, <3>1
    <3> QED BY <2>1, <2>3, <3>2
  <2> QED BY <1>1, <2>2, <2>3
<1>51. ASSUME c \notin broken, wire' = [wire EXCEPT ![c] = Append(@, x)]
       PROVE  /\ Len(wire'[c]) = Len(wire[c]) + 1 /\ DOMAIN wire'[c] = 1..(Len(wire[c]) + 1)
              /\ \A i \in 1..Len(wire[c]) : wire'[c][i] = wire[c][i]
              /\ wire'[c][Len(wire[c]) + 1] = x
  <2>1. wire[c] \in Seq(Content) /\ wire'[c] = Append(wire[c], x)
    BY <1>51 DEF IInv, TypeOK
  <2> QED BY ONLY <1>2, <2>1
<1>6. TypeOK'
  BY <1>1, <1>4, <1>5 DEF IInv, TypeOK
<1>7. /\ Counted' /\ Cleared' /\ Numbered' /\ Arrives' /\ Alone'
      /\ \A d \in Conn : /\ Queued(d)' = Queued(d) /\ Done(d)' = Done(d)
                         /\ Current(d)' = Current(d)
  BY <1>1, <1>3, <1>4, FlushKeeps
<1>8. \A q \in Packet : Swapping(q)' <=> Swapping(q)
  BY <1>1, <1>3, <1>4, SameSwapping
<1>9. Owned'
  <2>1. \A d \in Conn : flushing'[d].buffer = flushing[d].buffer
    BY <1>2, <1>3, <1>4
  <2> QED BY <1>1, <1>8, <2>1 DEF IInv, Owned
<1>10. Holds'
  <2> SUFFICES ASSUME NEW q \in Packet PROVE HoldsAt(q)'
    BY DEF Holds
  <2>1. HoldsAt(q)
    BY DEF IInv, Holds
  <2> QED BY <1>1, <1>8, <2>1 DEF HoldsAt, Whole, Receiving, requireCompress
<1>11. Lines'
  <2> SUFFICES ASSUME NEW d \in Conn
               PROVE  /\ Len(wire'[d]) <= Served(d)' /\ (d \notin broken' => Len(wire'[d]) = Served(d)')
                      /\ \A i \in DOMAIN wire'[d] :
                           wire'[d][i].payload = sent[d][i].payload /\ (wire'[d][i].zip => Compressing)
                      /\ \A i \in DOMAIN Queued(d) :
                           /\ Done(d) + i \in DOMAIN sent[d]
                           /\ sent[d][Done(d) + i].payload = of[Queued(d)[i]]
    BY <1>1, <1>7 DEF Lines
  <2>1. CASE d # c
    <3>1. Served(d)' = Served(d)
      BY <1>4, <1>7, <2>1 DEF Served
    <3> QED BY <1>5, <2>1, <3>1 DEF IInv, Lines
  <2>2. /\ Served(c)' = Done(c) + 1 /\ Served(c) = Done(c) /\ Done(c) \in Int
        /\ Len(wire[c]) \in Nat /\ DOMAIN wire[c] = 1..Len(wire[c])
    <3>1. Served(c)' = Done(c)' + (IF flushing'[c].at = "release" THEN 1 ELSE 0)
      BY DEF Served
    <3>2. Served(c)' = Done(c) + 1
      BY <1>3, <1>4, <1>7, <3>1
    <3>3. /\ Done(c) \in Int /\ Len(wire[c]) \in Nat /\ DOMAIN wire[c] = 1..Len(wire[c])
      BY QueuedType DEF Done, IInv
    <3> QED BY <1>1, <3>2, <3>3 DEF Served
  <2>3. CASE d = c /\ wire' = wire /\ broken' = broken \cup {c}
    <3>1. Len(wire[c]) <= Served(c)
      BY DEF IInv, Lines
    <3>2. Len(wire[c]) <= Served(c)' /\ c \in broken'
      BY <2>2, <2>3, <3>1
    <3> QED BY <2>3, <3>2 DEF IInv, Lines
  <2>4. CASE d = c /\ c \notin broken /\ wire' = [wire EXCEPT ![c] = Append(@, x)]
    <3>1. Len(wire[c]) = Done(c)
      BY <2>2, <2>4 DEF IInv, Lines
    <3>2. x.payload = of[p] /\ (x.zip => Compressing)
      BY <1>0, <1>2 DEF Whole
    <3>3. ASSUME NEW i \in DOMAIN wire'[c]
          PROVE  wire'[c][i].payload = sent[c][i].payload /\ (wire'[c][i].zip => Compressing)
      <4>1. CASE i \in DOMAIN wire[c]
        BY <1>51, <2>2, <2>4, <4>1 DEF IInv, Lines
      <4>2. CASE i = Len(wire[c]) + 1
        BY <1>2, <1>51, <2>4, <3>1, <3>2, <4>2
      <4>3. i \in DOMAIN wire[c] \/ i = Len(wire[c]) + 1
        BY <1>51, <2>2, <2>4
      <4> QED BY <4>1, <4>2, <4>3
    <3>4. Len(wire'[c]) = Served(c)' /\ Len(wire'[c]) <= Served(c)'
      BY <1>51, <2>2, <2>4, <3>1
    <3> QED BY <2>4, <3>3, <3>4 DEF IInv, Lines
  <2> QED BY <1>1, <2>1, <2>3, <2>4
<1>12. Stages'
  <2> SUFFICES ASSUME NEW d \in Conn PROVE StagesAt(d)'
    BY DEF Stages
  <2>1. CASE d # c
    <3>1. Kept(Current(d))
      BY <1>1 DEF Kept
    <3> QED BY <1>1, <1>4, <2>1, <3>1, OtherStages
  <2>2. CASE d = c
    BY <1>1, <1>3, <1>4, <2>2 DEF StagesAt
  <2> QED BY <2>1, <2>2
<1> QED BY <1>6, <1>7, <1>9, <1>10, <1>11, <1>12 DEF IInv

\* The first packet leaves the queue.
LEMMA Popped ==
  ASSUME NEW S, NEW s \in Seq(S), NEW t \in Seq(S), s # << >>
  PROVE  /\ Tail(s) \in Seq(S) /\ Tail(s) \o t \in Seq(S)
         /\ Len(s \o t) \in Nat /\ Len(s \o t) > 0
         /\ Len(Tail(s) \o t) = Len(s \o t) - 1
         /\ \A i \in 1..(Len(s \o t) - 1) : (Tail(s) \o t)[i] = (s \o t)[i + 1]
<1>1. Tail(s) \in Seq(S) /\ Len(Tail(s)) = Len(s) - 1 /\ Len(s) \in Nat /\ Len(s) > 0
  OBVIOUS
<1>2. \A i \in 1..(Len(s) - 1) : Tail(s)[i] = s[i + 1]
  OBVIOUS
<1>3. /\ Tail(s) \o t \in Seq(S) /\ Len(Tail(s) \o t) = Len(s) - 1 + Len(t)
      /\ Len(s \o t) = Len(s) + Len(t) /\ Len(t) \in Nat
  BY <1>1
<1>4. ASSUME NEW i \in 1..(Len(s \o t) - 1) PROVE (Tail(s) \o t)[i] = (s \o t)[i + 1]
  <2>1. CASE i <= Len(s) - 1
    BY <1>1, <1>2, <1>3, <2>1
  <2>2. CASE i > Len(s) - 1
    <3>1. (Tail(s) \o t)[i] = t[i - (Len(s) - 1)]
      BY <1>1, <1>3, <2>2
    <3>2. (s \o t)[i + 1] = t[i + 1 - Len(s)]
      BY <1>1, <1>3, <2>2
    <3>3. i - (Len(s) - 1) = i + 1 - Len(s)
      BY <1>1
    <3> QED BY <3>1, <3>2, <3>3
  <2> QED BY <1>1, <2>1, <2>2
<1> QED BY <1>1, <1>3, <1>4

LEMMA StepReleaseFlushed ==
  ASSUME IInv, NEW c \in Conn, ReleaseFlushed(c)
  PROVE  IInv'
<1>0. PICK p, n : p = Current(c) /\ n = Len(Queued(c))
  OBVIOUS
<1>1. /\ flushing[c].packets # << >> /\ flushing[c].at = "release" /\ Release(p)
      /\ held' = held /\ pending' = pending /\ sent' = sent
      /\ wire' = wire /\ broken' = broken /\ recving' = recving /\ made' = made /\ of' = of
      /\ flushing' = [flushing EXCEPT ![c] = [Idle EXCEPT !.packets = Tail(flushing[c].packets)]]
  BY <1>0 DEF ReleaseFlushed, Flushing
<1>2. /\ p \in Packet /\ ~Swapping(p) /\ Whole(p) /\ flushing[c] \in Goroutine
      /\ refcount[p] > 0 /\ ~Receiving(p) /\ of[p] > 0 /\ Queues(c, p)
      /\ 1 \in DOMAIN Queued(c) /\ Queued(c)[1] = p
      /\ \A j \in DOMAIN Queued(c) : Queued(c)[j] = p => j = 1
      /\ flushing[c].packets \in Seq(Packet) /\ pending[c] \in Seq(Packet)
      /\ flushing[c].buffer = << >>
  <2>1. /\ p \in Packet /\ refcount[p] > 0 /\ ~Receiving(p) /\ of[p] > 0 /\ Queues(c, p)
        /\ 1 \in DOMAIN Queued(c) /\ Queued(c)[1] = p
    BY <1>0, <1>1, AtHead DEF IInv
  <2>2. \A j \in DOMAIN Queued(c) : Queued(c)[j] = p => j = 1
    BY <2>1, InQueue DEF IInv
  <2>3. /\ flushing[c] \in Goroutine /\ flushing[c].packets \in Seq(Packet)
        /\ pending[c] \in Seq(Packet)
    BY QueuedType DEF IInv
  <2>4. ~Swapping(p) /\ Whole(p)
    BY <1>0, <1>1, NotSwapped
  <2>5. flushing[c].buffer = << >>
    BY <1>1 DEF IInv, Stages, StagesAt
  <2> QED BY <2>1, <2>2, <2>3, <2>4, <2>5
<1>3. PICK f \in Goroutine :
        /\ flushing' = [flushing EXCEPT ![c] = f] /\ f.packets = Tail(flushing[c].packets)
        /\ f.at = "next" /\ f.buffer = << >> /\ (f.packets = << >> => f = Idle)
  <2>0. Tail(flushing[c].packets) \in Seq(Packet)
    BY <1>1, <1>2, Popped
  <2>1. PICK ps \in Seq(Packet) : ps = Tail(flushing[c].packets)
    BY <2>0
  <2>2. /\ [Idle EXCEPT !.packets = ps] \in Goroutine
        /\ [Idle EXCEPT !.packets = ps].packets = ps
        /\ [Idle EXCEPT !.packets = ps].at = "next"
        /\ [Idle EXCEPT !.packets = ps].buffer = << >>
        /\ ps = << >> => [Idle EXCEPT !.packets = ps] = Idle
    BY IdleWith
  <2> QED BY <1>1, <2>1, <2>2
<1>4. /\ flushing' \in [Conn -> Goroutine] /\ flushing'[c] = f
      /\ \A d \in Conn : d # c => flushing'[d] = flushing[d]
  BY <1>3, Goes DEF IInv
<1>5. /\ \A d \in Conn : d # c => Queued(d)' = Queued(d)
      /\ n \in Nat /\ n > 0 /\ DOMAIN Queued(c) = 1..n
      /\ Len(Queued(c)') = n - 1 /\ DOMAIN (Queued(c)') = 1..(n - 1)
      /\ \A i \in 1..(n - 1) : Queued(c)'[i] = Queued(c)[i + 1]
  <2>1. \A d \in Conn : d # c => Queued(d)' = Queued(d)
    BY <1>1, <1>4 DEF Queued
  <2>2. DOMAIN Queued(c) = 1..n
    BY <1>0, QueuedType DEF IInv
  <2>3. Queued(c)' = Tail(flushing[c].packets) \o pending[c]
    BY <1>1, <1>3, <1>4 DEF Queued
  <2>4. /\ Queued(c)' \in Seq(Packet) /\ n \in Nat /\ n > 0 /\ Len(Queued(c)') = n - 1
        /\ \A i \in 1..(n - 1) : Queued(c)'[i] = Queued(c)[i + 1]
    <3>1. PICK qs, ps : qs = flushing[c].packets /\ ps = pending[c]
      OBVIOUS
    <3>2. qs \in Seq(Packet) /\ ps \in Seq(Packet) /\ qs # << >>
      BY <1>1, <1>2, <3>1
    <3>3. Queued(c) = qs \o ps /\ Queued(c)' = Tail(qs) \o ps /\ n = Len(Queued(c))
      BY <1>0, <2>3, <3>1 DEF Queued
    <3>4. /\ Tail(qs) \o ps \in Seq(Packet) /\ Len(qs \o ps) \in Nat /\ Len(qs \o ps) > 0
          /\ Len(Tail(qs) \o ps) = Len(qs \o ps) - 1
          /\ \A i \in 1..(Len(qs \o ps) - 1) : (Tail(qs) \o ps)[i] = (qs \o ps)[i + 1]
      BY <3>2, Popped
    <3> QED BY ONLY <3>3, <3>4
  <2>5. DOMAIN (Queued(c)') = 1..(n - 1)
    BY <2>4
  <2> QED BY <2>1, <2>2, <2>4, <2>5
<1>6. \A d \in Conn : \A q : Queues(d, q)' <=> Queues(d, q) /\ ~(d = c /\ q = p)
  <2> SUFFICES ASSUME NEW d \in Conn, NEW q
               PROVE  Queues(d, q)' <=> Queues(d, q) /\ ~(d = c /\ q = p)
    OBVIOUS
  <2>1. CASE d # c
    BY <1>5, <2>1 DEF Queues
  <2>2. CASE d = c
    <3>1. ASSUME Queues(c, q)' PROVE Queues(c, q) /\ q # p
      <4>1. PICK i \in 1..(n - 1) : Queued(c)'[i] = q
        BY <1>5, <3>1 DEF Queues
      <4>2. i + 1 \in DOMAIN Queued(c) /\ Queued(c)[i + 1] = q /\ i + 1 # 1
        BY <1>5, <4>1
      <4> QED BY <1>2, <4>2 DEF Queues
    <3>2. ASSUME Queues(c, q), q # p PROVE Queues(c, q)'
      <4>1. PICK i \in 1..n : Queued(c)[i] = q
        BY <1>5, <3>2 DEF Queues
      <4>2. i # 1
        BY <1>2, <3>2, <4>1
      <4>3. i - 1 \in 1..(n - 1) /\ i - 1 + 1 = i
        BY <1>5, <4>2
      <4>4. i - 1 \in DOMAIN (Queued(c)') /\ Queued(c)'[i - 1] = q
        BY <1>5, <4>1, <4>3
      <4> QED BY <4>4 DEF Queues
    <3> QED BY <2>2, <3>1, <3>2
  <2> QED BY <2>1, <2>2
<1>7. refcount[p] = 1 => held[p] = 0 /\ \A d \in Conn : Queues(d, p) => d = c
  <2> DEFINE S == {d \in Conn : Queues(d, p)}
  <2>1. refcount[p] = held[p] + 0 + Cardinality(S) /\ held[p] \in Nat
    BY <1>2 DEF IInv, Counted, References, TypeOK
  <2>2. S = (S \ {c}) \cup {c} /\ S \ {c} \in SUBSET Conn /\ c \notin S \ {c}
    BY <1>2
  <2>3. \A d \in Conn : Queues(d, p) /\ d # c => S \ {c} # {}
    OBVIOUS
  <2> HIDE DEF S
  <2>4. Cardinality(S) = Cardinality(S \ {c}) + 1 /\ Cardinality(S \ {c}) \in Nat
        /\ (Cardinality(S \ {c}) = 0 <=> S \ {c} = {})
    <3>1. PICK T \in SUBSET Conn : T = S \ {c}
      BY <2>2
    <3>2. S = T \cup {c} /\ c \notin T
      BY <2>2, <3>1
    <3>3. Cardinality(T \cup {c}) = Cardinality(T) + 1 /\ Cardinality(T) \in Nat
          /\ (Cardinality(T) = 0 <=> T = {})
      BY <3>2, OneMore, SubsetCount
    <3> QED BY <3>1, <3>2, <3>3
  <2>5. refcount[p] = 1 => held[p] = 0 /\ S \ {c} = {}
    <3>1. refcount[p] = held[p] + Cardinality(S \ {c}) + 1
      BY <2>1, <2>4
    <3>2. refcount[p] = 1 => held[p] = 0 /\ Cardinality(S \ {c}) = 0
      BY <2>1, <2>4, <3>1
    <3> QED BY <2>4, <3>2
  <2> QED BY <2>3, <2>5
<1>8. /\ refcount' = [refcount EXCEPT ![p] = @ - 1] /\ refcount' \in [Packet -> Nat]
      /\ refcount[p] # 1 => UNCHANGED <<pool, bytes, content, notCompress>>
      /\ refcount[p] = 1 =>
           /\ bytes' = [bytes EXCEPT ![p] = p] /\ pool' = PutBack(pool, bytes[p])
           /\ content' = [content EXCEPT ![p] = Empty] /\ notCompress' = notCompress \ {p}
      /\ bytes' \in [Packet -> Packet \cup Buffer] /\ content' \in [Packet \cup Buffer -> Content]
      /\ pool' \in [Buffer -> Nat] /\ notCompress' \subseteq Packet
      /\ \A q \in Packet : bytes'[q] \in Buffer \cup {q}
      /\ \A q \in Packet : q # p =>
           /\ Kept(q) \/ of'[q] # of[q]
           /\ refcount'[q] = refcount[q] /\ content'[q] = content[q]
      /\ \A b \in Buffer : content'[b] = content[b]
  BY <1>1, <1>2, Releases
<1>9. TypeOK'
  BY <1>1, <1>4, <1>8 DEF IInv, TypeOK
<1>10. /\ \A q \in Packet : q # p => Kept(q) /\ refcount'[q] = refcount[q] /\ content'[q] = content[q]
       /\ refcount[p] # 1 => Kept(p)
       /\ refcount'[p] = refcount[p] - 1
  BY <1>1, <1>2, <1>8 DEF Kept, IInv, TypeOK
<1>11. Counted'
  <2> SUFFICES ASSUME NEW q \in Packet PROVE refcount'[q] = References(q)'
    BY DEF Counted
  <2> DEFINE S == {d \in Conn : Queues(d, q)}
  <2>1. CASE q # p
    <3>1. S' = S
      BY <1>6, <2>1
    <3> QED BY <1>1, <1>10, <2>1, <3>1 DEF IInv, Counted, References, Receiving
  <2>2. CASE q = p
    <3>1. S = S' \cup {c} /\ c \notin S' /\ S' \in SUBSET Conn
      BY <1>2, <1>6, <2>2
    <3>2. /\ refcount[p] = held[p] + 0 + Cardinality(S)
          /\ References(q)' = held'[p] + 0 + Cardinality(S')
      BY <1>1, <1>2, <2>2 DEF IInv, Counted, References, Receiving
    <3>3. Cardinality(S) = Cardinality(S') + 1 /\ Cardinality(S') \in Nat
      <4>1. \A T \in SUBSET Conn : c \notin T =>
              Cardinality(T \cup {c}) = Cardinality(T) + 1 /\ Cardinality(T) \in Nat
        BY OneMore, SubsetCount
      <4> HIDE DEF S
      <4> QED BY <3>1, <4>1
    <3>4. refcount[p] \in Nat /\ held[p] \in Nat
      BY <1>2 DEF IInv, TypeOK
    <3> HIDE DEF S
    <3> QED BY <1>1, <1>10, <2>2, <3>2, <3>3, <3>4
  <2> QED BY <2>1, <2>2
<1>12. Cleared'
  <2> SUFFICES ASSUME NEW q \in Packet PROVE ClearedAt(q)'
    BY DEF Cleared
  <2>1. CASE q # p
    BY <1>10, <2>1 DEF IInv, Cleared, ClearedAt, Kept
  <2>2. CASE q = p
    BY <1>2, <1>8, <1>10, <2>2 DEF ClearedAt, IInv, TypeOK
  <2> QED BY <2>1, <2>2
<1>13. Numbered'
  <2>1. \A q \in Packet : refcount'[q] > 0 => refcount[q] > 0
    BY <1>2, <1>10
  <2> QED BY <1>1, <2>1 DEF IInv, Numbered
<1>14. Arrives'
  <2> SUFFICES ASSUME NEW q \in Packet, Receiving(q) PROVE ArrivesAt(q)'
    BY <1>1 DEF Arrives, ArrivesAt, Receiving
  <2>1. q # p /\ ArrivesAt(q) /\ Kept(q) /\ content'[q] = content[q]
    BY <1>2, <1>10 DEF IInv, Arrives
  <2>2. \A d \in Conn : SentTo(d, q)' <=> SentTo(d, q)
    BY <1>1 DEF SentTo
  <2> QED BY <1>1, <2>1, <2>2 DEF ArrivesAt, Kept
<1>15. Alone'
  BY <1>1 DEF IInv, Alone
<1>16. \A q \in Packet : Swapping(q)' <=> Swapping(q)
  BY <1>1, <1>3, <1>4, SameSwapping
<1>17. Owned'
  <2>1. \A d \in Conn : flushing'[d].buffer = flushing[d].buffer
    BY <1>2, <1>3, <1>4
  <2>2. CASE refcount[p] = 1
    BY <1>2, <1>8, <1>16, <2>1, <2>2, Returns DEF IInv
  <2>3. CASE refcount[p] # 1
    BY <1>8, <1>16, <2>1, <2>3 DEF IInv, Owned
  <2> QED BY <2>2, <2>3
<1>18. Holds'
  <2> SUFFICES ASSUME NEW q \in Packet PROVE HoldsAt(q)'
    BY DEF Holds
  <2>1. refcount'[q] > 0 => Kept(q) /\ refcount[q] > 0
    BY <1>2, <1>10 DEF IInv, TypeOK
  <2>2. HoldsAt(q)
    BY DEF IInv, Holds
  <2> QED BY <1>1, <1>16, <2>1, <2>2, KeepsWhole DEF HoldsAt, Receiving
<1>19. Lines'
  <2> SUFFICES ASSUME NEW d \in Conn
               PROVE  /\ Len(wire[d]) <= Served(d)' /\ (d \notin broken => Len(wire[d]) = Served(d)')
                      /\ \A i \in DOMAIN wire[d] :
                           wire[d][i].payload = sent[d][i].payload /\ (wire[d][i].zip => Compressing)
                      /\ \A i \in DOMAIN (Queued(d)') :
                           /\ Done(d)' + i \in DOMAIN sent[d]
                           /\ sent[d][Done(d)' + i].payload = of[Queued(d)'[i]]
    BY <1>1 DEF Lines
  <2>1. CASE d # c
    <3>1. Queued(d)' = Queued(d) /\ Done(d)' = Done(d) /\ Served(d)' = Served(d)
      BY <1>1, <1>4, <1>5, <2>1 DEF Done, Served
    <3> QED BY <3>1 DEF IInv, Lines
  <2>2. CASE d = c
    <3>1. Done(c) \in Int /\ Done(c)' = Done(c) + 1
      BY <1>0, <1>1, <1>5, QueuedType DEF Done, IInv
    <3>2. Served(c) = Done(c) + 1
      BY <1>1 DEF Served
    <3>3. Served(c)' = Served(c)
      <4>1. Served(c)' = Done(c)' + (IF flushing'[c].at = "release" THEN 1 ELSE 0)
        BY DEF Served
      <4> QED BY <1>3, <1>4, <3>1, <3>2, <4>1
    <3>4. ASSUME NEW i \in DOMAIN (Queued(c)')
          PROVE  /\ Done(c)' + i \in DOMAIN sent[c]
                 /\ sent[c][Done(c)' + i].payload = of[Queued(c)'[i]]
      <4>1. i \in 1..(n - 1) /\ i + 1 \in DOMAIN Queued(c) /\ Queued(c)'[i] = Queued(c)[i + 1]
        BY <1>5
      <4>2. /\ Done(c) + (i + 1) \in DOMAIN sent[c]
            /\ sent[c][Done(c) + (i + 1)].payload = of[Queued(c)[i + 1]]
        BY <4>1 DEF IInv, Lines
      <4>3. Done(c)' + i = Done(c) + (i + 1)
        BY <1>5, <3>1, <4>1
      <4> QED BY <4>1, <4>2, <4>3
    <3> QED BY <2>2, <3>3, <3>4 DEF IInv, Lines
  <2> QED BY <2>1, <2>2
<1>20. Stages'
  <2> SUFFICES ASSUME NEW d \in Conn PROVE StagesAt(d)'
    BY DEF Stages
  <2>1. CASE d # c
    <3>1. flushing[d].at \in {"compress", "reclaim"} => Kept(Current(d))
      BY <1>0, <1>1, <1>10, <2>1, AtNoOther
    <3> QED BY <1>1, <1>4, <1>8, <2>1, <3>1, OtherStages
  <2>2. CASE d = c
    BY <1>3, <1>4, <2>2 DEF StagesAt
  <2> QED BY <2>1, <2>2
<1> QED BY <1>9, <1>11, <1>12, <1>13, <1>14, <1>15, <1>17, <1>18, <1>19, <1>20 DEF IInv

-----------------------------------------------------------------------------
(* The theorems                                                            *)

LEMMA InitInv == Init => IInv
<1> SUFFICES ASSUME Init PROVE IInv
  OBVIOUS
<1>1. /\ refcount = [p \in Packet |-> 0] /\ held = [p \in Packet |-> 0]
      /\ bytes = [p \in Packet |-> p] /\ of = [p \in Packet |-> 0]
      /\ notCompress = {} /\ recving = << >> /\ made = 0
      /\ content = [s \in Packet \cup Buffer |-> Empty] /\ pool = [b \in Buffer |-> 0]
      /\ pending = [c \in Conn |-> << >>] /\ flushing = [c \in Conn |-> Idle]
      /\ wire = [c \in Conn |-> << >>] /\ broken = {} /\ sent = [c \in Conn |-> << >>]
  BY DEF Init
<1>2. /\ Idle \in Goroutine /\ Idle.packets = << >> /\ Idle.at = "next" /\ Idle.buffer = << >>
  BY DEF Idle, Goroutine, Steps
<1>3. TypeOK
  BY <1>1, <1>2, Contents DEF TypeOK
<1>4. \A c \in Conn : Queued(c) = << >> /\ DOMAIN Queued(c) = {} /\ Done(c) = 0
  <2> SUFFICES ASSUME NEW c \in Conn
               PROVE  Queued(c) = << >> /\ DOMAIN Queued(c) = {} /\ Done(c) = 0
    OBVIOUS
  <2>1. Queued(c) = << >> \o << >>
    BY <1>1, <1>2 DEF Queued
  <2>2. << >> \o << >> = << >> /\ DOMAIN << >> = {} /\ Len(<< >>) = 0
    OBVIOUS
  <2> QED BY <1>1, <2>1, <2>2 DEF Done
<1>5. Counted
  <2> SUFFICES ASSUME NEW p \in Packet PROVE refcount[p] = References(p)
    BY DEF Counted
  <2> DEFINE S == {c \in Conn : Queues(c, p)}
  <2>1. S = {}
    BY <1>4 DEF Queues
  <2>2. References(p) = 0 + 0 + Cardinality(S)
    BY <1>1 DEF References, Receiving
  <2> HIDE DEF S
  <2> QED BY <1>1, <2>1, <2>2, FS_EmptySet
<1>6. Cleared /\ Numbered /\ Arrives /\ Alone
  <2>1. \A p \in Packet : content[p] = Empty /\ bytes[p] = p /\ p \notin notCompress
    BY <1>1
  <2>2. \A c \in Conn : DOMAIN sent[c] = {}
    BY <1>1
  <2> QED BY <1>1, <2>1, <2>2
          DEF Cleared, ClearedAt, Numbered, Arrives, ArrivesAt, Receiving, Alone
<1>7. Owned /\ Holds
  <2>1. \A c \in Conn : flushing[c].buffer = << >>
    BY <1>1, <1>2
  <2> QED BY <1>1, <2>1, PacketsAssumption
          DEF Owned, Holds, HoldsAt, PacketsAssumption
<1>8. Lines
  <2> SUFFICES ASSUME NEW c \in Conn
               PROVE  /\ Len(wire[c]) = 0 /\ DOMAIN wire[c] = {} /\ DOMAIN Queued(c) = {}
                      /\ Done(c) = 0 /\ flushing[c].at = "next"
    BY DEF Lines, Served
  <2> QED BY <1>1, <1>2, <1>4
<1>9. Stages
  BY <1>1, <1>2 DEF Stages, StagesAt
<1> QED BY <1>3, <1>5, <1>6, <1>7, <1>8, <1>9 DEF IInv

LEMMA Stuttering ==
  ASSUME IInv, UNCHANGED vars
  PROVE  IInv'
<1>1. /\ refcount' = refcount /\ bytes' = bytes /\ notCompress' = notCompress
      /\ content' = content /\ pool' = pool /\ held' = held /\ recving' = recving
      /\ pending' = pending /\ flushing' = flushing /\ wire' = wire /\ broken' = broken /\ sent' = sent
      /\ made' = made /\ of' = of
  BY DEF vars, owned, lines
<1>2. \A p \in Packet : Spared(p) /\ Kept(p)
  BY <1>1 DEF Spared, Kept, Receiving
<1>3. TypeOK' /\ Numbered' /\ Alone'
  BY <1>1 DEF IInv, TypeOK, Numbered, Alone
<1>4. Owned' /\ Cleared' /\ Arrives'
  BY <1>1 DEF IInv, Owned, Swapping, Flushing, Current, Cleared, ClearedAt, Arrives, ArrivesAt,
               Receiving, SentTo
<1>5. Holds'
  BY <1>1 DEF IInv, Holds, HoldsAt, Whole, Receiving, Swapping, Flushing, Current, requireCompress
<1>6. Counted'
  <2> SUFFICES ASSUME NEW q \in Packet PROVE refcount'[q] = References(q)'
    BY DEF Counted
  <2>1. References(q)' = References(q)
    BY <1>1, SameReferences DEF Receiving
  <2> QED BY <1>1, <2>1 DEF IInv, Counted
<1>7. Lines' /\ Stages'
  BY <1>1, <1>2, KeepsLines, KeepsStages DEF lines
<1> QED BY <1>3, <1>4, <1>5, <1>6, <1>7 DEF IInv

LEMMA Inductive ==
  ASSUME IInv, Compressing => ~Broadcast, [Next]_vars
  PROVE  IInv'
<1>1. ASSUME NEW p \in Packet, NewPacket(p) PROVE IInv'
  BY <1>1, StepNewPacket
<1>2. ASSUME NEW p \in Packet, SetNotCompress(p) PROVE IInv'
  BY <1>2, StepSetNotCompress
<1>3. ASSUME NEW p \in Packet, AddRefCount(p) PROVE IInv'
  BY <1>3, StepAddRefCount
<1>4. ASSUME NEW p \in Packet, ReleaseHeld(p) PROVE IInv'
  BY <1>4, StepReleaseHeld
<1>5. ASSUME NEW p \in Packet, NEW size \in 1..2, AppendBytes(p, size) PROVE IInv'
  BY <1>5, StepAppendBytes
<1>6. ASSUME NEW p \in Packet, NEW size \in 0..2, NEW zip \in BOOLEAN, NEW wireSize \in 0..2,
             RecvHeader(p, size, zip, wireSize)
      PROVE  IInv'
  BY <1>6, StepRecvHeader
<1>7. ASSUME NEW p \in Packet, NEW c \in Conn, SendPacket(c, p) PROVE IInv'
  BY <1>7, StepSendPacket
<1>8. ASSUME RecvPayload \/ RecvBroken PROVE IInv'
  BY <1>8, StepRecvPayload, StepRecvBroken
<1>9. ASSUME NEW c \in Conn, Flush(c) PROVE IInv'
  BY <1>9, StepFlush
<1>10. ASSUME NEW c \in Conn, StartCompress(c) PROVE IInv'
  BY <1>10, StepStartCompress
<1>11. ASSUME NEW c \in Conn, Compress(c) PROVE IInv'
  BY <1>11, StepCompress
<1>12. ASSUME NEW c \in Conn, Reclaim(c) PROVE IInv'
  BY <1>12, StepReclaim
<1>13. ASSUME NEW c \in Conn, Swap(c) PROVE IInv'
  BY <1>13, StepSwap
<1>14. ASSUME NEW c \in Conn, Write(c) PROVE IInv'
  BY <1>14, StepWrite
<1>15. ASSUME NEW c \in Conn, ReleaseFlushed(c) PROVE IInv'
  BY <1>15, StepReleaseFlushed
<1>16. CASE UNCHANGED vars
  BY <1>16, Stuttering
<1> QED BY <1>1, <1>2, <1>3, <1>4, <1>5, <1>6, <1>7, <1>8, <1>9, <1>10, <1>11, <1>12, <1>13,
           <1>14, <1>15, <1>16 DEF Next

LEMMA ImpliesWritten ==
  ASSUME IInv
  PROVE  WrittenAsSent
<1> SUFFICES ASSUME NEW c \in Conn
             PROVE  /\ Len(wire[c]) <= Len(sent[c])
                    /\ \A i \in DOMAIN wire[c] :
                         wire[c][i].payload = sent[c][i].payload /\ (wire[c][i].zip => Compressing)
  BY DEF WrittenAsSent
<1>1. /\ Len(Queued(c)) \in Nat /\ Len(sent[c]) \in Nat /\ DOMAIN sent[c] = 1..Len(sent[c])
      /\ Len(wire[c]) <= Done(c) + (IF flushing[c].at = "release" THEN 1 ELSE 0)
      /\ Len(wire[c]) \in Nat
  BY QueuedType DEF IInv, Lines, Served
<1>2. Len(wire[c]) <= Len(sent[c])
  <2>1. CASE flushing[c].at = "release"
    <3>1. flushing[c].packets # << >>
      BY <2>1 DEF IInv, Stages, StagesAt, Idle
    <3>2. Done(c) + 1 \in DOMAIN sent[c]
      BY <3>1, AtHead DEF IInv
    <3> QED BY <1>1, <2>1, <3>2
  <2>2. CASE flushing[c].at # "release"
    BY <1>1, <2>2 DEF Done
  <2> QED BY <2>1, <2>2
<1> QED BY <1>2 DEF IInv, Lines

\* A set no two elements of which differ.
LEMMA AtMostOne ==
  ASSUME NEW S, \A x, y \in S : x = y
  PROVE  Cardinality(S) \in {0, 1} /\ (Cardinality(S) = 0 <=> S = {})
<1>1. CASE S = {}
  BY <1>1, FS_EmptySet
<1>2. CASE S # {}
  <2>1. PICK x \in S : S = {x}
    BY <1>2
  <2>2. Cardinality(S) = 1
    BY <2>1, FS_Singleton
  <2> QED BY <1>2, <2>2
<1> QED BY <1>1, <1>2

LEMMA ImpliesCounted ==
  ASSUME IInv
  PROVE  CountedAndOwned
<1>1. ASSUME NEW c \in Conn, NEW i \in DOMAIN Queued(c), NEW j \in DOMAIN Queued(c),
             Queued(c)[i] = Queued(c)[j]
      PROVE  i = j
  BY <1>1, InQueue DEF IInv
<1>2. ASSUME NEW b \in Buffer PROVE Cardinality(Owners(b)) + pool[b] <= 1
  <2>1. \A x, y \in Owners(b) : x = y
    <3>1. \A p \in Packet, c \in Conn : ~(bytes[p] = b /\ ~Swapping(p) /\ flushing[c].buffer = b)
      BY DEF IInv, Owned
    <3>2. \A p, q \in Packet : bytes[p] = b /\ bytes[q] = b /\ ~Swapping(p) /\ ~Swapping(q) => p = q
      BY DEF IInv, Owned
    <3>3. \A c, d \in Conn : flushing[c].buffer = b /\ flushing[d].buffer = b => c = d
      BY PacketsAssumption DEF IInv, Owned, PacketsAssumption
    <3> QED BY <3>1, <3>2, <3>3 DEF Owners
  <2>2. pool[b] \in Nat /\ pool[b] <= 1
    BY DEF IInv, TypeOK, Owned
  <2>3. pool[b] > 0 => Owners(b) = {}
    BY <2>2 DEF IInv, Owned, Owners
  <2> QED BY <2>1, <2>2, <2>3, AtMostOne
<1>3. \A p \in Packet : /\ refcount[p] = References(p)
                        /\ refcount[p] = 0 => bytes[p] = p /\ content[p] = Empty /\ p \notin notCompress
  BY DEF IInv, Counted, Cleared, ClearedAt
<1> QED BY <1>1, <1>2, <1>3 DEF CountedAndOwned

-----------------------------------------------------------------------------
(* The theorems                                                            *)

\* Every step of the main goroutine and of the flush goroutines, in any order,
\* keeps what the properties rest on: who owns a buffer, whose references are
\* counted, and that a packet holds what it was made with as long as a queue has it
\* (SendPacket, AddRefCount, Release, compress and the flush of netutil).
THEOREM PacketsInvariant == (Compressing => ~Broadcast) => (Spec => []IInv)
<1>1. (Compressing => ~Broadcast) /\ IInv /\ [Next]_vars => IInv'
  BY Inductive
<1> SUFFICES ASSUME Compressing => ~Broadcast
             PROVE  Spec => []IInv
  OBVIOUS
<1>2. IInv /\ [Next]_vars => IInv'
  BY <1>1
<1> QED BY InitInv, <1>2, PTL DEF Spec

\* The fields of packets, pools and connections keep their types; refcount and
\* held are never negative, so Release's panic ("releasing packet with refcount")
\* is never reached.
THEOREM PacketsTyped == (Compressing => ~Broadcast) => (Spec => []TypeOK)
<1>1. IInv => TypeOK
  BY DEF IInv
<1> QED BY PacketsInvariant, <1>1, PTL

\* What a connection writes is what was sent to it, in that order: no flush writes a
\* buffer that was recycled, compressed for another or not yet filled.
THEOREM StreamsKept == (Compressing => ~Broadcast) => (Spec => []WrittenAsSent)
<1>1. IInv => WrittenAsSent
  BY ImpliesWritten
<1> QED BY PacketsInvariant, <1>1, PTL

\* References are counted exactly, so the last Release, and no earlier one, clears
\* the packet and gives its buffer back; no buffer has two owners, and none is owned
\* and in its pool.
THEOREM PacketsCounted == (Compressing => ~Broadcast) => (Spec => []CountedAndOwned)
<1>1. IInv => CountedAndOwned
  BY ImpliesCounted
<1> QED BY PacketsInvariant, <1>1, PTL
=============================================================================
