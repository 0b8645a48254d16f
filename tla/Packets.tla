------------------------------- MODULE Packets -------------------------------
(***************************************************************************)
(* The packets of a process and its connections (engine/netutil): packets  *)
(* counted by reference, the pools their payload buffers come from, and    *)
(* the connections that queue packets for a flush goroutine each, which    *)
(* compresses them if the connection does, writes and releases them.       *)
(*                                                                         *)
(* The main goroutine makes, receives, appends to, holds, sends and        *)
(* releases packets. A flush goroutine shares the packet with it and with  *)
(* the flush goroutines of the other connections the packet was sent to;   *)
(* only the reference count and the pools are safe to share, so a step of  *)
(* a flush goroutine is one access to what is not.                         *)
(*                                                                         *)
(* A payload is a number, its size a class: 0 fits in the packet itself, 1 *)
(* needs a buffer, 2 a larger one and is long enough to be compressed.     *)
(***************************************************************************)
EXTENDS Integers, Sequences, FiniteSets

CONSTANTS
  Packet, Buffer, Conn,
  Capacity,      \* [Buffer -> 1..2] : the pool a buffer belongs to
  Compressing,   \* do the connections compress?
  Broadcast,     \* may a packet that can be compressed go to two connections?
  MaxPayloads,   \* bound: payloads made or received
  MaxHolds       \* bound: references of the main goroutine to a packet

ASSUME PacketsAssumption ==
  /\ Packet \cap Buffer = {} /\ Capacity \in [Buffer -> 1..2]
  /\ << >> \notin Buffer /\ IsFiniteSet(Conn)
  /\ {Compressing, Broadcast} \subseteq BOOLEAN
  /\ {MaxPayloads, MaxHolds} \subseteq Nat

VARIABLES
  refcount,     \* [Packet -> Int]
  bytes,        \* [Packet -> the packet (its initialBytes) or a buffer]
  notCompress,  \* the packets never to be compressed
  content,      \* what initialBytes and buffers hold
  pool,         \* [Buffer -> Nat] : how often a pool has the buffer
  held,         \* [Packet -> Nat] : references of the main goroutine
  recving,      \* the payload arriving: << >> or one record
  pending,      \* [Conn -> Seq(Packet)] : pendingPackets
  flushing,     \* [Conn -> the flush goroutine]
  wire,         \* [Conn -> what was written]
  broken,       \* the connections a write has failed on
  made,         \* how many payloads were made or received
  of,           \* history: [Packet -> the payload made or received last]
  sent          \* history: [Conn -> what was sent, in the order of SendPacket,
                \* and whether it may be compressed]

owned == <<refcount, bytes, notCompress, content, pool, held>>
lines == <<pending, flushing, wire, broken, sent>>
vars == <<owned, lines, recving, made, of>>

Empty == [payload |-> 0, size |-> 0, zip |-> FALSE]
Idle == [packets |-> << >>, at |-> "next", buffer |-> << >>, from |-> << >>]

Init ==
  /\ refcount = [p \in Packet |-> 0]
  /\ bytes = [p \in Packet |-> p]
  /\ notCompress = {}
  /\ content = [s \in Packet \cup Buffer |-> Empty]
  /\ pool = [b \in Buffer |-> 0]
  /\ held = [p \in Packet |-> 0]
  /\ recving = << >>
  /\ pending = [c \in Conn |-> << >>]
  /\ flushing = [c \in Conn |-> Idle]
  /\ wire = [c \in Conn |-> << >>]
  /\ broken = {}
  /\ made = 0
  /\ of = [p \in Packet |-> 0]
  /\ sent = [c \in Conn |-> << >>]

InUse(b) == (\E p \in Packet : bytes[p] = b)
              \/ (\E c \in Conn : b \in {flushing[c].buffer, flushing[c].from})

\* sync.Pool: a buffer that was put back, or a new one.
CanGet(b, cap) == Capacity[b] = cap /\ (pool[b] > 0 \/ ~InUse(b))
Got(b) == [pool EXCEPT ![b] = IF @ > 0 THEN @ - 1 ELSE 0]
PutBack(pl, s) == IF s \in Buffer THEN [pl EXCEPT ![s] = @ + 1] ELSE pl

-----------------------------------------------------------------------------
(* The main goroutine                                                      *)

PayloadCap(p) == IF bytes[p] \in Buffer THEN Capacity[bytes[p]] ELSE 0

\* NewPacket, and the first bytes.
NewPacket(p) ==
  /\ refcount[p] = 0 /\ made < MaxPayloads
  /\ refcount' = [refcount EXCEPT ![p] = 1]
  /\ held' = [held EXCEPT ![p] = 1]
  /\ made' = made + 1 /\ of' = [of EXCEPT ![p] = made']
  /\ content' = [content EXCEPT ![bytes[p]] = [Empty EXCEPT !.payload = made']]
  /\ UNCHANGED <<bytes, notCompress, pool, recving, lines>>

requireCompress(p) ==
  p \notin notCompress /\ ~content[bytes[p]].zip /\ content[bytes[p]].size = 2

SentTo(c, p) == \E i \in DOMAIN sent[c] : sent[c][i].payload = of[p]

\* Bytes are appended, and the packet marked, before it is sent.
Making(p) == refcount[p] = 1 /\ held[p] = 1 /\ ~\E c \in Conn : SentTo(c, p)

\* AssureCapacity: no need, or a larger buffer; the data is copied and a smaller
\* buffer goes back.
AssureCapacity(p, size, new) ==
  \/ size <= PayloadCap(p) /\ new = bytes[p] /\ UNCHANGED <<bytes, pool>>
  \/ /\ size > PayloadCap(p)
     /\ new \in Buffer /\ CanGet(new, size)
     /\ bytes' = [bytes EXCEPT ![p] = new]
     /\ pool' = PutBack(Got(new), bytes[p])

AppendBytes(p, size) ==
  /\ Making(p) /\ size > content[bytes[p]].size
  /\ \E new \in Packet \cup Buffer :
       /\ AssureCapacity(p, size, new)
       /\ content' = [content EXCEPT ![new] = [content[bytes[p]] EXCEPT !.size = size]]
  /\ UNCHANGED <<refcount, notCompress, held, recving, made, of, lines>>

SetNotCompress(p) ==
  /\ Making(p)
  /\ notCompress' = notCompress \cup {p}
  /\ UNCHANGED <<refcount, bytes, content, pool, held, recving, made, of, lines>>

\* RecvPacket has the length of a payload: it allocates the packet and reads on.
RecvHeader(p, size, zip, wireSize) ==
  /\ recving = << >> /\ refcount[p] = 0 /\ made < MaxPayloads
  /\ IF zip THEN size = 2 ELSE wireSize = size
  /\ refcount' = [refcount EXCEPT ![p] = 1]
  /\ \E new \in Packet \cup Buffer :
       /\ AssureCapacity(p, wireSize, new)
       /\ content' = [content EXCEPT ![new] = content[bytes[p]]]
  /\ made' = made + 1 /\ of' = [of EXCEPT ![p] = made']
  /\ recving' = <<[packet |-> p, payload |-> made', size |-> size, zip |-> zip]>>
  /\ UNCHANGED <<notCompress, held, lines>>

\* Into a buffer of the size the payload had before.
decompress(p, whole) ==
  \E b \in Buffer :
    /\ CanGet(b, whole.size)
    /\ bytes' = [bytes EXCEPT ![p] = b]
    /\ pool' = PutBack(Got(b), bytes[p])
    /\ content' = [content EXCEPT ![b] = whole, ![bytes[p]] = [whole EXCEPT !.zip = TRUE]]

\* The rest has come: the packet is complete.
RecvPayload ==
  /\ recving # << >>
  /\ LET r == recving[1]  p == r.packet
         whole == [payload |-> r.payload, size |-> r.size, zip |-> FALSE]
     IN  /\ held' = [held EXCEPT ![p] = 1]
         /\ \/ r.zip /\ decompress(p, whole)
            \/ /\ ~r.zip
               /\ content' = [content EXCEPT ![bytes[p]] = whole]
               /\ UNCHANGED <<bytes, pool>>
  /\ recving' = << >>
  /\ UNCHANGED <<refcount, notCompress, made, of, lines>>

\* The connection breaks in the middle of a packet: packet and buffer are left to
\* the garbage collector, as good as never allocated.
RecvBroken ==
  /\ recving # << >>
  /\ LET p == recving[1].packet
     IN  /\ refcount' = [refcount EXCEPT ![p] = 0]
         /\ bytes' = [bytes EXCEPT ![p] = p]
  /\ recving' = << >>
  /\ UNCHANGED <<notCompress, content, pool, held, made, of, lines>>

\* A packet is put in a queue (of a blocked entity or game) and outlives the
\* handler.
AddRefCount(p) ==
  /\ held[p] \in 1..(MaxHolds - 1)
  /\ refcount' = [refcount EXCEPT ![p] = @ + 1]
  /\ held' = [held EXCEPT ![p] = @ + 1]
  /\ UNCHANGED <<bytes, notCompress, content, pool, recving, made, of, lines>>

\* Environment: to whom a packet is sent, once each.
MaySend(c, p) ==
  /\ ~SentTo(c, p)
  /\ \/ Broadcast
     \/ \A d \in Conn : \A i \in DOMAIN sent[d] :
          sent[d][i] # [payload |-> of[p], compress |-> TRUE]

\* A packet is queued for the flush goroutine of the connection.
SendPacket(c, p) ==
  /\ held[p] > 0 /\ MaySend(c, p)
  /\ refcount' = [refcount EXCEPT ![p] = @ + 1]
  /\ pending' = [pending EXCEPT ![c] = Append(@, p)]
  /\ sent' = [sent EXCEPT ![c] = Append(@, [payload |-> of[p],
                                             compress |-> requireCompress(p)])]
  /\ UNCHANGED <<bytes, notCompress, content, pool, held, flushing, wire, broken, recving, made, of>>

\* Mutant: the payload of a packet that goes back to the pool is not cleared.
ReleaseMutant(p) ==
  /\ refcount' = [refcount EXCEPT ![p] = @ - 1]
  /\ IF refcount'[p] = 0
     THEN /\ pool' = PutBack(pool, bytes[p])
          /\ bytes' = [bytes EXCEPT ![p] = p]
          /\ notCompress' = notCompress \ {p}
     ELSE UNCHANGED <<pool, bytes, notCompress>>
  /\ UNCHANGED content

\* The last reference gives the buffer and the packet back, both cleared.
Release(p) ==
  /\ refcount' = [refcount EXCEPT ![p] = @ - 1]
  /\ IF refcount'[p] = 0
     THEN /\ pool' = PutBack(pool, bytes[p])
          /\ bytes' = [bytes EXCEPT ![p] = p]
          /\ content' = [content EXCEPT ![p] = Empty]
          /\ notCompress' = notCompress \ {p}
     ELSE UNCHANGED <<pool, bytes, content, notCompress>>

\* The handler is done with the packet, or the queue with what it held.
ReleaseHeld(p) ==
  /\ held[p] > 0
  /\ held' = [held EXCEPT ![p] = @ - 1]
  /\ Release(p)
  /\ UNCHANGED <<recving, made, of, lines>>

-----------------------------------------------------------------------------
(* The flush goroutine of a connection                                     *)

Current(c) == Head(flushing[c].packets)
\* SetAutoFlush: the goroutine is in the middle of a packet.
Flushing(c, step) == flushing[c].packets # << >> /\ flushing[c].at = step

\* Flush takes the queue; after one that failed there is no other.
Flush(c) ==
  /\ flushing[c].packets = << >> /\ pending[c] # << >>
  /\ c \notin broken
  /\ flushing' = [flushing EXCEPT ![c].packets = pending[c]]
  /\ pending' = [pending EXCEPT ![c] = << >>]
  /\ UNCHANGED <<owned, wire, broken, sent, recving, made, of>>

\* compress gets a buffer of the packet's capacity, and the old payload.
StartCompress(c) ==
  /\ Flushing(c, "next")
  /\ \/ /\ Compressing /\ requireCompress(Current(c))
        /\ \E b \in Buffer :
             /\ CanGet(b, PayloadCap(Current(c)))
             /\ pool' = Got(b)
             /\ flushing' = [flushing EXCEPT ![c].at = "compress", ![c].buffer = b,
                                             ![c].from = bytes[Current(c)]]
     \/ /\ ~(Compressing /\ requireCompress(Current(c)))
        /\ flushing' = [flushing EXCEPT ![c].at = "write"]
        /\ UNCHANGED pool
  /\ UNCHANGED <<refcount, bytes, notCompress, content, held, pending, wire, broken, sent,
                 recving, made, of>>

\* What is compressed is what the old payload's buffer holds now. If it is not
\* much smaller the new buffer is thrown away.
Compress(c) ==
  /\ Flushing(c, "compress")
  /\ LET f == flushing[c]
     IN  \/ /\ content' = [content EXCEPT ![f.buffer] =
                             IF content[f.from].zip THEN [Empty EXCEPT !.zip = TRUE]
                             ELSE [content[f.from] EXCEPT !.zip = TRUE]]
            /\ flushing' = [flushing EXCEPT ![c].at = "reclaim", ![c].from = << >>]
         \/ /\ flushing' = [flushing EXCEPT ![c] = [Idle EXCEPT !.packets = f.packets,
                                                               !.at = "write"]]
            /\ UNCHANGED content
  /\ UNCHANGED <<refcount, bytes, notCompress, pool, held, pending, wire, broken, sent,
                 recving, made, of>>

\* Mutant: the compressed buffer is put back instead of the old one.
ReclaimMutant(c) ==
  /\ Flushing(c, "reclaim")
  /\ pool' = PutBack(pool, flushing[c].buffer)
  /\ flushing' = [flushing EXCEPT ![c].at = "swap"]
  /\ UNCHANGED <<refcount, bytes, notCompress, content, held, pending, wire, broken, sent,
                 recving, made, of>>

\* The packet's buffer goes to the pool ...
Reclaim(c) ==
  /\ Flushing(c, "reclaim")
  /\ pool' = PutBack(pool, bytes[Current(c)])
  /\ flushing' = [flushing EXCEPT ![c].at = "swap"]
  /\ UNCHANGED <<refcount, bytes, notCompress, content, held, pending, wire, broken, sent,
                 recving, made, of>>

\* ... and the compressed one takes its place.
Swap(c) ==
  /\ Flushing(c, "swap")
  /\ bytes' = [bytes EXCEPT ![Current(c)] = flushing[c].buffer]
  /\ flushing' = [flushing EXCEPT ![c].at = "write", ![c].buffer = << >>]
  /\ UNCHANGED <<refcount, notCompress, content, pool, held, pending, wire, broken, sent,
                 recving, made, of>>

\* WriteAll of the packet's data. It may fail, and then the writer fails for ever;
\* of several packets the error is ignored, and the rest is released unwritten.
Write(c) ==
  /\ Flushing(c, "write")
  /\ \/ /\ c \notin broken
        /\ wire' = [wire EXCEPT ![c] = Append(@, content[bytes[Current(c)]])]
        /\ UNCHANGED broken
     \/ broken' = broken \cup {c} /\ UNCHANGED wire
  /\ flushing' = [flushing EXCEPT ![c].at = "release"]
  /\ UNCHANGED <<owned, pending, sent, recving, made, of>>

\* The reference of the queue is given up; on to the next packet.
ReleaseFlushed(c) ==
  /\ Flushing(c, "release")
  /\ Release(Current(c))
  /\ flushing' = [flushing EXCEPT ![c] = [Idle EXCEPT !.packets = Tail(flushing[c].packets)]]
  /\ UNCHANGED <<held, pending, wire, broken, sent, recving, made, of>>

-----------------------------------------------------------------------------

Next ==
  \/ \E p \in Packet :
       \/ NewPacket(p) \/ SetNotCompress(p) \/ AddRefCount(p) \/ ReleaseHeld(p)
       \/ \E size \in 1..2 : AppendBytes(p, size)
       \/ \E size \in 0..2, zip \in BOOLEAN, wireSize \in 0..2 :
            RecvHeader(p, size, zip, wireSize)
       \/ \E c \in Conn : SendPacket(c, p)
  \/ RecvPayload \/ RecvBroken
  \/ \E c \in Conn :
       \/ Flush(c) \/ StartCompress(c) \/ Compress(c) \/ Reclaim(c) \/ Swap(c)
       \/ Write(c) \/ ReleaseFlushed(c)

Spec == Init /\ [][Next]_vars

-----------------------------------------------------------------------------
(* Properties                                                              *)

\* "send packet and recv packet mismatch" (netutil_test.go): what is written to a
\* connection is what was sent to it, in that order, whatever the buffers were
\* used for in between and whoever else the packet was sent to.
WrittenAsSent ==
  \A c \in Conn :
    /\ Len(wire[c]) <= Len(sent[c])
    /\ \A i \in DOMAIN wire[c] : /\ wire[c][i].payload = sent[c][i].payload
                                 /\ wire[c][i].zip => Compressing

Queued(c) == flushing[c].packets \o pending[c]
Queues(c, p) == \E i \in DOMAIN Queued(c) : Queued(c)[i] = p
Receiving(p) == recving # << >> /\ recving[1].packet = p

References(p) ==
  held[p] + (IF Receiving(p) THEN 1 ELSE 0) + Cardinality({c \in Conn : Queues(c, p)})

\* The packets that use a buffer, and the compressions that fill it; a packet in
\* the middle of a swap has given its buffer up.
Swapping(p) == \E c \in Conn : Flushing(c, "swap") /\ Current(c) = p
Owners(b) ==
  {p \in Packet : bytes[p] = b /\ ~Swapping(p)}
    \cup {c \in Conn : flushing[c].buffer = b}

\* No connection queues a packet twice; a packet counts its references, so that it
\* and its buffer go back to the pools once and not before the last use, cleared as
\* allocPacket asserts; and no buffer is owned twice, or owned and in its pool.
CountedAndOwned ==
  /\ \A c \in Conn : \A i, j \in DOMAIN Queued(c) :
       Queued(c)[i] = Queued(c)[j] => i = j
  /\ \A p \in Packet :
       /\ refcount[p] = References(p)
       /\ refcount[p] = 0 => bytes[p] = p /\ content[p] = Empty /\ p \notin notCompress
  /\ \A b \in Buffer : Cardinality(Owners(b)) + pool[b] <= 1
=============================================================================
