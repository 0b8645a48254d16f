----------------------------- MODULE Attributes -----------------------------
(***************************************************************************)
(* The attributes of an entity (engine/entity/MapAttr.go, ListAttr.go):    *)
(* a tree of map and list nodes under the entity's root map, each with its *)
(* owner, parent, flag and cached path, and the copies of the tree that    *)
(* the owner's client and the clients of its neighbours keep by applying   *)
(* the change notices the entity sends.                                    *)
(*                                                                         *)
(* A document is the set of its <<path, leaf>> pairs: a scalar stands for  *)
(* itself, a map or a list for its kind.                                   *)
(***************************************************************************)
EXTENDS Integers, Sequences, SequencesExt, FiniteSets, TLC

CONSTANTS
  Root,            \* e.Attrs
  Map, List,       \* the other map and list nodes the program may create
  Key,             \* keys of maps
  Scalar,          \* values that are no nodes
  allClientAttrs,  \* root keys defined AllClients
  clientAttrs,     \* root keys defined Client or AllClients
  MaxItems,        \* bound: length of a list
  MaxDepth,        \* bound: length of a path
  NoNode, NoKey, Absent, NoPath

VARIABLES
  content,         \* [Node -> partial function from keys or indexes to values]
  parent, pkey,    \* [Node -> ...] : where the node hangs; NoNode and NoKey if nowhere
  owner,           \* [Node -> BOOLEAN] : does it know the entity as its owner?
  flag,            \* [Node -> {"all", "client", "none"}]
  path,            \* [Node -> path or NoPath] : the cached path from the root
  view,            \* ["own", "neighbor" -> document, or Absent without a client]
  misused          \* has the program done what the code does not support? (see below)

attrVars == <<content, parent, pkey, owner, flag, path, view, misused>>

ASSUME clientAttrs \subseteq Key /\ allClientAttrs \subseteq clientAttrs

Maps == Map \cup {Root}
Node == Maps \cup List
Value == Scalar \cup Map \cup List

Paths == UNION {[1..d -> Key \cup 1..MaxItems] : d \in 0..MaxDepth}

\* The values in the subtree of a value, each with its path from there.
Deeper(found) ==
  found \cup UNION {{<<Append(e[1], k), content[e[2]][k]>> : k \in DOMAIN content[e[2]]} :
                      e \in {f \in found : f[2] \in Node}}
Subtree(v) == FoldLeft(LAMBDA found, d : Deeper(found), {<< << >>, v>>},
                       [d \in 1..MaxDepth |-> d])
Below(v) == {e[2] : e \in Subtree(v)} \cap Node

\* ToMap and ToList: the document of a value.
Leaf(v) == CASE v \in Maps -> "map" [] v \in List -> "list" [] OTHER -> v
Tree(v) == {<<e[1], Leaf(e[2])>> : e \in Subtree(v)}

\* DefineAttr, getAttrFlag: the flag of a root key.
getAttrFlag(k) == IF k \in allClientAttrs THEN "all"
                  ELSE IF k \in clientAttrs THEN "client" ELSE "none"

\* getPathFromOwner walks the parents; every node caches the result.
PathTo(n) == LET up[m \in Node] == IF parent[m] = NoNode THEN << >>
                                   ELSE Append(up[parent[m]], pkey[m])
             IN up[n]
getPathFromOwner(n) == IF path[n] = NoPath THEN PathTo(n) ELSE path[n]

\* getClientData and getAllClientData, what a new client is told of the entity.
Sees(w, k) == IF w = "own" THEN k \in clientAttrs ELSE k \in allClientAttrs
ClientData(w) == {e \in Tree(Root) : e[1] # << >> /\ Sees(w, e[1][1])}

AttrInit ==
  /\ content = [n \in Node |-> << >>]
  /\ parent = [n \in Node |-> NoNode] /\ pkey = [n \in Node |-> NoKey]
  /\ owner = [n \in Node |-> n = Root]
  /\ flag = [n \in Node |-> "none"]
  /\ path = [n \in Node |-> NoPath]
  /\ view = [w \in {"own", "neighbor"} |-> Absent]
  /\ misused = FALSE

-----------------------------------------------------------------------------
(* The notices and what a client makes of them.                            *)

Without(doc, p) == {e \in doc : ~IsPrefix(p, e[1])}
Graft(doc, p, v) == Without(doc, p) \cup {<<p \o e[1], e[2]>> : e \in Tree(v)}
Emptied(doc, p) == {e \in doc : ~IsStrictPrefix(p, e[1])}

\* The clients a notice of a flag goes to; a node without owner sends none.
Told(w, f) == f = "all" \/ (f = "client" /\ w = "own")

\* Send(n, f, Change): every client the flag reaches changes its copy at the
\* path of node n, which is cached from then on.
Send(n, f, Change(_, _)) ==
  IF owner[n] /\ f # "none"
  THEN /\ path' = [path EXCEPT ![n] = IF n = Root THEN NoPath ELSE getPathFromOwner(n)]
       /\ view' = [w \in DOMAIN view |->
                     IF view[w] # Absent /\ Told(w, f)
                     THEN Change(view[w], getPathFromOwner(n)) ELSE view[w]]
  ELSE UNCHANGED <<path, view>>

\* The flag of an item of a node: the root's depends on the key.
ItemFlag(n, k) == IF n = Root THEN getAttrFlag(k) ELSE flag[n]

-----------------------------------------------------------------------------
(* What the program must not do, for the code does not keep up with it:    *)
(*   - use a node of the entity after overwriting it: set does not detach  *)
(*     the old value, which goes on sending changes under its old path;    *)
(*   - set a node that hangs somewhere: it panics, the value already set;  *)
(*   - append to the entity's tree a map that holds nodes: append does not *)
(*     pass the owner on to them;                                          *)
(*   - clear the root: it panics after clearing.                           *)

Reachable(n) == n \in Below(Root)
Held(n) == parent[n] # NoNode => \E k \in DOMAIN content[parent[n]] : content[parent[n]][k] = n
Overwritten(n) == \E m \in Node : ~Held(m) /\ n \in Below(m)
Reused(v) == v \in Node /\ (parent[v] # NoNode \/ owner[v])

\* A value the program may put into a node: not the node's own ancestor.
Puttable(n, v) == /\ v \in Value
                  /\ v \in Node => n \notin Below(v)
                  /\ \A e \in Subtree(v) : Len(PathTo(n)) + 1 + Len(e[1]) <= MaxDepth
Put(n, k, v) == content' = [content EXCEPT ![n] = (k :> v) @@ @]

\* Mutant: setOwner does not pass the flag on to the children.
AdoptMutant(n, k, v, f) ==
  /\ parent' = [parent EXCEPT ![v] = n]
  /\ pkey' = [pkey EXCEPT ![v] = k]
  /\ owner' = [m \in Node |-> IF m \in Below(v) THEN owner[n] ELSE owner[m]]
  /\ flag' = [flag EXCEPT ![v] = f]

\* setParent, setOwner: the whole subtree learns its owner and flag.
Adopt(n, k, v, f) ==
  /\ parent' = [parent EXCEPT ![v] = n]
  /\ pkey' = [pkey EXCEPT ![v] = k]
  /\ owner' = [m \in Node |-> IF m \in Below(v) THEN owner[n] ELSE owner[m]]
  /\ flag' = [m \in Node |-> IF m \in Below(v) THEN f ELSE flag[m]]

\* Mutant: clearOwner leaves the cached paths.
DetachMutant(vs) ==
  LET gone == vs \cap Node  all == UNION {Below(v) : v \in gone}
  IN /\ parent' = [m \in Node |-> IF m \in gone THEN NoNode ELSE parent[m]]
     /\ pkey' = [m \in Node |-> IF m \in gone THEN NoKey ELSE pkey[m]]
     /\ owner' = [m \in Node |-> owner[m] /\ m \notin all]
     /\ flag' = [m \in Node |-> IF m \in all THEN "none" ELSE flag[m]]
     /\ UNCHANGED path

\* removeFromParent, clearOwner: the subtrees of the nodes forget both.
Detach(vs) ==
  LET gone == vs \cap Node  all == UNION {Below(v) : v \in gone}
  IN /\ parent' = [m \in Node |-> IF m \in gone THEN NoNode ELSE parent[m]]
     /\ pkey' = [m \in Node |-> IF m \in gone THEN NoKey ELSE pkey[m]]
     /\ owner' = [m \in Node |-> owner[m] /\ m \notin all]
     /\ flag' = [m \in Node |-> IF m \in all THEN "none" ELSE flag[m]]
     /\ path' = [m \in Node |-> IF m \in all THEN NoPath ELSE path[m]]

\* A removal detaches the values, then tells the clients.
TakeOut(n, f, vs, Change(_, _)) ==
  /\ Detach(vs)
  /\ view' = IF owner[n] /\ f # "none"
             THEN [w \in DOMAIN view |->
                     IF view[w] # Absent /\ Told(w, f)
                     THEN Change(view[w], getPathFromOwner(n)) ELSE view[w]]
             ELSE view

-----------------------------------------------------------------------------
(* The operations.                                                         *)

\* set of maps and lists: SetInt, ... SetMapAttr, SetDefault..., and the
\* containers GetMapAttr and GetListAttr create on demand.
Set(n, k, v) ==
  /\ Puttable(n, v)
  /\ Put(n, k, v)
  /\ IF Reused(v) THEN UNCHANGED <<parent, pkey, owner, flag, path, view>>
     ELSE /\ Send(n, ItemFlag(n, k), LAMBDA d, p : Graft(d, Append(p, k), v))
          /\ IF v \in Node THEN Adopt(n, k, v, ItemFlag(n, k))
             ELSE UNCHANGED <<parent, pkey, owner, flag>>
  /\ misused' = (Reused(v) \/ Overwritten(n))

MapSet(n, k, v) == n \in Maps /\ k \in Key /\ Set(n, k, v)
ListSet(n, i, v) == n \in List /\ i \in DOMAIN content[n] /\ Set(n, i, v)

\* pop of a map: Pop..., Del.
MapPop(n, k) ==
  /\ n \in Maps /\ k \in DOMAIN content[n]
  /\ content' = [content EXCEPT ![n] = [j \in DOMAIN @ \ {k} |-> @[j]]]
  /\ TakeOut(n, ItemFlag(n, k), {content[n][k]}, LAMBDA d, p : Without(d, Append(p, k)))
  /\ misused' = Overwritten(n)

MapClear(n) ==
  /\ n \in Maps /\ DOMAIN content[n] # {}
  /\ content' = [content EXCEPT ![n] = << >>]
  /\ TakeOut(n, flag[n], {content[n][k] : k \in DOMAIN content[n]}, Emptied)
  /\ misused' = (n = Root \/ Overwritten(n))

\* append: a list knows its items by position; a map's own nodes are not told
\* of the new owner, a list's are.
ListAppend(n, v) ==
  LET i == Cardinality(DOMAIN content[n]) + 1
  IN /\ n \in List /\ i <= MaxItems
     /\ Puttable(n, v)
     /\ Put(n, i, v)
     /\ IF Reused(v) THEN UNCHANGED <<parent, pkey, owner, flag, path, view>>
        ELSE /\ Send(n, flag[n], LAMBDA d, p : Graft(d, Append(p, i), v))
             /\ IF v \in List THEN Adopt(n, i, v, flag[n])
                ELSE IF v \in Map
                THEN /\ parent' = [parent EXCEPT ![v] = n]
                     /\ pkey' = [pkey EXCEPT ![v] = i]
                     /\ owner' = [owner EXCEPT ![v] = owner[n]]
                     /\ flag' = [flag EXCEPT ![v] = flag[n]]
                ELSE UNCHANGED <<parent, pkey, owner, flag>>
     /\ misused' = \/ Reused(v) \/ Overwritten(n)
                   \/ owner[n] /\ v \in Map /\ Below(v) # {v}

ListPop(n) ==
  LET i == Cardinality(DOMAIN content[n])
  IN /\ n \in List /\ i > 0
     /\ content' = [content EXCEPT ![n] = [j \in 1..(i - 1) |-> @[j]]]
     /\ TakeOut(n, flag[n], {content[n][i]}, LAMBDA d, p : Without(d, Append(p, i)))
     /\ misused' = Overwritten(n)

\* A client gets the entity as its own or as a neighbour's, or loses it.
ClientJoins(w) == /\ view[w] = Absent
                  /\ view' = [view EXCEPT ![w] = ClientData(w)]
                  /\ UNCHANGED <<content, parent, pkey, owner, flag, path, misused>>
ClientLeaves(w) == /\ view[w] # Absent
                   /\ view' = [view EXCEPT ![w] = Absent]
                   /\ UNCHANGED <<content, parent, pkey, owner, flag, path, misused>>

\* The entity moves to another process, or its process is restored: the tree
\* travels as a document and AssignMap builds it anew from the leaves up;
\* nodes the program held outside of it are gone.
Reassign ==
  /\ content' = [n \in Node |-> IF Reachable(n) THEN content[n] ELSE << >>]
  /\ owner' = [n \in Node |-> Reachable(n)]
  /\ parent' = [n \in Node |-> IF Reachable(n) THEN parent[n] ELSE NoNode]
  /\ pkey' = [n \in Node |-> IF Reachable(n) THEN pkey[n] ELSE NoKey]
  /\ flag' = [n \in Node |-> IF Reachable(n) /\ n # Root
                             THEN getAttrFlag(PathTo(n)[1]) ELSE "none"]
  /\ path' = [n \in Node |-> NoPath]
  /\ UNCHANGED <<view, misused>>

AttrOp ==
  /\ ~misused
  /\ \/ \E n \in Node :
          \/ \E v \in Value : \/ \E k \in Key : MapSet(n, k, v)
                              \/ \E i \in 1..MaxItems : ListSet(n, i, v)
                              \/ ListAppend(n, v)
          \/ \E k \in Key : MapPop(n, k)
          \/ MapClear(n) \/ ListPop(n)
     \/ \E w \in DOMAIN view : ClientJoins(w) \/ ClientLeaves(w)

AttrNext == AttrOp \/ (~misused /\ Reassign)
AttrSpec == AttrInit /\ [][AttrNext]_attrVars

-----------------------------------------------------------------------------
(* Properties.                                                             *)

AttrTypeOK ==
  /\ \A n \in Maps : DOMAIN content[n] \subseteq Key
  /\ \A n \in List : \E i \in 0..MaxItems : DOMAIN content[n] = 1..i
  /\ \A n \in Node : \A k \in DOMAIN content[n] : content[n][k] \in Value
  /\ parent \in [Node -> Node \cup {NoNode}]
  /\ pkey \in [Node -> Key \cup (1..MaxItems) \cup {NoKey}]
  /\ owner \in [Node -> BOOLEAN]
  /\ flag \in [Node -> {"all", "client", "none"}]
  /\ path \in [Node -> Paths \cup {NoPath}]

\* Whatever a program does that the code supports, a client's copy of the
\* attributes is the part of the server's it may see: no change is lost, sent
\* to the wrong client or under a stale path (send...ToClients, getPathFromOwner).
CopiesAgree ==
  ~misused => \A w \in DOMAIN view : view[w] # Absent => view[w] = ClientData(w)

\* Every node knows its place: in the entity's tree it has the owner, the flag
\* of its root key, and no other path cached than its own; elsewhere none of
\* them, unless it was overwritten.
NodesKnowTheirPlace ==
  ~misused => \A n \in Node \ {Root} :
    IF Reachable(n)
    THEN /\ owner[n] /\ PathTo(n) # << >> /\ <<PathTo(n), n>> \in Subtree(Root)
         /\ flag[n] = getAttrFlag(PathTo(n)[1])
         /\ path[n] \in {NoPath, PathTo(n)}
    ELSE Overwritten(n) \/ (flag[n] = "none" /\ path[n] = NoPath)
=============================================================================
