---------------------------- MODULE PubSubProofs ----------------------------
(* Proofs about the publish/subscribe service. *)
EXTENDS PubSub, TLAPS

\* A node that does not exist has no subscribers.
NodesHold == \A s \in Subject, k \in Kind : s \notin known => subs[k][s] = {}

\* What a freeze will not overwrite is empty: the attributes name no subject that
\* the trie does not have.
AttrsCovered == up => \A s \in Subject, k \in Kind : attrs[k][s] # {} => s \in known

\* The trie is gone while the service is in a freeze file.
FileOnly == ~up => known = {}

Inv == TypeOK /\ MapsAgree /\ NodesHold /\ AttrsCovered /\ FileOnly

\* Taking an element out of one set of a table of sets leaves a table of sets.
LEMMA TakenOut ==
  ASSUME NEW From, NEW To, NEW f \in [Kind -> [From -> SUBSET To]],
         NEW k \in Kind, NEW a \in From, NEW b
  PROVE  [f EXCEPT ![k][a] = @ \ {b}] \in [Kind -> [From -> SUBSET To]]
OBVIOUS

\* The state is well typed after every operation, freeze and restore.
LEMMA TypeStep == ASSUME TypeOK, [Next]_vars PROVE TypeOK'
<1> USE DEF TypeOK, Subscription
<1>1. ASSUME NEW e \in Subscriber, NEW s \in Subject, NEW k \in Kind, Subscribe(e, s, k)
      PROVE  TypeOK'
  BY <1>1 DEF Subscribe
<1>2. ASSUME NEW e \in Subscriber, NEW s \in Subject, NEW k \in Kind, Unsubscribe(e, s, k)
      PROVE  TypeOK'
  <2>1. CASE s \notin known
    BY <1>2, <2>1 DEF Unsubscribe
  <2>2. CASE s \in known
    <3>1. /\ subs' = [subs EXCEPT ![k][s] = @ \ {e}]
          /\ avatar' = [avatar EXCEPT ![k][e] = @ \ {s}]
      BY <1>2, <2>2 DEF Unsubscribe
    <3>2. /\ subs' \in [Kind -> [Subject -> SUBSET Subscriber]]
          /\ avatar' \in [Kind -> [Subscriber -> SUBSET Subject]]
      BY ONLY <3>1, TakenOut, TypeOK, e \in Subscriber, s \in Subject, k \in Kind DEF TypeOK
    <3>3. QED
      BY <1>2, <3>2 DEF Unsubscribe
  <2>3. QED
    BY <2>1, <2>2
<1>3. ASSUME NEW e \in Subscriber, UnsubscribeAll(e) PROVE TypeOK'
  BY <1>3 DEF UnsubscribeAll
<1>4. ASSUME NEW s \in Subject, Publish(s) PROVE TypeOK'
  BY <1>4 DEF Publish
<1>5. CASE Freeze
  <2>1. attrs' \in [Kind -> [Subject -> SUBSET Subscriber]]
    BY <1>5 DEF Freeze, OnFreeze
  <2>2. /\ subs' \in [Kind -> [Subject -> SUBSET Subscriber]]
        /\ avatar' \in [Kind -> [Subscriber -> SUBSET Subject]]
    BY <1>5 DEF Freeze, Nobody
  <2>3. known' \subseteq Subject
    BY <1>5 DEF Freeze
  <2>4. calls' \in Seq([subject : Subject, to : SUBSET Subscription])
    BY <1>5 DEF Freeze
  <2>5. up' \in BOOLEAN
    BY <1>5, Zenon DEF Freeze
  <2>6. QED
    BY ONLY <2>1, <2>2, <2>3, <2>4, <2>5 DEF TypeOK
<1>6. CASE FreezeFails
  BY <1>6 DEF FreezeFails, OnFreeze
<1>7. CASE OnRestored
  BY <1>7 DEF OnRestored
<1>8. CASE UNCHANGED vars
  BY <1>8 DEF vars
<1>9. QED
  BY <1>1, <1>2, <1>3, <1>4, <1>5, <1>6, <1>7, <1>8 DEF Next

-----------------------------------------------------------------------------
(* What each operation does to the trie and to the maps                    *)

LEMMA SubscribeTrie ==
  ASSUME Inv, NEW e \in Subscriber, NEW s \in Subject, NEW k \in Kind, Subscribe(e, s, k),
         NEW l \in Kind, NEW t \in Subject
  PROVE  subs'[l][t] = IF l = k /\ t = s THEN subs[l][t] \cup {e} ELSE subs[l][t]
BY DEF Inv, TypeOK, Subscribe

LEMMA SubscribeMaps ==
  ASSUME Inv, NEW e \in Subscriber, NEW s \in Subject, NEW k \in Kind, Subscribe(e, s, k),
         NEW l \in Kind, NEW d \in Subscriber
  PROVE  avatar'[l][d] = IF l = k /\ d = e THEN avatar[l][d] \cup {s} ELSE avatar[l][d]
BY DEF Inv, TypeOK, Subscribe

\* Unsubscribe changes nothing if the subject has no node, because then neither
\* the trie nor the map of the subscriber has the subscription.
LEMMA UnsubscribeTrie ==
  ASSUME Inv, NEW e \in Subscriber, NEW s \in Subject, NEW k \in Kind, Unsubscribe(e, s, k),
         NEW l \in Kind, NEW t \in Subject
  PROVE  subs'[l][t] = IF l = k /\ t = s THEN subs[l][t] \ {e} ELSE subs[l][t]
<1>1. CASE s \notin known
  BY <1>1 DEF Unsubscribe, Inv, NodesHold
<1>2. CASE s \in known
  <2>1. subs' = [subs EXCEPT ![k][s] = @ \ {e}]
    BY <1>2 DEF Unsubscribe
  <2>2. subs \in [Kind -> [Subject -> SUBSET Subscriber]]
    BY DEF Inv, TypeOK
  <2>3. QED
    BY ONLY <2>1, <2>2, s \in Subject, k \in Kind, l \in Kind, t \in Subject
<1>3. QED
  BY <1>1, <1>2

LEMMA UnsubscribeMaps ==
  ASSUME Inv, NEW e \in Subscriber, NEW s \in Subject, NEW k \in Kind, Unsubscribe(e, s, k),
         NEW l \in Kind, NEW d \in Subscriber
  PROVE  avatar'[l][d] = IF l = k /\ d = e THEN avatar[l][d] \ {s} ELSE avatar[l][d]
<1>1. CASE s \notin known
  <2>1. s \notin avatar[k][e]
    BY <1>1 DEF Inv, MapsAgree, Unsubscribe
  <2>2. avatar' = avatar
    BY <1>1 DEF Unsubscribe
  <2>3. avatar[k][e] \ {s} = avatar[k][e]
    BY <2>1
  <2>4. QED
    BY <2>2, <2>3
<1>2. CASE s \in known
  <2>1. avatar' = [avatar EXCEPT ![k][e] = @ \ {s}]
    BY <1>2 DEF Unsubscribe
  <2>2. avatar \in [Kind -> [Subscriber -> SUBSET Subject]]
    BY DEF Inv, TypeOK
  <2>3. QED
    BY ONLY <2>1, <2>2, e \in Subscriber, k \in Kind, l \in Kind, d \in Subscriber
<1>3. QED
  BY <1>1, <1>2

\* The maps lead UnsubscribeAll to every node that has the subscriber.
LEMMA UnsubscribeAllEffect ==
  ASSUME Inv, NEW e \in Subscriber, UnsubscribeAll(e)
  PROVE  /\ \A l \in Kind, t \in Subject : subs'[l][t] = subs[l][t] \ {e}
         /\ \A l \in Kind, d \in Subscriber :
              avatar'[l][d] = IF d = e THEN {} ELSE avatar[l][d]
<1> USE DEF Inv, TypeOK, UnsubscribeAll
<1>1. \A l \in Kind, t \in Subject :
        subs'[l][t] = IF t \in avatar[l][e] /\ t \in known THEN subs[l][t] \ {e} ELSE subs[l][t]
  OBVIOUS
<1>2. \A l \in Kind, t \in Subject :
        ~(t \in avatar[l][e] /\ t \in known) => e \notin subs[l][t]
  BY DEF MapsAgree, NodesHold
<1>3. \A l \in Kind, t \in Subject : e \notin subs[l][t] => subs[l][t] = subs[l][t] \ {e}
  OBVIOUS
<1>4. \A l \in Kind, d \in Subscriber :
        avatar'[l][d] = IF d = e THEN {} ELSE avatar[l][d]
  OBVIOUS
<1>5. QED
  BY <1>1, <1>2, <1>3, <1>4

\* What a freeze writes is what the trie holds, and what was there before of
\* subjects the trie does not have, which is nothing.
LEMMA Written ==
  ASSUME Inv, up, OnFreeze, NEW s \in Subject, NEW k \in Kind
  PROVE  attrs'[k][s] = subs[k][s]
BY DEF Inv, TypeOK, OnFreeze, AttrsCovered, NodesHold

-----------------------------------------------------------------------------
(* The inductive invariant                                                 *)

Rest == MapsAgree /\ NodesHold /\ AttrsCovered /\ FileOnly

LEMMA SubscribeStep ==
  ASSUME Inv, NEW e \in Subscriber, NEW s \in Subject, NEW k \in Kind, Subscribe(e, s, k)
  PROVE  Rest'
<1>0. /\ up /\ up' = up /\ known' = known \cup {s} /\ attrs' = attrs
  BY DEF Subscribe
<1>1. MapsAgree'
  <2> SUFFICES ASSUME NEW d \in Subscriber, NEW t \in Subject, NEW l \in Kind
               PROVE  t \in avatar'[l][d] <=> t \in known' /\ d \in subs'[l][t]
    BY DEF MapsAgree
  <2>1. t \in avatar[l][d] <=> t \in known /\ d \in subs[l][t]
    BY <1>0 DEF Inv, MapsAgree
  <2>2. t \notin known => d \notin subs[l][t]
    BY DEF Inv, NodesHold
  <2>3. t \in known' <=> t \in known \/ t = s
    BY <1>0
  <2>4. subs'[l][t] = IF l = k /\ t = s THEN subs[l][t] \cup {e} ELSE subs[l][t]
    BY SubscribeTrie
  <2>5. avatar'[l][d] = IF l = k /\ d = e THEN avatar[l][d] \cup {s} ELSE avatar[l][d]
    BY SubscribeMaps
  <2>6. QED
    BY ONLY <2>1, <2>2, <2>3, <2>4, <2>5
<1>2. NodesHold'
  <2> SUFFICES ASSUME NEW t \in Subject, NEW l \in Kind, t \notin known'
               PROVE  subs'[l][t] = {}
    BY DEF NodesHold
  <2>1. t # s /\ subs[l][t] = {}
    BY <1>0 DEF Inv, NodesHold
  <2>2. subs'[l][t] = IF l = k /\ t = s THEN subs[l][t] \cup {e} ELSE subs[l][t]
    BY SubscribeTrie
  <2>3. QED
    BY ONLY <2>1, <2>2
<1>3. AttrsCovered' /\ FileOnly'
  <2>1. AttrsCovered /\ FileOnly
    BY DEF Inv
  <2>2. QED
    BY ONLY <1>0, <2>1 DEF AttrsCovered, FileOnly
<1>4. QED
  BY <1>1, <1>2, <1>3 DEF Rest

LEMMA UnsubscribeStep ==
  ASSUME Inv, NEW e \in Subscriber, NEW s \in Subject, NEW k \in Kind, Unsubscribe(e, s, k)
  PROVE  Rest'
<1>0. /\ up /\ up' = up /\ known' = known /\ attrs' = attrs
  BY DEF Unsubscribe
<1>1. MapsAgree'
  <2> SUFFICES ASSUME NEW d \in Subscriber, NEW t \in Subject, NEW l \in Kind
               PROVE  t \in avatar'[l][d] <=> t \in known' /\ d \in subs'[l][t]
    BY DEF MapsAgree
  <2>1. t \in avatar[l][d] <=> t \in known /\ d \in subs[l][t]
    BY <1>0 DEF Inv, MapsAgree
  <2>2. subs'[l][t] = IF l = k /\ t = s THEN subs[l][t] \ {e} ELSE subs[l][t]
    BY UnsubscribeTrie
  <2>3. avatar'[l][d] = IF l = k /\ d = e THEN avatar[l][d] \ {s} ELSE avatar[l][d]
    BY UnsubscribeMaps
  <2>4. known' = known
    BY <1>0
  <2>5. QED
    BY ONLY <2>1, <2>2, <2>3, <2>4
<1>2. NodesHold'
  <2> SUFFICES ASSUME NEW t \in Subject, NEW l \in Kind, t \notin known'
               PROVE  subs'[l][t] = {}
    BY DEF NodesHold
  <2>1. subs[l][t] = {}
    BY <1>0 DEF Inv, NodesHold
  <2>2. subs'[l][t] = IF l = k /\ t = s THEN subs[l][t] \ {e} ELSE subs[l][t]
    BY UnsubscribeTrie
  <2>3. QED
    BY ONLY <2>1, <2>2
<1>3. AttrsCovered' /\ FileOnly'
  <2>1. AttrsCovered /\ FileOnly
    BY DEF Inv
  <2>2. QED
    BY ONLY <1>0, <2>1 DEF AttrsCovered, FileOnly
<1>4. QED
  BY <1>1, <1>2, <1>3 DEF Rest

LEMMA UnsubscribeAllStep ==
  ASSUME Inv, NEW e \in Subscriber, UnsubscribeAll(e)
  PROVE  Rest'
<1>0. /\ up /\ up' = up /\ known' = known /\ attrs' = attrs
  BY DEF UnsubscribeAll
<1>1. \A l \in Kind, t \in Subject : subs'[l][t] = subs[l][t] \ {e}
  BY UnsubscribeAllEffect
<1>2. \A l \in Kind, d \in Subscriber :
        avatar'[l][d] = IF d = e THEN {} ELSE avatar[l][d]
  BY UnsubscribeAllEffect
<1>3. MapsAgree'
  BY <1>0, <1>1, <1>2 DEF Inv, MapsAgree
<1>4. NodesHold'
  BY <1>0, <1>1 DEF Inv, NodesHold
<1>5. AttrsCovered' /\ FileOnly'
  <2>1. AttrsCovered /\ FileOnly
    BY DEF Inv
  <2>2. QED
    BY ONLY <1>0, <2>1 DEF AttrsCovered, FileOnly
<1>6. QED
  BY <1>3, <1>4, <1>5 DEF Rest

LEMMA FreezeStep == ASSUME Inv, Freeze PROVE Rest'
<1>1. ~up' /\ known' = {}
  BY DEF Freeze
<1>2. NodesHold'
  BY DEF Freeze, NodesHold, Nobody
<1>3. QED
  BY <1>1, <1>2 DEF Rest, MapsAgree, AttrsCovered, FileOnly

LEMMA FreezeFailsStep == ASSUME Inv, FreezeFails PROVE Rest'
<1>0. up /\ UNCHANGED <<up, known, subs, avatar>>
  BY DEF FreezeFails
<1>1. \A s \in Subject, k \in Kind : attrs'[k][s] = subs[k][s]
  BY Written DEF FreezeFails
<1>2. MapsAgree' /\ NodesHold' /\ FileOnly'
  BY <1>0 DEF Inv, MapsAgree, NodesHold, FileOnly
<1>3. AttrsCovered'
  BY <1>0, <1>1 DEF Inv, AttrsCovered, NodesHold
<1>4. QED
  BY <1>2, <1>3 DEF Rest

LEMMA RestoreStep == ASSUME Inv, OnRestored PROVE Rest'
<1> USE DEF Inv, TypeOK, OnRestored
<1>1. \A s \in Subject : s \in known' <=> \E k \in Kind : attrs[k][s] # {}
  OBVIOUS
<1>2. \A s \in Subject, k \in Kind : subs'[k][s] = attrs[k][s] /\ attrs'[k][s] = attrs[k][s]
  OBVIOUS
<1>3. \A e \in Subscriber, k \in Kind : avatar'[k][e] = {s \in Subject : e \in attrs[k][s]}
  OBVIOUS
<1>4. MapsAgree'
  BY <1>1, <1>2, <1>3 DEF MapsAgree
<1>5. NodesHold' /\ AttrsCovered' /\ FileOnly'
  BY <1>1, <1>2 DEF NodesHold, AttrsCovered, FileOnly
<1>6. QED
  BY <1>4, <1>5 DEF Rest

\* Every operation of the service, and every freeze and restore, preserves the
\* agreement of trie, maps and attributes.
THEOREM Inductive == Inv /\ [Next]_vars => Inv'
<1> SUFFICES ASSUME Inv, [Next]_vars PROVE Inv'
  OBVIOUS
<1>1. TypeOK'
  BY TypeStep DEF Inv
<1>2. Rest'
  <2>1. ASSUME NEW s \in Subject, Publish(s) PROVE Rest'
    BY <2>1 DEF Inv, Rest, Publish, MapsAgree, NodesHold, AttrsCovered, FileOnly
  <2>2. CASE UNCHANGED vars
    BY <2>2 DEF Inv, Rest, vars, MapsAgree, NodesHold, AttrsCovered, FileOnly
  <2>3. QED
    BY <2>1, <2>2, SubscribeStep, UnsubscribeStep, UnsubscribeAllStep, FreezeStep,
       FreezeFailsStep, RestoreStep DEF Next
<1>3. QED
  BY <1>1, <1>2 DEF Inv, Rest

LEMMA Initially == Init => Inv
BY DEF Init, Inv, TypeOK, MapsAgree, NodesHold, AttrsCovered, FileOnly, Nobody

LEMMA Always == Spec => []Inv
BY Initially, Inductive, PTL DEF Spec

\* Type correctness of the service, for all sets of subscribers and subjects.
THEOREM TypeCorrect == Spec => []TypeOK
<1>1. Inv => TypeOK
  BY DEF Inv
<1>2. QED
  BY <1>1, Always, PTL

\* The maps of the subscribers lead to every node, after any operations, reloads
\* and failed freezes, for all sets of subscribers and subjects.
THEOREM MapsComplete == Spec => []MapsAgree
<1>1. Inv => MapsAgree
  BY DEF Inv
<1>2. QED
  BY <1>1, Always, PTL
-----------------------------------------------------------------------------
(* The service implements the broker                                       *)

\* What is held, subscription by subscription.
LEMMA HeldIs ==
  ASSUME NEW e \in Subscriber, NEW s \in Subject, NEW k \in Kind
  PROVE  <<e, s, k>> \in Held <=> e \in IF up THEN subs[k][s] ELSE attrs[k][s]
BY DEF Held, Subscription

LEMMA HeldNext ==
  ASSUME NEW e \in Subscriber, NEW s \in Subject, NEW k \in Kind
  PROVE  <<e, s, k>> \in Held' <=> e \in IF up' THEN subs'[k][s] ELSE attrs'[k][s]
BY DEF Held, Subscription

\* Two sets of subscriptions are equal if they hold the same ones.
LEMMA SameSubscriptions ==
  ASSUME NEW S \in SUBSET Subscription, NEW T \in SUBSET Subscription,
         \A e \in Subscriber, s \in Subject, k \in Kind : <<e, s, k>> \in S <=> <<e, s, k>> \in T
  PROVE  S = T
BY DEF Subscription

LEMMA Subscribes ==
  ASSUME Inv, NEW e \in Subscriber, NEW s \in Subject, NEW k \in Kind, Subscribe(e, s, k)
  PROVE  B!Subscribe(e, s, k)
<1>1. \A d \in Subscriber, t \in Subject, l \in Kind :
        <<d, t, l>> \in Held' <=> <<d, t, l>> \in Held \cup {<<e, s, k>>}
  <2> SUFFICES ASSUME NEW d \in Subscriber, NEW t \in Subject, NEW l \in Kind
               PROVE  <<d, t, l>> \in Held' <=> <<d, t, l>> \in Held \cup {<<e, s, k>>}
    OBVIOUS
  <2>1. <<d, t, l>> \in Held' <=> d \in subs'[l][t]
    BY HeldNext DEF Subscribe
  <2>2. <<d, t, l>> \in Held <=> d \in subs[l][t]
    BY HeldIs DEF Subscribe
  <2>3. subs'[l][t] = IF l = k /\ t = s THEN subs[l][t] \cup {e} ELSE subs[l][t]
    BY SubscribeTrie
  <2>4. QED
    BY ONLY <2>1, <2>2, <2>3
<1>2. Held' \in SUBSET Subscription /\ Held \cup {<<e, s, k>>} \in SUBSET Subscription
  BY DEF Held, Subscription
<1> DEFINE T == Held \cup {<<e, s, k>>}
<1>3. Held' = T
  <2>1. \A d \in Subscriber, t \in Subject, l \in Kind : <<d, t, l>> \in Held' <=> <<d, t, l>> \in T
    BY <1>1
  <2>2. T \in SUBSET Subscription
    BY <1>2
  <2> HIDE DEF T
  <2>3. QED
    BY ONLY <1>2, <2>1, <2>2, SameSubscriptions
<1>4. QED
  BY <1>3 DEF B!Subscribe, Subscribe

LEMMA Unsubscribes ==
  ASSUME Inv, NEW e \in Subscriber, NEW s \in Subject, NEW k \in Kind, Unsubscribe(e, s, k)
  PROVE  B!Unsubscribe(e, s, k)
<1>1. \A d \in Subscriber, t \in Subject, l \in Kind :
        <<d, t, l>> \in Held' <=> <<d, t, l>> \in Held \ {<<e, s, k>>}
  <2> SUFFICES ASSUME NEW d \in Subscriber, NEW t \in Subject, NEW l \in Kind
               PROVE  <<d, t, l>> \in Held' <=> <<d, t, l>> \in Held \ {<<e, s, k>>}
    OBVIOUS
  <2>1. <<d, t, l>> \in Held' <=> d \in subs'[l][t]
    BY HeldNext DEF Unsubscribe
  <2>2. <<d, t, l>> \in Held <=> d \in subs[l][t]
    BY HeldIs DEF Unsubscribe
  <2>3. subs'[l][t] = IF l = k /\ t = s THEN subs[l][t] \ {e} ELSE subs[l][t]
    BY UnsubscribeTrie
  <2>4. QED
    BY ONLY <2>1, <2>2, <2>3
<1>2. Held' \in SUBSET Subscription /\ Held \ {<<e, s, k>>} \in SUBSET Subscription
  BY DEF Held
<1> DEFINE T == Held \ {<<e, s, k>>}
<1>3. Held' = T
  <2>1. \A d \in Subscriber, t \in Subject, l \in Kind : <<d, t, l>> \in Held' <=> <<d, t, l>> \in T
    BY <1>1
  <2>2. T \in SUBSET Subscription
    BY <1>2
  <2> HIDE DEF T
  <2>3. QED
    BY ONLY <1>2, <2>1, <2>2, SameSubscriptions
<1>4. QED
  BY <1>3 DEF B!Unsubscribe, Unsubscribe

LEMMA UnsubscribesAll ==
  ASSUME Inv, NEW e \in Subscriber, UnsubscribeAll(e)
  PROVE  B!UnsubscribeAll(e)
<1>1. \A d \in Subscriber, t \in Subject, l \in Kind :
        <<d, t, l>> \in Held' <=> <<d, t, l>> \in {w \in Held : w[1] # e}
  <2> SUFFICES ASSUME NEW d \in Subscriber, NEW t \in Subject, NEW l \in Kind
               PROVE  <<d, t, l>> \in Held' <=> <<d, t, l>> \in Held /\ d # e
    OBVIOUS
  <2>1. <<d, t, l>> \in Held' <=> d \in subs'[l][t]
    BY HeldNext DEF UnsubscribeAll
  <2>2. <<d, t, l>> \in Held <=> d \in subs[l][t]
    BY HeldIs DEF UnsubscribeAll
  <2>3. subs'[l][t] = subs[l][t] \ {e}
    BY UnsubscribeAllEffect
  <2>4. QED
    BY ONLY <2>1, <2>2, <2>3
<1>2. Held' \in SUBSET Subscription /\ {w \in Held : w[1] # e} \in SUBSET Subscription
  BY DEF Held
<1>3. Held' = {w \in Held : w[1] # e}
  BY <1>1, <1>2, SameSubscriptions
<1>4. QED
  BY <1>3 DEF B!UnsubscribeAll, UnsubscribeAll

\* The prefixes of a subject that are subjects are those the walk comes by.
LEMMA Prefixes ==
  ASSUME NEW s \in Seq(Char), NEW p \in Seq(Char)
  PROVE  (\E i \in 0..Len(s) : p = SubSeq(s, 1, i)) <=> B!IsPrefixOf(p, s)
<1>1. ASSUME NEW i \in 0..Len(s), p = SubSeq(s, 1, i) PROVE B!IsPrefixOf(p, s)
  <2>1. Len(p) = i
    BY <1>1
  <2>2. QED
    BY <1>1, <2>1 DEF B!IsPrefixOf
<1>2. ASSUME B!IsPrefixOf(p, s) PROVE \E i \in 0..Len(s) : p = SubSeq(s, 1, i)
  <2>1. Len(p) \in 0..Len(s)
    BY <1>2 DEF B!IsPrefixOf
  <2>2. QED
    BY <1>2, <2>1 DEF B!IsPrefixOf
<1>3. QED
  BY <1>1, <1>2

\* A subject is a prefix of itself.
LEMMA WholePrefix == ASSUME NEW s \in Seq(Char) PROVE B!IsPrefixOf(s, s)
<1>1. s = SubSeq(s, 1, Len(s))
  OBVIOUS
<1>2. QED
  BY <1>1 DEF B!IsPrefixOf

\* The walk calls for exactly the subscriptions that match.
LEMMA Publishes ==
  ASSUME Inv, NEW s \in Subject, Publish(s)
  PROVE  B!Publish(s)
<1> DEFINE To == {w \in Subscription : /\ w[2] \in Visited(s)
                                       /\ w[1] \in subs[w[3]][w[2]]
                                       /\ w[3] = "exact" => w[2] = s}
<1>1. ASSUME NEW e \in Subscriber, NEW t \in Subject, NEW k \in Kind
      PROVE  <<e, t, k>> \in To <=> <<e, t, k>> \in Held /\ B!Matches(<<e, t, k>>, s)
  <2>1. s \in Seq(Char) /\ t \in Seq(Char)
    BY SubjectAssumption
  <2>2. t \in Visited(s) <=> t \in known /\ B!IsPrefixOf(t, s)
    BY <2>1, Prefixes DEF Visited
  <2>3. <<e, t, k>> \in Held <=> e \in subs[k][t]
    BY HeldIs DEF Publish
  <2>4. e \in subs[k][t] => t \in known
    BY DEF Inv, NodesHold
  <2>5. B!Matches(<<e, t, k>>, s) <=> B!IsPrefixOf(t, s) /\ (k = "exact" => t = s)
    BY <2>1, WholePrefix DEF B!Matches, Kind
  <2>6. <<e, t, k>> \in To <=> t \in Visited(s) /\ e \in subs[k][t] /\ (k = "exact" => t = s)
    BY DEF Subscription
  <2>7. QED
    BY <2>2, <2>3, <2>4, <2>5, <2>6
<1>2. To = {w \in Held : B!Matches(w, s)}
  <2>1. To \in SUBSET Subscription /\ {w \in Held : B!Matches(w, s)} \in SUBSET Subscription
    BY DEF Held
  <2> DEFINE Matching == {w \in Held : B!Matches(w, s)}
  <2>2. ASSUME NEW e \in Subscriber, NEW t \in Subject, NEW k \in Kind
        PROVE  <<e, t, k>> \in To <=> <<e, t, k>> \in Matching
    <3>1. <<e, t, k>> \in To <=> <<e, t, k>> \in Held /\ B!Matches(<<e, t, k>>, s)
      BY <1>1
    <3> HIDE DEF To
    <3>2. QED
      BY ONLY <3>1
  <2> HIDE DEF To, Matching
  <2>3. To = Matching
    BY ONLY <2>1, <2>2, SameSubscriptions DEF Matching
  <2>4. QED
    BY ONLY <2>3 DEF Matching
<1>3. calls' = <<[subject |-> s, to |-> To]>>
  BY DEF Publish
<1> HIDE DEF To
<1>4. Held' = Held
  BY DEF Publish, Held
<1>5. QED
  BY <1>2, <1>3, <1>4 DEF B!Publish

\* A freeze, a failed one and a restore keep what is held.
LEMMA Reloads ==
  ASSUME Inv, Freeze \/ FreezeFails \/ OnRestored
  PROVE  B!Reload
<1>1. ASSUME NEW d \in Subscriber, NEW t \in Subject, NEW l \in Kind
      PROVE  <<d, t, l>> \in Held' <=> <<d, t, l>> \in Held
  <2>1. CASE Freeze
    <3>1. attrs'[l][t] = subs[l][t]
      BY <2>1, Written DEF Freeze
    <3>2. QED
      BY <2>1, <3>1, HeldIs, HeldNext DEF Freeze
  <2>2. CASE FreezeFails
    BY <2>2, HeldIs, HeldNext DEF FreezeFails
  <2>3. CASE OnRestored
    BY <2>3, HeldIs, HeldNext DEF OnRestored
  <2>4. QED
    BY <2>1, <2>2, <2>3
<1>2. Held' \in SUBSET Subscription /\ Held \in SUBSET Subscription
  BY DEF Held
<1>3. Held' = Held
  BY <1>1, <1>2, SameSubscriptions
<1>4. calls' = << >>
  BY DEF Freeze, FreezeFails, OnRestored
<1>5. QED
  BY <1>3, <1>4 DEF B!Reload

\* The service implements the broker: through reloads and failed freezes it is a
\* set of subscriptions, and each publication makes a call for exactly those that
\* match, for all sets of subscribers and subjects.
THEOREM Implements == Spec => BrokerSpec
<1>1. Init => B!Init
  <2> SUFFICES ASSUME Init PROVE B!Init
    OBVIOUS
  <2>1. ASSUME NEW e \in Subscriber, NEW s \in Subject, NEW k \in Kind
        PROVE  <<e, s, k>> \notin Held
    <3>1. up /\ subs[k][s] = {}
      BY DEF Init, Nobody
    <3>2. QED
      BY <3>1, HeldIs
  <2>2. Held = {}
    BY <2>1 DEF Held, Subscription
  <2>3. QED
    BY <2>2 DEF Init, B!Init
<1>2. Inv /\ [Next]_vars => [B!Next]_(B!vars)
  <2> SUFFICES ASSUME Inv, [Next]_vars PROVE [B!Next]_(B!vars)
    OBVIOUS
  <2>1. CASE UNCHANGED vars
    BY <2>1 DEF vars, B!vars, Held
  <2>2. ASSUME NEW e \in Subscriber, NEW s \in Subject, NEW k \in Kind,
               Subscribe(e, s, k) \/ Unsubscribe(e, s, k)
        PROVE  B!Next
    BY <2>2, Subscribes, Unsubscribes DEF B!Next, B!Kind, Kind
  <2>3. ASSUME NEW e \in Subscriber, UnsubscribeAll(e) PROVE B!Next
    BY <2>3, UnsubscribesAll DEF B!Next
  <2>4. ASSUME NEW s \in Subject, Publish(s) PROVE B!Next
    BY <2>4, Publishes DEF B!Next
  <2>5. CASE Freeze \/ FreezeFails \/ OnRestored
    BY <2>5, Reloads DEF B!Next
  <2>6. QED
    BY <2>1, <2>2, <2>3, <2>4, <2>5 DEF Next
<1>3. QED
  BY <1>1, <1>2, Always, PTL DEF Spec, BrokerSpec, B!Spec
=============================================================================
