------------------------------- MODULE PubSub -------------------------------
(***************************************************************************)
(* The publish/subscribe service (ext/pubsub): an entity that keeps        *)
(* subscriptions in a trie of subjects and in a map per subscriber, calls  *)
(* the subscribers whose subscription matches a published subject, and     *)
(* carries the subscriptions in its attributes through a reload of its     *)
(* game.                                                                   *)
(*                                                                         *)
(* A subject is a sequence of characters; a subscription to it that ends   *)
(* in '*' is of the kind "wild" and has the subject without the star. A    *)
(* call with a '*' elsewhere panics and changes nothing: it is left out.   *)
(***************************************************************************)
EXTENDS Naturals, Sequences, FiniteSets

CONSTANTS
  Subscriber, Char, Subject,
  MaxSubscriptions   \* bound: subscriptions at a time

ASSUME SubjectAssumption == Subject \subseteq Seq(Char) /\ MaxSubscriptions \in Nat

Kind == {"exact", "wild"}
Subscription == Subscriber \X Subject \X Kind

VARIABLES
  up,       \* does the service run, or is it in a freeze file?
  known,    \* the nodes of the trie that have a value
  subs,     \* [Kind -> [Subject -> subscribers]] : those values
  avatar,   \* [Kind -> [Subscriber -> subjects]] : avatar(Wildcard)Subscribings
  attrs,    \* [Kind -> [Subject -> subscribers]] : subscribers, wildcardSubscribers
  calls     \* the publication of the last step, if it is one, and the
            \* subscriptions it called for: << >> or <<[subject, to]>>

vars == <<up, known, subs, avatar, attrs, calls>>

Nobody == [k \in Kind |-> [s \in Subject |-> {}]]

\* The subscriptions the service has: in the trie, or in the freeze file.
Held == {w \in Subscription :
           w[1] \in IF up THEN subs[w[3]][w[2]] ELSE attrs[w[3]][w[2]]}

Init ==
  /\ up = TRUE
  /\ known = {}
  /\ subs = Nobody
  /\ avatar = [k \in Kind |-> [e \in Subscriber |-> {}]]
  /\ attrs = Nobody
  /\ calls = << >>

-----------------------------------------------------------------------------

Subscribe(e, s, k) ==
  /\ up
  /\ known' = known \cup {s}
  /\ subs' = [subs EXCEPT ![k][s] = @ \cup {e}]
  /\ avatar' = [avatar EXCEPT ![k][e] = @ \cup {s}]
  /\ Cardinality(Held \cup {<<e, s, k>>}) <= MaxSubscriptions
  /\ calls' = << >> /\ UNCHANGED <<up, attrs>>

\* unsubscribe returns early if the subject has no node; the node stays.
Unsubscribe(e, s, k) ==
  /\ up
  /\ \/ s \notin known /\ UNCHANGED <<subs, avatar>>
     \/ /\ s \in known
        /\ subs' = [subs EXCEPT ![k][s] = @ \ {e}]
        /\ avatar' = [avatar EXCEPT ![k][e] = @ \ {s}]
  /\ calls' = << >> /\ UNCHANGED <<up, known, attrs>>

\* The subjects come from the maps of the subscriber.
UnsubscribeAll(e) ==
  /\ up
  /\ subs' = [k \in Kind |-> [s \in Subject |->
                IF s \in avatar[k][e] /\ s \in known THEN subs[k][s] \ {e} ELSE subs[k][s]]]
  /\ avatar' = [k \in Kind |-> [avatar[k] EXCEPT ![e] = {}]]
  /\ calls' = << >> /\ UNCHANGED <<up, known, attrs>>

\* publishInTree goes down the trie along the subject: the nodes it comes by.
Visited(s) == {SubSeq(s, 1, i) : i \in 0..Len(s)} \cap known

Publish(s) ==
  /\ up
  /\ calls' = <<[subject |-> s,
                 to |-> {w \in Subscription : /\ w[2] \in Visited(s)
                                              /\ w[1] \in subs[w[3]][w[2]]
                                              /\ w[3] = "exact" => w[2] = s}]>>
  /\ UNCHANGED <<up, known, subs, avatar, attrs>>

-----------------------------------------------------------------------------

\* Mutant: subjects without subscribers are not written.
OnFreezeMutant ==
  attrs' = [k \in Kind |-> [s \in Subject |->
              IF s \in known /\ subs[k][s] # {} THEN subs[k][s] ELSE attrs[k][s]]]

\* OnFreeze writes what the trie has over what the attributes had from before.
OnFreeze ==
  attrs' = [k \in Kind |-> [s \in Subject |->
              IF s \in known THEN subs[k][s] ELSE attrs[k][s]]]

\* The game is frozen: its process and the trie are gone.
Freeze ==
  /\ up /\ up' = FALSE
  /\ OnFreeze
  /\ known' = {} /\ subs' = Nobody
  /\ avatar' = [k \in Kind |-> [e \in Subscriber |-> {}]]
  /\ calls' = << >>

\* The freeze fails after OnFreeze: the game runs on.
FreezeFails ==
  /\ up /\ OnFreeze
  /\ calls' = << >> /\ UNCHANGED <<up, known, subs, avatar>>

\* Mutant: the maps of the subscribers are not filled.
OnRestoredMutant ==
  /\ ~up /\ up' = TRUE
  /\ known' = {s \in Subject : \E k \in Kind : attrs[k][s] # {}}
  /\ subs' = attrs
  /\ calls' = << >> /\ UNCHANGED <<attrs, avatar>>

\* OnRestored subscribes for every subscriber in the attributes, which stay.
OnRestored ==
  /\ ~up /\ up' = TRUE
  /\ known' = {s \in Subject : \E k \in Kind : attrs[k][s] # {}}
  /\ subs' = attrs
  /\ avatar' = [k \in Kind |-> [e \in Subscriber |-> {s \in Subject : e \in attrs[k][s]}]]
  /\ calls' = << >> /\ UNCHANGED attrs

Next ==
  \/ \E e \in Subscriber :
       \/ \E s \in Subject, k \in Kind : Subscribe(e, s, k) \/ Unsubscribe(e, s, k)
       \/ UnsubscribeAll(e)
  \/ \E s \in Subject : Publish(s)
  \/ Freeze \/ FreezeFails \/ OnRestored

Spec == Init /\ [][Next]_vars

-----------------------------------------------------------------------------
(* Properties                                                              *)

TypeOK ==
  /\ up \in BOOLEAN
  /\ known \subseteq Subject
  /\ subs \in [Kind -> [Subject -> SUBSET Subscriber]]
  /\ attrs \in [Kind -> [Subject -> SUBSET Subscriber]]
  /\ avatar \in [Kind -> [Subscriber -> SUBSET Subject]]
  /\ calls \in Seq([subject : Subject, to : SUBSET Subscription])

\* A subscriber's map lists exactly the subjects whose nodes have the subscriber:
\* UnsubscribeAll finds what to take back only through the map, so a subscription
\* that a restore or an early return left out of it could not be ended again.
MapsAgree ==
  up => \A e \in Subscriber, s \in Subject, k \in Kind :
          s \in avatar[k][e] <=> s \in known /\ e \in subs[k][s]

\* Through any number of reloads, failed ones included, the service is a set of
\* subscriptions: none is lost, none comes back from the attributes of an earlier
\* freeze, and a publication makes a call for exactly those that match ("if an
\* entity subscribe to 'apple.*', it will receive published message on 'apple.',
\* 'apple.1', 'apple.2', etc").
B == INSTANCE Broker WITH subscriptions <- Held, calls <- calls
BrokerSpec == B!Spec
=============================================================================
