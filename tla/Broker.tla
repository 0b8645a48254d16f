------------------------------- MODULE Broker -------------------------------
(***************************************************************************)
(* What the publish/subscribe service promises (the comments of            *)
(* ext/pubsub): a set of subscriptions, and publications that make one     *)
(* call for each subscription that matches. That the service lives in a    *)
(* trie, in maps and, during a reload of its game, in a file, cannot be    *)
(* told from outside: PubSub implements this module.                       *)
(***************************************************************************)
EXTENDS Naturals, Sequences

CONSTANTS Subscriber, Subject

VARIABLES
  subscriptions,   \* <<subscriber, subject, "exact" or "wild">>
  calls            \* << >>, or the publication of the last step and whom it called

vars == <<subscriptions, calls>>

Kind == {"exact", "wild"}

IsPrefixOf(p, s) == Len(p) <= Len(s) /\ p = SubSeq(s, 1, Len(p))

\* "subject can endswith '*' which matches any zero or more characters".
Matches(w, s) == IF w[3] = "wild" THEN IsPrefixOf(w[2], s) ELSE w[2] = s

Init == subscriptions = {} /\ calls = << >>

Subscribe(e, s, k) == subscriptions' = subscriptions \cup {<<e, s, k>>} /\ calls' = << >>

Unsubscribe(e, s, k) == subscriptions' = subscriptions \ {<<e, s, k>>} /\ calls' = << >>

UnsubscribeAll(e) == subscriptions' = {w \in subscriptions : w[1] # e} /\ calls' = << >>

Publish(s) ==
  /\ calls' = <<[subject |-> s, to |-> {w \in subscriptions : Matches(w, s)}]>>
  /\ UNCHANGED subscriptions

\* A freeze, a failed freeze or a restore: nothing that a subscriber would notice.
Reload == calls' = << >> /\ UNCHANGED subscriptions

Next ==
  \/ \E e \in Subscriber :
       \/ \E s \in Subject, k \in Kind : Subscribe(e, s, k) \/ Unsubscribe(e, s, k)
       \/ UnsubscribeAll(e)
  \/ \E s \in Subject : Publish(s)
  \/ Reload

Spec == Init /\ [][Next]_vars
=============================================================================
