------------------------------- MODULE Async -------------------------------
(***************************************************************************)
(* What the asynchronous services of a game promise to its main routine:   *)
(* the requests put on one queue are answered one at a time, in the order  *)
(* they were made, each at most once.  The queues are independent.  This   *)
(* is the abstract specification that module Persistence implements.       *)
(***************************************************************************)
EXTENDS Naturals, Sequences

CONSTANTS
  Queue,        \* the storage queue and the groups of asynchronous jobs
  MaxRequests   \* bound: requests ever made

VARIABLES
  pending,      \* [Queue -> Seq(Nat)] : requests not answered yet, by number
  told,         \* Seq(Nat) : answers posted to the main routine, in order
  next          \* number of the next request

vars == <<pending, told, next>>

Init == /\ pending = [q \in Queue |-> << >>]
        /\ told = << >>
        /\ next = 1

Ask(q) == /\ next <= MaxRequests
          /\ pending' = [pending EXCEPT ![q] = Append(@, next)]
          /\ next' = next + 1
          /\ UNCHANGED told

Answer(q) == /\ pending[q] # << >>
             /\ told' = Append(told, Head(pending[q]))
             /\ pending' = [pending EXCEPT ![q] = Tail(@)]
             /\ UNCHANGED next

\* A request that panics, or that wants no answer, leaves the queue in silence.
Drop(q) == /\ pending[q] # << >>
           /\ pending' = [pending EXCEPT ![q] = Tail(@)]
           /\ UNCHANGED <<told, next>>

Next == \E q \in Queue : Ask(q) \/ Answer(q) \/ Drop(q)

Spec == Init /\ [][Next]_vars
=============================================================================
