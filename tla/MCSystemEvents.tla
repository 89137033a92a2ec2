--------------------------- MODULE MCSystemEvents ---------------------------
(* SystemEvents for TLC: two components, two observers.                     *)
EXTENDS SystemEvents, TLC

CONSTANTS o1, o2

\* Another event, a disconnect and a restart one at a time, and a client that
\* reads a feed with something in it, beside one observer and another event.
OneAtATime ==
  /\ (MaxFacts - budget.facts) + (MaxCancels - budget.cancels)
     + (MaxRestarts - budget.restarts) <= 1
  /\ reader.on => /\ reader.base # {}
                  /\ budget.cancels = MaxCancels /\ budget.restarts = MaxRestarts
                  /\ \E o \in Observers : observers[o] = Idle

Symmetry == Permutations(Observers)

=============================================================================
