---------------------------- MODULE KeyValidity ----------------------------
(***************************************************************************)
(* What virtual keys promise, without saying how: every key has a moment   *)
(* until which it opens the gateway, and once the key has been issued that *)
(* moment never moves further away, whatever administrators do.  A request *)
(* is let in only by a key that, when the request is decided, is still     *)
(* good for the moment the request arrived at.                             *)
(*                                                                         *)
(* A revocation brings the moment forward to 0, a rotation to the end of   *)
(* the overlap window; a key that does not expire is good until Forever.   *)
(***************************************************************************)
EXTENDS Naturals

CONSTANTS Keys, Requests, Forever

VARIABLES
  clock,    \* the present
  issued,   \* keys handed out so far
  until,    \* until[k] : the moment up to which k is good
  pending   \* pending[r] : the key r presents, when it arrived, its answer

vars == <<clock, issued, until, pending>>

Answers == {"waiting", "accepted", "refused"}

None == [key |-> "none"]

Init == /\ clock \in Nat
        /\ issued \subseteq Keys
        /\ until \in [Keys -> 0..Forever]
        /\ pending = [r \in Requests |-> None]

Pass == /\ clock' = clock + 1
        /\ UNCHANGED <<issued, until, pending>>

\* Administration: new keys are issued with any life, issued ones only lose.
Manage == /\ issued \subseteq issued' /\ issued' \subseteq Keys
          /\ until' \in [Keys -> 0..Forever]
          /\ \A k \in Keys : \/ k \notin issued /\ k \in issued'
                             \/ until'[k] <= until[k]
          /\ UNCHANGED <<clock, pending>>

Arrive(r) == /\ pending[r] = None
             /\ \E k \in Keys :
                  pending' = [pending EXCEPT ![r] =
                                [key |-> k, at |-> clock, answer |-> "waiting"]]
             /\ UNCHANGED <<clock, issued, until>>

Waiting(r) == pending[r] # None /\ pending[r].answer = "waiting"

Answered(r, a) == /\ Waiting(r)
                  /\ pending' = [pending EXCEPT ![r].answer = a]
                  /\ UNCHANGED <<clock, issued, until>>

Accept(r) == /\ Answered(r, "accepted")
             /\ pending[r].key \in issued
             /\ until[pending[r].key] > pending[r].at

Refuse(r) == Answered(r, "refused")

Leave(r) == /\ pending[r] # None
            /\ pending' = [pending EXCEPT ![r] = None]
            /\ UNCHANGED <<clock, issued, until>>

\* A restart forgets the requests in flight.
Restart == /\ pending' = [r \in Requests |-> None]
           /\ UNCHANGED <<clock, issued, until>>

Next == \/ Pass \/ Manage \/ Restart
        \/ \E r \in Requests : Arrive(r) \/ Accept(r) \/ Refuse(r) \/ Leave(r)

Spec == Init /\ [][Next]_vars

=============================================================================
