------------------------------ MODULE WriteQueue ------------------------------
(***************************************************************************)
(* What the Firestore client promises for writes: each user has a queue    *)
(* that nothing but the server's decision on its first write shortens, and *)
(* the server carries a write out only when it has decided on all before   *)
(* it.  Pipelines, streams, retries and crashes do not show.               *)
(***************************************************************************)
EXTENDS Naturals, Sequences

CONSTANTS Writes, Users

VARIABLES
  pending,  \* user -> writes that the server has not decided on
  carried,  \* writes it has carried out, once or more often
  declined  \* writes it has refused for good

vars == <<pending, carried, declined>>

Init ==
  /\ pending = [u \in Users |-> <<>>]
  /\ carried = {} /\ declined = {}

Issue(u, w) ==
  /\ pending' = [pending EXCEPT ![u] = Append(@, w)]
  /\ UNCHANGED <<carried, declined>>

\* The server works ahead of its answers, in order.
CarryOut(u, i) ==
  /\ \A k \in 1..(i - 1) : pending[u][k] \in carried \cup declined
  /\ carried' = carried \cup {pending[u][i]}
  /\ UNCHANGED <<pending, declined>>

Confirm(u) ==
  /\ pending[u] # <<>>
  /\ Head(pending[u]) \in carried
  /\ pending' = [pending EXCEPT ![u] = Tail(@)]
  /\ UNCHANGED <<carried, declined>>

Decline(u) ==
  /\ pending[u] # <<>>
  /\ declined' = declined \cup {Head(pending[u])}
  /\ pending' = [pending EXCEPT ![u] = Tail(@)]
  /\ UNCHANGED carried

Next ==
  \E u \in Users :
    \/ \E w \in Writes : Issue(u, w)
    \/ \E i \in 1..Len(pending[u]) : CarryOut(u, i)
    \/ Confirm(u) \/ Decline(u)

Spec == Init /\ [][Next]_vars

=============================================================================
