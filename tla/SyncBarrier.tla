---------------------------- MODULE SyncBarrier -----------------------------
(***************************************************************************)
(* What shmem_barrier and shmem_barrier_all promise (shmem.h:700-703 and   *)
(* 735-743): no PE of the active set leaves until all have arrived.        *)
(***************************************************************************)
EXTENDS Naturals

CONSTANT Member

VARIABLES
  arrived,    \* how often each member has entered the barrier
  left        \* how often each member has left it

vars == <<arrived, left>>

Init ==
  /\ arrived = [p \in Member |-> 0]
  /\ left = [p \in Member |-> 0]

Arrive(p) ==
  /\ arrived[p] = left[p]
  /\ arrived' = [arrived EXCEPT ![p] = @ + 1]
  /\ UNCHANGED left

Leave(p) ==
  /\ left[p] < arrived[p]
  /\ \A q \in Member : left[p] < arrived[q]
  /\ left' = [left EXCEPT ![p] = @ + 1]
  /\ UNCHANGED arrived

Next == \E p \in Member : Arrive(p) \/ Leave(p)

Spec == Init /\ [][Next]_vars

\* Once all have arrived, everybody leaves.
FairSpec == Spec /\ \A p \in Member : WF_vars(Leave(p))

=============================================================================
