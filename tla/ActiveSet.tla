----------------------------- MODULE ActiveSet ------------------------------
(***************************************************************************)
(* What the models of the collectives share: the active set, that is the   *)
(* PEs that take part, and the state of their calls.  A collective call is *)
(* made by all PEs of the set, of which some may be calls ahead of others. *)
(***************************************************************************)
EXTENDS Integers

CONSTANTS
  PE_start, PE_size, step,  \* the active set
  MaxCalls                  \* bound: how often a PE calls

ASSUME ActiveSetAssumption ==
  /\ PE_start \in Nat /\ step \in Nat \ {0} /\ PE_size \in Nat \ {0}
  /\ MaxCalls \in Nat

Member == {PE_start + n * step : n \in 0 .. PE_size - 1}

VARIABLES
  calls,    \* how many calls each PE has begun
  pc,       \* where each PE is
  source,   \* the source and target areas of each PE
  target,
  flight    \* puts that have not landed

SYNC == -1    \* SHMEM_SYNC_VALUE

Goto(p, l) == pc' = [pc EXCEPT ![p] = l]

Returned(p) == pc[p] = "outside" /\ calls[p] > 0

=============================================================================
