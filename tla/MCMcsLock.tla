----------------------------- MODULE MCMcsLock ------------------------------
(***************************************************************************)
(* Instances of McsLock for TLC.                                           *)
(***************************************************************************)
EXTENDS McsLock

\* Every PE has the lock variable at the same address: a global variable, or
\* a heap whose base is the same everywhere.
AlignedLock == [p \in PE |-> 7]

\* A lock in heaps that start at different pages: 512 words make one page.
UnalignedLock == [p \in PE |-> 512 * p]

=============================================================================
