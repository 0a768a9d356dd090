---------------------------- MODULE MCLifecycle -----------------------------
(***************************************************************************)
(* Lifecycle for three PEs, with a size_t of 256 values, a unit that       *)
(* doubles the one before and pages of 4 bytes.  One job has a heap to be  *)
(* scaled and rounded, informative messages and hosts that go down,        *)
(* in one a PE has no memory, in one the unit is unknown, and the last has *)
(* a log file and names an algorithm nobody knows.                         *)
(***************************************************************************)
EXTENDS Lifecycle

OneHost == [p \in PE |-> 0]
Up == [p \in PE |-> p]
Down == [p \in PE |-> IF p = 0 THEN 1 ELSE 0]

Heap(number, unit) == [SHMEM_SYMMETRIC_HEAP_SIZE |-> [number |-> number, unit |-> unit]]

MCJobs ==
  {[env |-> Heap(7, "k") @@ [SMA_INFO |-> ""], locp |-> Down, poor |-> {}],
   [env |-> Heap(4, ""), locp |-> Up, poor |-> {2}],
   [env |-> Heap(1, "x"), locp |-> OneHost, poor |-> {}],
   [env |-> [SHMEM_LOG_FILE |-> "opens", SHMEM_BARRIER_ALL_ALGORITHM |-> "tree"], locp |-> Down, poor |-> {}]}

=============================================================================
