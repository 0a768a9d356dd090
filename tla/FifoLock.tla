------------------------------ MODULE FifoLock ------------------------------
(***************************************************************************)
(* What the distributed lock of shmem_set_lock, shmem_test_lock and        *)
(* shmem_clear_lock promises: requests are served one at a time, in the    *)
(* order in which they reached the lock.                                   *)
(***************************************************************************)
EXTENDS Naturals, Sequences

CONSTANT Client

VARIABLES
  queue,      \* the requests that have reached the lock, oldest first
  inside      \* the clients that hold the lock

vars == <<queue, inside>>

Init ==
  /\ queue = <<>>
  /\ inside = {}

Request(c) ==
  /\ \A i \in 1 .. Len(queue) : queue[i] # c
  /\ queue' = Append(queue, c)
  /\ UNCHANGED inside

Enter(c) ==
  /\ Len(queue) > 0
  /\ c = Head(queue)
  /\ inside = {}
  /\ inside' = {c}
  /\ UNCHANGED queue

Leave(c) ==
  /\ inside = {c}
  /\ queue' = Tail(queue)
  /\ inside' = {}

Next == \E c \in Client : Request(c) \/ Enter(c) \/ Leave(c)

Spec == Init /\ [][Next]_vars

=============================================================================
