------------------------------ MODULE McsLock -------------------------------
(***************************************************************************)
(* The global lock of atomic/lock.c: the MCS queue lock of                 *)
(* comms/gasnet/comms-inline.h.  The 8-byte symmetric lock variable is two *)
(* 32-bit SHMEM_LOCK words.  Word 0 of one PE, the owner, is the tail of a *)
(* distributed list of requests; word 1 of every PE is its list node.      *)
(*                                                                         *)
(* Swap and compare-and-swap on the tail are blocking and atomic (active   *)
(* messages under amo_lock_int); shmem_short_p and the user's own puts are *)
(* implicit non-blocking puts: they stay in net until they land, in any    *)
(* order, and shmem_quiet is the only call that waits for them.            *)
(***************************************************************************)
EXTENDS Integers, Sequences

CONSTANTS
  NumPEs,      \* number of PEs
  LockWord     \* LockWord[p]: address of the lock variable on PE p, >> 3

\* l_next is an int16_t: the number of a PE above 32767 would read back as a
\* negative one, which every wait of the release takes for "not there yet".
ASSUME NumPEsAssumption == NumPEs \in 1..32768

PE == 0 .. NumPEs - 1

ASSUME LockWordAssumption == LockWord \in [PE -> Nat]

VARIABLES
  pc,       \* where each PE is in acquire / release
  ret,      \* its shmem_test_lock: result 0 or 1, InTest before the return,
            \* NoRet when it uses the other calls
  tmp,      \* tmp of acquire: the tail word the swap brought back
  tail,     \* word 0 of the lock variable, on each PE
  l_next,   \* word 1 of the lock variable, on each PE: its two halves
  l_locked,
  net,      \* puts that have been issued and have not landed
  queue     \* history: the PEs in the order of their swaps

vars == <<pc, ret, tmp, tail, l_next, l_locked, net, queue>>

-----------------------------------------------------------------------------
NoRet == -1
InTest == -2

FREE == -1                                   \* SHMEM_LOCK_FREE
Torn == -2                                   \* an l_next of which one byte landed
Reset == [locked |-> 0, next |-> 0]          \* SHMEM_LOCK_RESET
FreeWord == [locked |-> 65535, next |-> -1]  \* SHMEM_LOCK_FREE as a word
Claim(p) == [locked |-> 1, next |-> p]       \* the request word of p

Word == [locked : {0, 1, 65535}, next : PE \cup {FREE}]

Put == [src : PE, dst : PE, field : {"next", "locked", "data"}, val : PE]

\* "Translate old (broken) default lock state"
Translate(w) == IF w = FreeWord THEN Reset ELSE w

LockOwner(p) == LockWord[p] % NumPEs

Bug_QuietSkipped(p) == TRUE

\* shmem_quiet returns when no put of the caller is outstanding.
Quiet(p) == \A m \in net : m.src # p

Goto(p, l) == pc' = [pc EXCEPT ![p] = l]

Send(m) == net' = net \cup {m}
LinkPut(p, prev) == [src |-> p, dst |-> prev, field |-> "next", val |-> p]
UnlockPut(p, succ) == [src |-> p, dst |-> succ, field |-> "locked", val |-> 0]
DataPut(p) == [src |-> p, dst |-> 0, field |-> "data", val |-> 0]

-----------------------------------------------------------------------------
\* The lock variable starts as 0, or as -1 in programs written for old systems.
Init ==
  /\ pc = [p \in PE |-> "idle"]
  /\ ret = [p \in PE |-> NoRet]
  /\ tmp = [p \in PE |-> Reset]
  /\ \E w \in {Reset, FreeWord} :
       /\ tail = [p \in PE |-> w]
       /\ l_next = [p \in PE |-> w.next]
       /\ l_locked = [p \in PE |-> w.locked]
  /\ net = {}
  /\ queue = <<>>

SetLock(p) ==
  /\ pc[p] = "idle"
  /\ Goto(p, "prepare")
  /\ ret' = [ret EXCEPT ![p] = NoRet]
  /\ UNCHANGED <<tmp, tail, l_next, l_locked, net, queue>>

\* shmem_test_lock: a plain get of the tail, and then the same acquire.
TestLockFree(p) ==
  /\ pc[p] = "idle"
  /\ Translate(tail[LockOwner(p)]) = Reset
  /\ Goto(p, "prepare")
  /\ ret' = [ret EXCEPT ![p] = InTest]
  /\ UNCHANGED <<tmp, tail, l_next, l_locked, net, queue>>

TestLockBusy(p) ==
  /\ pc[p] = "idle"
  /\ Translate(tail[LockOwner(p)]) # Reset
  /\ ret' = [ret EXCEPT ![p] = 1]
  /\ UNCHANGED <<pc, tmp, tail, l_next, l_locked, net, queue>>

Bug_PrepareKeepsNext(p) ==
  /\ pc[p] = "prepare"
  /\ Goto(p, "swap")
  /\ UNCHANGED <<ret, tmp, tail, l_next, l_locked, net, queue>>

Prepare(p) ==
  /\ pc[p] = "prepare"
  /\ l_next' = [l_next EXCEPT ![p] = FREE]
  /\ Goto(p, "swap")
  /\ UNCHANGED <<ret, tmp, tail, l_locked, net, queue>>

Swap(p) ==
  /\ pc[p] = "swap"
  /\ tmp' = [tmp EXCEPT ![p] = Translate(tail[LockOwner(p)])]
  /\ tail' = [tail EXCEPT ![LockOwner(p)] = Claim(p)]
  /\ queue' = Append(queue, p)
  /\ Goto(p, "swapped")
  /\ UNCHANGED <<ret, l_next, l_locked, net>>

\* acquire returns, its locals are gone; shmem_test_lock then returns 0.
Enter(p) ==
  /\ Goto(p, "cs")
  /\ ret' = IF ret[p] = InTest THEN [ret EXCEPT ![p] = 0] ELSE ret
  /\ tmp' = [tmp EXCEPT ![p] = Reset]
  /\ UNCHANGED <<tail, l_next, l_locked, net, queue>>

Uncontended(p) ==
  /\ pc[p] = "swapped"
  /\ tmp[p].locked = 0
  /\ Enter(p)

Bug_MarkLockedForgotten(p) ==
  /\ pc[p] = "swapped"
  /\ tmp[p].locked # 0
  /\ Goto(p, "link")
  /\ UNCHANGED <<ret, tmp, tail, l_next, l_locked, net, queue>>

MarkLocked(p) ==
  /\ pc[p] = "swapped"
  /\ tmp[p].locked # 0
  /\ l_locked' = [l_locked EXCEPT ![p] = 1]
  /\ Goto(p, "link")
  /\ UNCHANGED <<ret, tmp, tail, l_next, net, queue>>

Link(p) ==
  /\ pc[p] = "link"
  /\ Send(LinkPut(p, tmp[p].next))
  /\ Goto(p, "wait")
  /\ UNCHANGED <<ret, tmp, tail, l_next, l_locked, queue>>

\* The BLOCKUNTIL of acquire.
Granted(p) ==
  /\ pc[p] = "wait"
  /\ l_locked[p] = 0
  /\ Enter(p)

-----------------------------------------------------------------------------
\* Between the calls the holder puts to the data the lock protects.
Write(p) ==
  /\ pc[p] = "cs"
  /\ Send(DataPut(p))
  /\ UNCHANGED <<pc, ret, tmp, tail, l_next, l_locked, queue>>

\* shmem_clear_lock: shmem_quiet first, then the release.
ClearLock(p) ==
  /\ pc[p] = "cs"
  /\ Goto(p, "quiet")
  /\ ret' = [ret EXCEPT ![p] = NoRet]
  /\ UNCHANGED <<tmp, tail, l_next, l_locked, net, queue>>

QuietDone(p) ==
  /\ pc[p] = "quiet"
  /\ Quiet(p)
  /\ Goto(p, "release")
  /\ UNCHANGED <<ret, tmp, tail, l_next, l_locked, net, queue>>

CheckNext(p) ==
  /\ pc[p] = "release"
  /\ Goto(p, IF l_next[p] = FREE THEN "cswap" ELSE "handoff")
  /\ UNCHANGED <<ret, tmp, tail, l_next, l_locked, net, queue>>

Bug_SwapInsteadOfCSwap(p) ==
  /\ pc[p] = "cswap"
  /\ tail' = [tail EXCEPT ![LockOwner(p)] = Reset]
  /\ IF tail[LockOwner(p)].next = p
       THEN Goto(p, "idle") /\ queue' = Tail(queue)
       ELSE Goto(p, "await") /\ UNCHANGED queue
  /\ UNCHANGED <<ret, tmp, l_next, l_locked, net>>

Bug_CSwapResultIgnored(p) ==
  LET old == tail[LockOwner(p)] IN
  /\ pc[p] = "cswap"
  /\ tail' = IF old = Claim(p) THEN [tail EXCEPT ![LockOwner(p)] = Reset] ELSE tail
  /\ Goto(p, "idle")
  /\ queue' = Tail(queue)
  /\ UNCHANGED <<ret, tmp, l_next, l_locked, net>>

\* The old tail says whether anybody has queued up behind p since.
CSwap(p) ==
  LET old == tail[LockOwner(p)] IN
  /\ pc[p] = "cswap"
  /\ tail' = IF old = Claim(p) THEN [tail EXCEPT ![LockOwner(p)] = Reset] ELSE tail
  /\ IF old.next = p
       THEN Goto(p, "idle") /\ queue' = Tail(queue)
       ELSE Goto(p, "await") /\ UNCHANGED queue
  /\ UNCHANGED <<ret, tmp, l_next, l_locked, net>>

AwaitNext(p) ==
  /\ pc[p] = "await"
  /\ l_next[p] # FREE /\ l_next[p] >= 0
  /\ Goto(p, "handoff")
  /\ UNCHANGED <<ret, tmp, tail, l_next, l_locked, net, queue>>

Handoff(p) ==
  /\ pc[p] = "handoff"
  /\ l_next[p] >= 0
  /\ Send(UnlockPut(p, l_next[p]))
  /\ queue' = Tail(queue)
  /\ Goto(p, "idle")
  /\ UNCHANGED <<ret, tmp, tail, l_next, l_locked>>

-----------------------------------------------------------------------------
\* A put lands.  The comment in the release reports an l_next written byte by
\* byte: the wait for a non-negative value tolerates the low byte landing first.
Land(m) ==
  /\ net' = net \ {m}
  /\ l_next' = IF m.field = "next" THEN [l_next EXCEPT ![m.dst] = m.val] ELSE l_next
  /\ l_locked' = IF m.field = "locked" THEN [l_locked EXCEPT ![m.dst] = m.val] ELSE l_locked
  /\ UNCHANGED <<pc, ret, tmp, tail, queue>>

LandLowByte(m) ==
  /\ m.field = "next"
  /\ l_next' = [l_next EXCEPT ![m.dst] = Torn]
  /\ UNCHANGED <<pc, ret, tmp, tail, l_locked, net, queue>>

\* The statements of the library, which a PE in a call goes on executing.
LibraryStep(p) ==
  \/ Prepare(p) \/ Swap(p) \/ Uncontended(p) \/ MarkLocked(p) \/ Link(p) \/ Granted(p)
  \/ QuietDone(p) \/ CheckNext(p) \/ CSwap(p) \/ AwaitNext(p) \/ Handoff(p)

\* The calls of the user's program.
UserStep(p) ==
  SetLock(p) \/ TestLockFree(p) \/ TestLockBusy(p) \/ Write(p) \/ ClearLock(p)

LandFrom(p) == \E m \in net : m.src = p /\ Land(m)

Next ==
  \/ \E p \in PE : LibraryStep(p) \/ UserStep(p)
  \/ \E m \in net : Land(m) \/ LandLowByte(m)

Spec == Init /\ [][Next]_vars

\* A PE in a call keeps running, puts land, and the holder clears the lock in
\* the end; nobody is obliged to ask for it.
Fairness ==
  \A p \in PE : WF_vars(LibraryStep(p)) /\ WF_vars(ClearLock(p)) /\ WF_vars(LandFrom(p))

FairSpec == Spec /\ Fairness

-----------------------------------------------------------------------------
\* PEs whose list node is in the queue, and those among them that hold the lock
\* from the end of acquire until the release has given it away.
Holding == {"cs", "quiet", "release", "cswap", "await", "handoff"}
Queueing == {"swapped", "link", "wait"}

TypeOK ==
  /\ pc \in [PE -> {"idle", "prepare", "swap"} \cup Queueing \cup Holding]
  /\ ret \in [PE -> {NoRet, InTest, 0, 1}]
  /\ tmp \in [PE -> Word]
  /\ tail \in [PE -> Word]
  /\ l_next \in [PE -> PE \cup {FREE, Torn}]
  /\ l_locked \in [PE -> {0, 1, 65535}]
  /\ net \in SUBSET Put
  /\ queue \in Seq(PE)

\* At most one PE holds the lock, from the return of acquire until the release
\* has put the hand-off or reset the tail (lock.c:87-105).
MutualExclusion ==
  \A p, q \in PE : pc[p] \in Holding /\ pc[q] \in Holding => p = q

\* Whoever holds the lock sees every put that earlier holders issued under it:
\* the quiet of shmem_clear_lock (lock.c:98-100) leaves none in flight.
HolderSeesAllWrites ==
  \A p \in PE : pc[p] \in Holding =>
    \A m \in net : m.field = "data" => m.src = p

\* The parts of the inductive invariant.  The queue holds exactly the PEs past
\* their swap, once each, and the tail names the last of them.
QueueMatchesPc ==
  /\ \A p \in PE : pc[p] \in Queueing \cup Holding <=> \E i \in 1 .. Len(queue) : queue[i] = p
  /\ \A i, j \in 1 .. Len(queue) : queue[i] = queue[j] => i = j

TailNamesLast ==
  \A p \in PE :
    /\ Len(queue) = 0 => Translate(tail[LockOwner(p)]) = Reset
    /\ Len(queue) > 0 => tail[LockOwner(p)] = Claim(queue[Len(queue)])

\* The PE at the head has the lock, or finds that it has.
HeadHasLock ==
  Len(queue) > 0 =>
    \/ pc[queue[1]] \in Holding
    \/ pc[queue[1]] = "swapped" /\ tmp[queue[1]].locked = 0
    \/ pc[queue[1]] = "wait" /\ (l_locked[queue[1]] = 0
                                 \/ \E m \in net : m.field = "locked" /\ m.dst = queue[1])

\* Everybody behind it is chained to the PE before and cannot pass its wait.
OthersAreBlocked ==
  \A i \in 2 .. Len(queue) :
    /\ pc[queue[i]] \in Queueing
    /\ tmp[queue[i]] = Claim(queue[i-1])
    /\ pc[queue[i]] \in {"link", "wait"} => l_locked[queue[i]] = 1

\* l_next of a queue member is FREE until its successor's put lands, and is
\* never a stale number left over from an earlier round.
Linking(i) == i < Len(queue) /\ pc[queue[i+1]] = "wait"

NextIsSuccessor ==
  /\ \A p \in PE : pc[p] = "swap" => l_next[p] = FREE
  /\ \A i \in 1 .. Len(queue) :
       /\ ~Linking(i) => l_next[queue[i]] = FREE
       /\ Linking(i) /\ LinkPut(queue[i+1], queue[i]) \in net => l_next[queue[i]] \in {FREE, Torn}
       /\ Linking(i) /\ LinkPut(queue[i+1], queue[i]) \notin net => l_next[queue[i]] = queue[i+1]

\* The only lock traffic in flight is a link to a predecessor that has not seen
\* it, or one hand-off to the head of the queue.
TrafficIsExpected ==
  \A m \in net :
    /\ m.field = "next" => \E i \in 1 .. Len(queue) :
         Linking(i) /\ m = LinkPut(queue[i+1], queue[i])
    /\ m.field = "locked" =>
         /\ m.val = 0 /\ Len(queue) > 0 /\ m.dst = queue[1]
         /\ pc[m.dst] = "wait" /\ l_locked[m.dst] = 1
         /\ \A n \in net : n.field = "locked" => n = m
    /\ m.field = "data" => pc[m.src] \in {"cs", "quiet"}

\* A release that waits has somebody to wait for.
ReleaseHasSuccessor ==
  \A p \in PE :
    /\ pc[p] = "await" => Len(queue) >= 2
    /\ pc[p] = "handoff" => l_next[p] # FREE

IInv ==
  /\ TypeOK
  /\ QueueMatchesPc
  /\ TailNamesLast
  /\ HeadHasLock
  /\ OthersAreBlocked
  /\ NextIsSuccessor
  /\ TrafficIsExpected
  /\ ReleaseHasSuccessor

Fifo == INSTANCE FifoLock WITH
  Client <- PE,
  inside <- {p \in PE : pc[p] \in Holding}

\* The lock serves requests in the order of their swaps, one at a time.
ServedInOrder == Fifo!Spec

\* What shmem.h:1893 says of shmem_test_lock: "non-zero if lock acquired".
\* The code does not keep this promise: see Divergences in README.md.
TestLockReturnsNonZero == \A p \in PE : pc[p] = "cs" => ret[p] # 0

\* What shmem.h:1889-1891 says of it: the lock is claimed or "the call returns
\* immediately"; it does not queue up behind another PE.
\* The code does not keep this promise: see Divergences in README.md.
TestLockDoesNotWait == \A p \in PE : ret[p] = InTest => pc[p] # "wait"

\* A PE that has swapped itself into the queue gets the lock in the end.
LockGranted == \A p \in PE : pc[p] = "swapped" ~> pc[p] = "cs"

=============================================================================
