--------------------------- MODULE BarrierLinear ----------------------------
(***************************************************************************)
(* shmem_barrier with its default (and only enabled) algorithm, the linear *)
(* one: in each of two rounds every PE of the active set increments        *)
(* pSync[round] on all the others, waits for theirs and resets its own.    *)
(*                                                                         *)
(* shmem_long_inc is a blocking active message.  Its handler reads and     *)
(* writes the counter under amo_lock_long; the reset of the counter is a   *)
(* plain store that takes no lock, so the two halves are separate steps.   *)
(***************************************************************************)
EXTENDS Integers, FiniteSets

CONSTANTS
  PE_start, PE_size,  \* the active set
  step,               \* 1 << logPE_stride
  MaxCalls,           \* bound: how often a PE calls the barrier
  MaxPuts             \* bound: puts of one PE in flight

ASSUME ActiveSetAssumption ==
  /\ PE_start \in Nat
  /\ step \in Nat \ {0}
  /\ PE_size \in Nat \ {0}

ASSUME BoundsAssumption == MaxCalls \in Nat /\ MaxPuts \in Nat

Member == {PE_start + n * step : n \in 0 .. PE_size - 1}
End == PE_start + PE_size * step

VARIABLES
  pc,       \* where each PE is
  round,    \* round and thatpe: the loops of shmemi_barrier_linear
  thatpe,
  pSync,    \* pSync[p][r]: the counter of round r on PE p
  amo,      \* amo_lock_long on each PE: its holder and what the holder has read
  flight,   \* puts of the program that have not landed, with the number of
            \* barriers their PE had done when it issued them
  done      \* history: how many barriers each PE has left

vars == <<pc, round, thatpe, pSync, amo, flight, done>>

-----------------------------------------------------------------------------
SYNC == -1                          \* SHMEM_SYNC_VALUE
Rounds == 0 .. 1
Bug_LastRound == 0
LastRound == 1

nreplies == SYNC + PE_size - 1

Free == [src |-> SYNC, old |-> SYNC]   \* nobody has the lock

Bug_QuietSkipped(p) == TRUE

\* shmem_quiet returns when no put of the caller is outstanding.
Quiet(p) == \A m \in flight : m.src # p

Goto(p, l) == pc' = [pc EXCEPT ![p] = l]

Init ==
  /\ pc = [p \in Member |-> "outside"]
  /\ round = [p \in Member |-> 0]
  /\ thatpe = [p \in Member |-> PE_start]
  /\ pSync = [p \in Member |-> [r \in Rounds |-> SYNC]]
  /\ amo = [p \in Member |-> Free]
  /\ flight = {}
  /\ done = [p \in Member |-> 0]

\* Before a barrier the program puts, and does not wait.  It ends after its
\* last barrier.
UserPut(p) ==
  /\ pc[p] = "outside"
  /\ done[p] < MaxCalls
  /\ \E n \in 1 .. MaxPuts : flight' = flight \cup {[src |-> p, epoch |-> done[p], id |-> n]}
  /\ UNCHANGED <<pc, round, thatpe, pSync, amo, done>>

Land(m) ==
  /\ flight' = flight \ {m}
  /\ UNCHANGED <<pc, round, thatpe, pSync, amo, done>>

Call(p) ==
  /\ pc[p] = "outside"
  /\ done[p] < MaxCalls
  /\ Goto(p, "flush")
  /\ UNCHANGED <<round, thatpe, pSync, amo, flight, done>>

Flush(p) ==
  /\ pc[p] = "flush"
  /\ Quiet(p)
  /\ Goto(p, "send")
  /\ UNCHANGED <<round, thatpe, pSync, amo, flight, done>>

Bug_SkipSelf(p) ==
  /\ pc[p] = "send"
  /\ thatpe[p] = p
  /\ pSync' = [pSync EXCEPT ![p][round[p]] = @ + 1]
  /\ thatpe' = [thatpe EXCEPT ![p] = @ + step]
  /\ UNCHANGED <<pc, round, amo, flight, done>>

SkipSelf(p) ==
  /\ pc[p] = "send"
  /\ thatpe[p] = p
  /\ thatpe' = [thatpe EXCEPT ![p] = @ + step]
  /\ UNCHANGED <<pc, round, pSync, amo, flight, done>>

\* The increment of another PE's counter: the handler takes the lock and reads,
\* writes and gives the lock back, and its reply lets p go on.
IncLoad(p) ==
  /\ pc[p] = "send"
  /\ thatpe[p] \in Member \ {p}
  /\ amo[thatpe[p]] = Free
  /\ amo' = [amo EXCEPT ![thatpe[p]] = [src |-> p, old |-> pSync[thatpe[p]][round[p]]]]
  /\ Goto(p, "store")
  /\ UNCHANGED <<round, thatpe, pSync, flight, done>>

IncStore(p) ==
  /\ pc[p] = "store"
  /\ pSync' = [pSync EXCEPT ![thatpe[p]] = [@ EXCEPT ![round[p]] = amo[thatpe[p]].old + 1]]
  /\ amo' = [amo EXCEPT ![thatpe[p]] = Free]
  /\ Goto(p, "reply")
  /\ UNCHANGED <<round, thatpe, flight, done>>

IncReply(p) ==
  /\ pc[p] = "reply"
  /\ thatpe' = [thatpe EXCEPT ![p] = @ + step]
  /\ Goto(p, "send")
  /\ UNCHANGED <<round, pSync, amo, flight, done>>

SentAll(p) ==
  /\ pc[p] = "send"
  /\ thatpe[p] = End
  /\ Goto(p, "wait")
  /\ UNCHANGED <<round, thatpe, pSync, amo, flight, done>>

Bug_WaitForChange(p) ==
  /\ pc[p] = "wait"
  /\ pSync[p][round[p]] # SYNC
  /\ Goto(p, "reset")
  /\ UNCHANGED <<round, thatpe, pSync, amo, flight, done>>

\* shmem_long_wait_until: equal, not at least.
WaitUntil(p) ==
  /\ pc[p] = "wait"
  /\ pSync[p][round[p]] = nreplies
  /\ Goto(p, "reset")
  /\ UNCHANGED <<round, thatpe, pSync, amo, flight, done>>

\* The next round begins, or the barrier returns.
NextRound(p) ==
  IF round[p] < LastRound
    THEN /\ Goto(p, "send")
         /\ round' = [round EXCEPT ![p] = @ + 1]
         /\ UNCHANGED done
    ELSE /\ Goto(p, "outside")
         /\ round' = [round EXCEPT ![p] = 0]
         /\ done' = [done EXCEPT ![p] = @ + 1]

Bug_ResetForgotten(p) ==
  /\ pc[p] = "reset"
  /\ thatpe' = [thatpe EXCEPT ![p] = PE_start]
  /\ NextRound(p)
  /\ UNCHANGED <<pSync, amo, flight>>

ResetSync(p) ==
  /\ pc[p] = "reset"
  /\ pSync' = [pSync EXCEPT ![p] = [@ EXCEPT ![round[p]] = SYNC]]
  /\ thatpe' = [thatpe EXCEPT ![p] = PE_start]
  /\ NextRound(p)
  /\ UNCHANGED <<amo, flight>>

\* The statements of the library, which a PE in a call goes on executing.
LibraryStep(p) ==
  \/ Flush(p) \/ SkipSelf(p) \/ IncLoad(p) \/ IncStore(p) \/ IncReply(p)
  \/ SentAll(p) \/ WaitUntil(p) \/ ResetSync(p)

UserStep(p) == UserPut(p) \/ Call(p)

LandFrom(p) == \E m \in flight : m.src = p /\ Land(m)

Next == \E p \in Member : LibraryStep(p) \/ UserStep(p) \/ LandFrom(p)

Spec == Init /\ [][Next]_vars

\* A PE in a call keeps running, and puts land; nobody is obliged to call the
\* barrier.
FairSpec == Spec /\ \A p \in Member : WF_vars(LibraryStep(p)) /\ WF_vars(LandFrom(p))

-----------------------------------------------------------------------------
TypeOK ==
  /\ pc \in [Member -> {"outside", "flush", "send", "store", "reply", "wait", "reset"}]
  /\ round \in [Member -> Rounds]
  /\ thatpe \in [Member -> Member \cup {End}]
  /\ pSync \in [Member -> [Rounds -> Int]]
  /\ amo \in [Member -> [src : Member \cup {SYNC}, old : Int]]
  /\ flight \subseteq [src : Member, epoch : Nat, id : 1 .. MaxPuts]
  /\ done \in [Member -> Nat]

\* The parts of the inductive invariant.  The position in the loops fits the pc.
LoopsMatchPc ==
  \A p \in Member :
    /\ pc[p] \in {"outside", "flush"} => round[p] = 0 /\ thatpe[p] = PE_start
    /\ pc[p] \in {"store", "reply"} => thatpe[p] \in Member \ {p}
    /\ pc[p] \in {"wait", "reset"} => thatpe[p] = End

\* A PE has gone through Phase(p) rounds in all its calls.
Phase(p) == 2 * done[p] + round[p]

\* p is past its increment of q in its present round.
Sent(p, q) == thatpe[p] > q \/ (thatpe[p] = q /\ pc[p] = "reply")

\* p has incremented q's counter in round k of the total.
Contributed(p, q, k) == Phase(p) > k \/ (Phase(p) = k /\ Sent(p, q))

\* The round of the total that pSync[p][r] is counting.
Counting(p, r) == IF r = round[p] THEN Phase(p) ELSE Phase(p) + 1

\* A counter is the number of increments for the round it is counting.
CounterCounts ==
  \A p \in Member, r \in Rounds :
    pSync[p][r] =
      SYNC + Cardinality({q \in Member \ {p} : Contributed(q, p, Counting(p, r))})

\* Nobody is more than one round ahead of another, and only after having had
\* the other's increment for the round it has finished.
PhasesAreClose ==
  \A p, q \in Member :
    Phase(p) < Phase(q) => Phase(q) = Phase(p) + 1 /\ Sent(p, q)

\* Whoever resets its counter has had the increments of all others.
ResetHasAll ==
  \A p, q \in Member : pc[p] = "reset" /\ q # p => Contributed(q, p, Phase(p))

\* The handler that holds the lock has read the present value of the counter.
LockHolderIsCurrent ==
  /\ \A p \in Member : pc[p] = "store" => amo[thatpe[p]].src = p
  /\ \A t \in Member :
       \/ amo[t] = Free
       \/ \E p \in Member :
            /\ pc[p] = "store" /\ thatpe[p] = t
            /\ amo[t] = [src |-> p, old |-> pSync[t][round[p]]]

\* Puts in flight were issued since their PE left its last barrier.
FlightIsRecent ==
  \A m \in flight : pc[m.src] \in {"outside", "flush"} /\ m.epoch = done[m.src]

IInv ==
  /\ TypeOK
  /\ LoopsMatchPc
  /\ CounterCounts
  /\ PhasesAreClose
  /\ ResetHasAll
  /\ LockHolderIsCurrent
  /\ FlightIsRecent

\* When a PE has left its n-th barrier, no put that any member issued before
\* its n-th barrier is still in flight (the quiet of barrier.c:131).
FlushedBeforeLeave ==
  \A m \in flight, p \in Member : done[p] <= m.epoch

\* No increment is being applied to a counter while its owner resets it: the
\* handler's read-modify-write and the plain store of barrier-linear.c:83 never
\* overlap, which is what the second round is for.
ResetIsUncontested ==
  \A p, q \in Member :
    pc[p] = "reset" /\ pc[q] = "store" /\ thatpe[q] = p => round[q] # round[p]

\* shmem.h:741-743: pSync is back in its initial state when all have returned,
\* so the next collective can use it.
PSyncRestored ==
  (\A p, q \in Member : pc[p] = "outside" /\ done[p] = done[q]) =>
    \A p \in Member, r \in Rounds : pSync[p][r] = SYNC

Sync == INSTANCE SyncBarrier WITH
  arrived <- [p \in Member |-> IF pc[p] \in {"outside", "flush"} THEN done[p] ELSE done[p] + 1],
  left <- done

\* No PE leaves the barrier before all have arrived at it.
AllArriveFirst == Sync!Spec

\* And all leave once all have arrived.
AllLeave == Sync!FairSpec

=============================================================================
