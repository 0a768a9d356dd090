--------------------------- MODULE McsLockProofs ----------------------------
(***************************************************************************)
(* Proofs about McsLock, for any number of PEs, under the condition that   *)
(* all PEs compute the same owner for the lock variable.                   *)
(***************************************************************************)
EXTENDS McsLock, SequenceTheorems, TLAPS

\* LOCK_OWNER gives one PE, whoever evaluates it.
OwnersAgree == \A p, q \in PE : LockOwner(p) = LockOwner(q)

LEMMA OwnerIsPE == \A p \in PE : LockOwner(p) \in PE
  BY NumPEsAssumption, LockWordAssumption, SMT DEF LockOwner, PE

LEMMA WordTypes ==
  /\ Reset \in Word /\ FreeWord \in Word
  /\ Translate(Reset) = Reset /\ Reset.locked = 0 /\ Reset.next = 0
  /\ Translate(FreeWord) = Reset /\ FreeWord.locked = 65535 /\ FreeWord.next = FREE
  /\ \A w \in Word : Translate(w) \in Word
  /\ \A p \in PE : /\ Claim(p) \in Word /\ Translate(Claim(p)) = Claim(p)
                   /\ Claim(p) # Reset /\ Claim(p).locked = 1 /\ Claim(p).next = p
<1>1. 0 \in PE
  BY NumPEsAssumption DEF PE
<1>2. ASSUME NEW p \in PE
      PROVE  /\ Claim(p) \in Word /\ Claim(p).locked = 1 /\ Claim(p).next = p
             /\ Claim(p) # FreeWord /\ Claim(p) # Reset
  BY DEF Claim, Word, FreeWord, Reset
<1>3. Reset \in Word /\ FreeWord \in Word /\ Reset # FreeWord /\ Reset.locked = 0
      /\ Reset.next = 0 /\ FreeWord.locked = 65535 /\ FreeWord.next = FREE
  BY <1>1 DEF Reset, FreeWord, Word, FREE
<1> QED
  BY <1>2, <1>3 DEF Translate

LEMMA PutTypes ==
  ASSUME NEW p \in PE, NEW q \in PE
  PROVE  /\ LinkPut(p, q) \in Put /\ LinkPut(p, q).src = p /\ LinkPut(p, q).dst = q
         /\ LinkPut(p, q).field = "next" /\ LinkPut(p, q).val = p
         /\ UnlockPut(p, q) \in Put /\ UnlockPut(p, q).src = p /\ UnlockPut(p, q).dst = q
         /\ UnlockPut(p, q).field = "locked" /\ UnlockPut(p, q).val = 0
         /\ DataPut(p) \in Put /\ DataPut(p).field = "data" /\ DataPut(p).src = p
<1>1. 0 \in PE
  BY NumPEsAssumption DEF PE
<1> QED
  BY <1>1 DEF LinkPut, UnlockPut, DataPut, Put

LEMMA InitIInv == Init => IInv
<1> SUFFICES ASSUME Init PROVE IInv
  OBVIOUS
<1>1. PICK w \in {Reset, FreeWord} : /\ tail = [p \in PE |-> w]
                                    /\ l_next = [p \in PE |-> w.next]
                                    /\ l_locked = [p \in PE |-> w.locked]
  BY DEF Init
<1>2. w \in Word /\ Translate(w) = Reset /\ w.next \in PE \cup {FREE} /\ w.locked \in {0, 65535}
  <2>1. CASE w = Reset
    BY <2>1, WordTypes, NumPEsAssumption DEF PE
  <2>2. CASE w = FreeWord
    BY <2>2, WordTypes
  <2> QED
    BY <2>1, <2>2
<1>3. TypeOK
  BY <1>1, <1>2, WordTypes DEF Init, TypeOK, NoRet
<1>4. QueueMatchesPc
  BY DEF Init, QueueMatchesPc, Queueing, Holding
<1>5. TailNamesLast
  BY <1>1, <1>2, OwnerIsPE DEF Init, TailNamesLast
<1>6. HeadHasLock /\ OthersAreBlocked
  BY DEF Init, HeadHasLock, OthersAreBlocked
<1>7. NextIsSuccessor /\ TrafficIsExpected /\ ReleaseHasSuccessor
  BY DEF Init, NextIsSuccessor, TrafficIsExpected, ReleaseHasSuccessor
<1> QED
  BY <1>3, <1>4, <1>5, <1>6, <1>7 DEF IInv

\* A PE that stays outside the queue, or goes on holding the lock, disturbs
\* nothing as long as it touches nothing but its own pc and ret.
LEMMA LocalStep ==
  ASSUME IInv, NEW p \in PE, NEW l,
         pc' = [pc EXCEPT ![p] = l],
         UNCHANGED <<tmp, tail, l_next, l_locked, net, queue>>,
         ret' \in [PE -> {NoRet, InTest, 0, 1}],
         \/ pc[p] \in {"idle", "prepare"} /\ l \in {"idle", "prepare"}
         \/ pc[p] \in Holding /\ l \in Holding \ {"await"},
         pc[p] \in {"cs", "quiet"} => l \in {"cs", "quiet"} \/ Quiet(p),
         l = "handoff" => l_next[p] # FREE
  PROVE  IInv'
<1> USE DEF IInv
<1>1. pc'[p] = l /\ \A q \in PE : q # p => pc'[q] = pc[q]
  BY DEF TypeOK
<1>2. TypeOK'
  <2>1. l \in {"idle", "prepare", "swap"} \cup Queueing \cup Holding
    OBVIOUS
  <2>2. pc' \in [PE -> {"idle", "prepare", "swap"} \cup Queueing \cup Holding]
    BY <2>1 DEF TypeOK
  <2> QED
    BY <2>2 DEF TypeOK
<1>3. QueueMatchesPc'
  BY <1>1 DEF QueueMatchesPc, Queueing, Holding
<1>4. TailNamesLast'
  BY DEF TailNamesLast
<1>5. HeadHasLock'
  BY <1>1 DEF TypeOK, HeadHasLock, Holding
<1>6. OthersAreBlocked'
  BY <1>1 DEF TypeOK, OthersAreBlocked, Queueing, Holding
<1>7. \A i \in 1 .. Len(queue) : Linking(i)' <=> Linking(i)
  BY <1>1 DEF TypeOK, Linking, Holding
<1>8. NextIsSuccessor'
  BY <1>1, <1>7 DEF NextIsSuccessor, Holding
<1>9. TrafficIsExpected'
  <2> SUFFICES ASSUME NEW m \in net
               PROVE  TrafficIsExpected!(m)'
    BY DEF TrafficIsExpected
  <2>1. m.src \in PE /\ m.dst \in PE
    BY DEF TypeOK, Put
  <2>2. m.field = "data" => pc'[m.src] \in {"cs", "quiet"}
    BY <1>1, <2>1 DEF TrafficIsExpected, Quiet
  <2>3. pc[m.dst] = "wait" => pc'[m.dst] = "wait"
    BY <1>1, <2>1 DEF Holding
  <2> QED
    BY <1>7, <2>1, <2>2, <2>3 DEF TrafficIsExpected
<1>10. ReleaseHasSuccessor'
  BY <1>1 DEF ReleaseHasSuccessor
<1> QED
  BY <1>2, <1>3, <1>4, <1>5, <1>6, <1>8, <1>9, <1>10

LEMMA UserCallStep ==
  ASSUME IInv, NEW p \in PE, SetLock(p) \/ TestLockFree(p) \/ ClearLock(p)
  PROVE  IInv'
<1>1. ret' \in [PE -> {NoRet, InTest, 0, 1}]
  BY DEF IInv, TypeOK, SetLock, TestLockFree, ClearLock
<1>2. CASE SetLock(p)
  BY <1>1, <1>2, LocalStep DEF SetLock, Goto
<1>3. CASE TestLockFree(p)
  BY <1>1, <1>3, LocalStep DEF TestLockFree, Goto
<1>4. CASE ClearLock(p)
  BY <1>1, <1>4, LocalStep DEF ClearLock, Goto, Holding
<1> QED
  BY <1>2, <1>3, <1>4

LEMMA TestLockBusyStep ==
  ASSUME IInv, NEW p \in PE, TestLockBusy(p)
  PROVE  IInv'
BY DEF TestLockBusy, IInv, TypeOK, QueueMatchesPc, TailNamesLast, HeadHasLock, OthersAreBlocked,
       NextIsSuccessor, Linking, TrafficIsExpected, ReleaseHasSuccessor

LEMMA ReleaseStep ==
  ASSUME IInv, NEW p \in PE, QuietDone(p) \/ CheckNext(p) \/ AwaitNext(p)
  PROVE  IInv'
<1>1. ret' \in [PE -> {NoRet, InTest, 0, 1}]
  BY DEF IInv, TypeOK, QuietDone, CheckNext, AwaitNext
<1>2. CASE QuietDone(p)
  BY <1>1, <1>2, LocalStep DEF QuietDone, Goto, Holding
<1>3. CASE CheckNext(p)
  <2>1. CASE l_next[p] = FREE
    BY <1>1, <1>3, <2>1, LocalStep DEF CheckNext, Goto, Holding
  <2>2. CASE l_next[p] # FREE
    BY <1>1, <1>3, <2>2, LocalStep DEF CheckNext, Goto, Holding
  <2> QED
    BY <2>1, <2>2
<1>4. CASE AwaitNext(p)
  BY <1>1, <1>4, LocalStep DEF AwaitNext, Goto, Holding
<1> QED
  BY <1>2, <1>3, <1>4

LEMMA PrepareStep ==
  ASSUME OwnersAgree, IInv, NEW p \in PE, Prepare(p)
  PROVE  IInv'
<1> USE DEF IInv, Prepare, Goto
<1>1. TypeOK'
  BY DEF TypeOK, Queueing, Holding, FREE, NoRet, InTest
<1>2. QueueMatchesPc'
  BY DEF TypeOK, QueueMatchesPc, Queueing, Holding
<1>3. TailNamesLast'
  BY DEF TailNamesLast
<1>4. HeadHasLock'
  BY DEF TypeOK, QueueMatchesPc, HeadHasLock, OthersAreBlocked, Queueing, Holding
<1>5. OthersAreBlocked'
  BY DEF TypeOK, QueueMatchesPc, OthersAreBlocked, Queueing, Holding
<1>6. NextIsSuccessor'
  BY DEF TypeOK, QueueMatchesPc, NextIsSuccessor, Linking, Queueing, Holding
<1>7. TrafficIsExpected'
  BY DEF TypeOK, QueueMatchesPc, TrafficIsExpected, Linking, Queueing, Holding
<1>8. ReleaseHasSuccessor'
  BY DEF TypeOK, QueueMatchesPc, HeadHasLock, ReleaseHasSuccessor, Queueing, Holding
<1> QED
  BY <1>1, <1>2, <1>3, <1>4, <1>5, <1>6, <1>7, <1>8

LEMMA MarkLockedStep ==
  ASSUME OwnersAgree, IInv, NEW p \in PE, MarkLocked(p)
  PROVE  IInv'
<1> USE DEF IInv, MarkLocked, Goto
<1>1. TypeOK'
  BY DEF TypeOK, Queueing, Holding, FREE, NoRet, InTest
<1>2. QueueMatchesPc'
  BY DEF TypeOK, QueueMatchesPc, Queueing, Holding
<1>3. TailNamesLast'
  BY DEF TailNamesLast
<1>4. HeadHasLock'
  BY DEF TypeOK, QueueMatchesPc, HeadHasLock, OthersAreBlocked, Queueing, Holding
<1>5. OthersAreBlocked'
  BY DEF TypeOK, QueueMatchesPc, OthersAreBlocked, Queueing, Holding
<1>6. NextIsSuccessor'
  BY DEF TypeOK, QueueMatchesPc, NextIsSuccessor, Linking, Queueing, Holding
<1>7. TrafficIsExpected'
  BY DEF TypeOK, QueueMatchesPc, TrafficIsExpected, Linking, Queueing, Holding
<1>8. ReleaseHasSuccessor'
  BY DEF TypeOK, QueueMatchesPc, HeadHasLock, ReleaseHasSuccessor, Queueing, Holding
<1> QED
  BY <1>1, <1>2, <1>3, <1>4, <1>5, <1>6, <1>7, <1>8

LEMMA SwapStep ==
  ASSUME OwnersAgree, IInv, NEW p \in PE, Swap(p)
  PROVE  IInv'
<1> USE DEF IInv, Swap, Goto
<1>1. /\ queue \in Seq(PE) /\ Len(queue) \in Nat /\ Len(queue') = Len(queue) + 1
      /\ \A i \in 1 .. Len(queue) : queue'[i] = queue[i] /\ queue[i] \in PE
      /\ queue'[Len(queue) + 1] = p
  BY DEF TypeOK
<1>2. \A i \in 1 .. Len(queue) : queue[i] # p /\ pc'[queue[i]] = pc[queue[i]] /\ tmp'[queue[i]] = tmp[queue[i]]
  BY <1>1 DEF TypeOK, QueueMatchesPc, Queueing, Holding
<1>3. /\ pc'[p] = "swapped" /\ tmp'[p] = Translate(tail[LockOwner(p)])
      /\ \A q \in PE : q # p => pc'[q] = pc[q] /\ tmp'[q] = tmp[q]
  BY DEF TypeOK
<1>4. TypeOK'
  BY <1>1, OwnerIsPE, WordTypes DEF TypeOK, Queueing
<1>5. QueueMatchesPc'
  BY <1>1, <1>2, <1>3 DEF QueueMatchesPc, Queueing
<1>6. TailNamesLast'
  BY <1>1, OwnerIsPE DEF TypeOK, TailNamesLast, OwnersAgree
<1>7. HeadHasLock'
  BY <1>1, <1>2, <1>3, WordTypes DEF HeadHasLock, TailNamesLast
<1>8. OthersAreBlocked'
  BY <1>1, <1>2, <1>3, WordTypes DEF OthersAreBlocked, TailNamesLast, Queueing
<1>9. \A i \in 1 .. Len(queue) : Linking(i)' <=> Linking(i)
  BY <1>1, <1>2, <1>3 DEF Linking
<1>10. ~Linking(Len(queue) + 1)' /\ ~Linking(Len(queue))
  BY <1>1 DEF Linking
<1>11. NextIsSuccessor'
  BY <1>1, <1>2, <1>3, <1>9, <1>10 DEF NextIsSuccessor, Linking
<1>12. TrafficIsExpected'
  <2> SUFFICES ASSUME NEW m \in net
               PROVE  TrafficIsExpected!(m)'
    BY DEF TrafficIsExpected
  <2>1. m.src \in PE /\ m.dst \in PE
    BY DEF TypeOK, Put
  <2>2. ASSUME m.field = "next"
        PROVE  \E i \in 1 .. Len(queue') : Linking(i)' /\ m = LinkPut(queue'[i+1], queue'[i])
    <3>1. PICK i \in 1 .. Len(queue) : Linking(i) /\ m = LinkPut(queue[i+1], queue[i])
      BY <2>2 DEF TrafficIsExpected
    <3>2. i + 1 \in 1 .. Len(queue) /\ i \in 1 .. Len(queue')
      BY <1>1, <3>1 DEF Linking
    <3> QED
      BY <1>1, <1>9, <3>1, <3>2
  <2>3. ASSUME m.field = "locked"
        PROVE  /\ m.val = 0 /\ Len(queue') > 0 /\ m.dst = queue'[1]
               /\ pc'[m.dst] = "wait" /\ l_locked'[m.dst] = 1
               /\ \A k \in net' : k.field = "locked" => k = m
    BY <1>1, <1>3, <2>1, <2>3 DEF TrafficIsExpected
  <2>4. m.field = "data" => pc'[m.src] \in {"cs", "quiet"}
    BY <1>3, <2>1 DEF TrafficIsExpected
  <2> QED
    BY <2>2, <2>3, <2>4
<1>13. ReleaseHasSuccessor'
  BY <1>1, <1>3 DEF ReleaseHasSuccessor
<1> QED
  BY <1>4, <1>5, <1>6, <1>7, <1>8, <1>11, <1>12, <1>13

LEMMA UncontendedStep ==
  ASSUME OwnersAgree, IInv, NEW p \in PE, Uncontended(p)
  PROVE  IInv'
<1> USE DEF IInv, Uncontended, Enter, Goto
<1>1. Len(queue) > 0 /\ p = queue[1]
  BY WordTypes DEF TypeOK, QueueMatchesPc, OthersAreBlocked, Queueing
<1>2. TypeOK'
  BY WordTypes DEF TypeOK, Holding
<1>3. QueueMatchesPc'
  BY DEF TypeOK, QueueMatchesPc, Queueing, Holding
<1>4. TailNamesLast'
  BY DEF TailNamesLast
<1>5. HeadHasLock'
  BY <1>1 DEF TypeOK, HeadHasLock, Holding
<1>6. OthersAreBlocked'
  BY <1>1 DEF TypeOK, QueueMatchesPc, OthersAreBlocked
<1>7. NextIsSuccessor'
  BY DEF TypeOK, QueueMatchesPc, NextIsSuccessor, Linking
<1>8. TrafficIsExpected'
  BY DEF TypeOK, TrafficIsExpected, Linking
<1>9. ReleaseHasSuccessor'
  BY DEF TypeOK, ReleaseHasSuccessor
<1> QED
  BY <1>2, <1>3, <1>4, <1>5, <1>6, <1>7, <1>8, <1>9

LEMMA GrantedStep ==
  ASSUME OwnersAgree, IInv, NEW p \in PE, Granted(p)
  PROVE  IInv'
<1> USE DEF IInv, Granted, Enter, Goto
<1>1. Len(queue) > 0 /\ p = queue[1]
  BY DEF TypeOK, QueueMatchesPc, OthersAreBlocked, Queueing
<1>2. TypeOK'
  BY WordTypes DEF TypeOK, Holding
<1>3. QueueMatchesPc'
  BY DEF TypeOK, QueueMatchesPc, Queueing, Holding
<1>4. TailNamesLast'
  BY DEF TailNamesLast
<1>5. HeadHasLock'
  BY <1>1 DEF TypeOK, HeadHasLock, Holding
<1>6. OthersAreBlocked'
  BY <1>1 DEF TypeOK, QueueMatchesPc, OthersAreBlocked
<1>7. \A i \in 1 .. Len(queue) : Linking(i)' <=> Linking(i)
  BY <1>1 DEF TypeOK, QueueMatchesPc, Linking
<1>8. NextIsSuccessor'
  BY <1>7 DEF TypeOK, NextIsSuccessor
<1>9. TrafficIsExpected'
  BY <1>7 DEF TypeOK, TrafficIsExpected
<1>10. ReleaseHasSuccessor'
  BY DEF TypeOK, ReleaseHasSuccessor
<1> QED
  BY <1>2, <1>3, <1>4, <1>5, <1>6, <1>8, <1>9, <1>10

LEMMA LinkStep ==
  ASSUME OwnersAgree, IInv, NEW p \in PE, Link(p)
  PROVE  IInv'
<1> USE DEF IInv, Link, Send, Goto
<1>1. PICK k \in 2 .. Len(queue) : queue[k] = p
  BY DEF TypeOK, QueueMatchesPc, HeadHasLock, Queueing, Holding
<1> DEFINE prev == queue[k-1]
           L == LinkPut(p, prev)
<1>2. /\ queue \in Seq(PE) /\ Len(queue) \in Nat /\ k-1 \in 1 .. Len(queue)
      /\ prev \in PE /\ prev # p /\ tmp[p].next = prev
      /\ \A i \in 1 .. Len(queue) : queue[i] \in PE
  BY <1>1, WordTypes DEF TypeOK, OthersAreBlocked, QueueMatchesPc
<1>3. net' = net \cup {L} /\ L \in Put /\ L.field = "next" /\ L.src = p
  BY <1>2, PutTypes
<1>4. pc'[p] = "wait" /\ \A q \in PE : q # p => pc'[q] = pc[q]
  BY DEF TypeOK
<1>5. /\ Linking(k-1)' /\ ~Linking(k-1)
      /\ \A i \in 1 .. Len(queue) : i # k-1 => (Linking(i)' <=> Linking(i))
  BY <1>1, <1>2, <1>4 DEF Linking, QueueMatchesPc
<1>6. TypeOK'
  BY <1>3 DEF TypeOK, Queueing
<1>7. QueueMatchesPc'
  BY <1>4 DEF QueueMatchesPc, Queueing, Holding
<1>8. TailNamesLast'
  BY DEF TailNamesLast
<1>9. HeadHasLock'
  BY <1>1, <1>2, <1>3, <1>4 DEF HeadHasLock, QueueMatchesPc
<1>10. OthersAreBlocked'
  BY <1>2, <1>4 DEF OthersAreBlocked, Queueing
<1>11. \A i \in 1 .. Len(queue) : i # k-1 /\ i < Len(queue) => LinkPut(queue[i+1], queue[i]) # L
  BY <1>1, <1>2, PutTypes DEF QueueMatchesPc
<1>12. NextIsSuccessor'
  BY <1>1, <1>2, <1>3, <1>4, <1>5, <1>11 DEF NextIsSuccessor, Linking
<1>13. TrafficIsExpected'
  <2> SUFFICES ASSUME NEW m \in net'
               PROVE  TrafficIsExpected!(m)'
    BY DEF TrafficIsExpected
  <2>1. CASE m = L
    BY <1>1, <1>2, <1>3, <1>5, <2>1
  <2>2. CASE m \in net
    BY <1>2, <1>3, <1>4, <1>5, <2>2 DEF TrafficIsExpected, TypeOK, Put
  <2> QED
    BY <1>3, <2>1, <2>2
<1>14. ReleaseHasSuccessor'
  BY <1>4 DEF ReleaseHasSuccessor
<1> QED
  BY <1>6, <1>7, <1>8, <1>9, <1>10, <1>12, <1>13, <1>14

LEMMA WriteStep ==
  ASSUME OwnersAgree, IInv, NEW p \in PE, Write(p)
  PROVE  IInv'
<1> USE DEF IInv, Write, Send
<1> DEFINE D == DataPut(p)
<1>1. net' = net \cup {D} /\ D \in Put /\ D.field = "data" /\ D.src = p
  BY PutTypes
<1>2. TypeOK'
  BY <1>1 DEF TypeOK
<1>8. QueueMatchesPc' /\ TailNamesLast' /\ OthersAreBlocked' /\ ReleaseHasSuccessor'
  BY DEF QueueMatchesPc, TailNamesLast, OthersAreBlocked, ReleaseHasSuccessor
<1>3. HeadHasLock'
  BY <1>1 DEF HeadHasLock
<1>4. \A i : Linking(i)' <=> Linking(i)
  BY DEF Linking
<1>5. \A i \in 1 .. Len(queue) : Linking(i) => LinkPut(queue[i+1], queue[i]) # D
  BY <1>1, PutTypes DEF TypeOK, Linking
<1>6. NextIsSuccessor'
  BY <1>1, <1>4, <1>5 DEF NextIsSuccessor
<1>7. TrafficIsExpected'
  BY <1>1, <1>4 DEF TrafficIsExpected
<1> QED
  BY <1>2, <1>3, <1>6, <1>7, <1>8

LEMMA LandStep ==
  ASSUME OwnersAgree, IInv, NEW m \in net, Land(m)
  PROVE  IInv'
<1> USE DEF IInv, Land
<1>1. /\ m \in Put /\ m.src \in PE /\ m.dst \in PE /\ m.val \in PE
      /\ queue \in Seq(PE) /\ \A i \in 1 .. Len(queue) : queue[i] \in PE
  BY DEF TypeOK, Put
<1>2. \A i : Linking(i)' <=> Linking(i)
  BY DEF Linking
<1>3. QueueMatchesPc' /\ TailNamesLast'
  BY DEF QueueMatchesPc, TailNamesLast
<1>4. CASE m.field = "next"
  <2>1. PICK i \in 1 .. Len(queue) : Linking(i) /\ m = LinkPut(queue[i+1], queue[i])
    BY <1>4 DEF TrafficIsExpected
  <2>2. /\ queue[i] \in PE /\ queue[i+1] \in PE /\ i < Len(queue)
        /\ m.dst = queue[i] /\ m.val = queue[i+1] /\ queue[i+1] >= 0
    BY <1>1, <2>1, PutTypes DEF Linking, PE
  <2>3. l_next' = [l_next EXCEPT ![queue[i]] = queue[i+1]] /\ l_locked' = l_locked /\ net' = net \ {m}
    BY <1>4, <2>2
  <2>4. TypeOK' /\ OthersAreBlocked'
    BY <2>2, <2>3 DEF TypeOK, OthersAreBlocked
  <2>5. HeadHasLock' /\ TrafficIsExpected'
    BY <1>2, <1>4, <2>3 DEF HeadHasLock, TrafficIsExpected
  <2>6. \A j \in 1 .. Len(queue) : j # i => queue[j] # queue[i]
    BY <2>1 DEF QueueMatchesPc
  <2>7. \A j \in 1 .. Len(queue) : j # i /\ Linking(j) => LinkPut(queue[j+1], queue[j]) # m
    BY <1>1, <2>1, <2>2, <2>6, PutTypes DEF Linking
  <2>8. pc[queue[i]] # "swap"
    BY <2>2 DEF QueueMatchesPc, Queueing, Holding
  <2>9. NextIsSuccessor'
    BY <1>1, <1>2, <2>1, <2>2, <2>3, <2>6, <2>7, <2>8 DEF NextIsSuccessor, TypeOK
  <2>10. ReleaseHasSuccessor'
    BY <2>2, <2>3 DEF ReleaseHasSuccessor, TypeOK, FREE
  <2> QED
    BY <1>3, <2>4, <2>5, <2>9, <2>10
<1>5. CASE m.field = "locked"
  <2>1. /\ m.val = 0 /\ Len(queue) > 0 /\ m.dst = queue[1] /\ pc[queue[1]] = "wait"
        /\ \A n \in net' : n.field # "locked"
    BY <1>5 DEF TrafficIsExpected
  <2>2. l_next' = l_next /\ l_locked' = [l_locked EXCEPT ![queue[1]] = 0] /\ net' = net \ {m}
    BY <1>5, <2>1
  <2>3. TypeOK' /\ HeadHasLock' /\ ReleaseHasSuccessor'
    BY <1>1, <2>1, <2>2 DEF TypeOK, HeadHasLock, ReleaseHasSuccessor
  <2>4. OthersAreBlocked'
    BY <1>1, <2>1, <2>2 DEF TypeOK, OthersAreBlocked, QueueMatchesPc
  <2>5. \A i \in 1 .. Len(queue) : Linking(i) => LinkPut(queue[i+1], queue[i]) # m
    BY <1>1, <1>5, PutTypes DEF Linking
  <2>6. NextIsSuccessor'
    BY <1>2, <2>2, <2>5 DEF NextIsSuccessor
  <2>7. TrafficIsExpected'
    BY <1>2, <2>1, <2>2 DEF TrafficIsExpected
  <2> QED
    BY <1>3, <2>3, <2>4, <2>6, <2>7
<1>6. CASE m.field = "data"
  <2>1. l_next' = l_next /\ l_locked' = l_locked /\ net' = net \ {m}
    BY <1>6
  <2>2. TypeOK' /\ HeadHasLock' /\ OthersAreBlocked' /\ ReleaseHasSuccessor'
    BY <1>6, <2>1 DEF TypeOK, HeadHasLock, OthersAreBlocked, ReleaseHasSuccessor
  <2>3. \A i \in 1 .. Len(queue) : Linking(i) => LinkPut(queue[i+1], queue[i]) # m
    BY <1>1, <1>6, PutTypes DEF Linking
  <2>4. NextIsSuccessor' /\ TrafficIsExpected'
    BY <1>2, <2>1, <2>3 DEF NextIsSuccessor, TrafficIsExpected
  <2> QED
    BY <1>3, <2>2, <2>4
<1> QED
  BY <1>1, <1>4, <1>5, <1>6 DEF Put

LEMMA LandLowByteStep ==
  ASSUME OwnersAgree, IInv, NEW m \in net, LandLowByte(m)
  PROVE  IInv'
<1> USE DEF IInv, LandLowByte
<1>1. queue \in Seq(PE) /\ \A i \in 1 .. Len(queue) : queue[i] \in PE
  BY DEF TypeOK
<1>2. PICK i \in 1 .. Len(queue) : Linking(i) /\ m = LinkPut(queue[i+1], queue[i])
  BY DEF TrafficIsExpected
<1>3. queue[i] \in PE /\ queue[i+1] \in PE /\ m.dst = queue[i]
  BY <1>1, <1>2, PutTypes DEF Linking
<1>4. \A j : Linking(j)' <=> Linking(j)
  BY DEF Linking
<1>5. TypeOK' /\ QueueMatchesPc' /\ TailNamesLast' /\ HeadHasLock' /\ OthersAreBlocked'
  BY <1>3 DEF TypeOK, QueueMatchesPc, TailNamesLast, HeadHasLock, OthersAreBlocked
<1>6. TrafficIsExpected'
  BY <1>4 DEF TrafficIsExpected
<1>7. ReleaseHasSuccessor'
  BY <1>3 DEF ReleaseHasSuccessor, TypeOK, FREE, Torn
<1>8. pc[queue[i]] # "swap" /\ \A j \in 1 .. Len(queue) : j # i => queue[j] # queue[i]
  BY <1>3 DEF QueueMatchesPc, Queueing, Holding
<1>9. NextIsSuccessor'
  BY <1>1, <1>2, <1>3, <1>4, <1>8 DEF NextIsSuccessor, TypeOK
<1> QED
  BY <1>5, <1>6, <1>7, <1>9

LEMMA HolderIsHead ==
  ASSUME IInv, NEW p \in PE, pc[p] \in Holding
  PROVE  Len(queue) > 0 /\ queue[1] = p
<1>1. Len(queue) \in Nat
  BY DEF IInv, TypeOK
<1>2. PICK i \in 1 .. Len(queue) : queue[i] = p
  BY DEF IInv, QueueMatchesPc
<1>3. i \notin 2 .. Len(queue)
  BY <1>2 DEF IInv, OthersAreBlocked, Queueing, Holding
<1> QED
  BY <1>1, <1>2, <1>3

\* The same for the state after a step.
LEMMA HolderIsHeadNext ==
  ASSUME IInv', NEW p \in PE, pc'[p] \in Holding
  PROVE  Len(queue') > 0 /\ queue'[1] = p
<1>1. Len(queue') \in Nat
  BY DEF IInv, TypeOK
<1>2. PICK i \in 1 .. Len(queue') : queue'[i] = p
  BY DEF IInv, QueueMatchesPc
<1>3. i \notin 2 .. Len(queue')
  BY <1>2 DEF IInv, OthersAreBlocked, Queueing, Holding
<1> QED
  BY <1>1, <1>2, <1>3

LEMMA CSwapStep ==
  ASSUME OwnersAgree, IInv, NEW p \in PE, CSwap(p)
  PROVE  IInv'
<1> USE DEF IInv
<1> DEFINE o == LockOwner(p)
           n == Len(queue)
<1>1. UNCHANGED <<ret, tmp, l_next, l_locked, net>> /\ pc[p] = "cswap"
  BY DEF CSwap
<1>2. /\ queue \in Seq(PE) /\ n \in Nat /\ n >= 1 /\ queue[1] = p
      /\ \A i \in 1 .. n : queue[i] \in PE
      /\ o \in PE /\ tail[o] = Claim(queue[n])
  <2>1. Len(queue) > 0 /\ queue[1] = p
    BY <1>1, HolderIsHead DEF Holding
  <2>2. queue \in Seq(PE) /\ n \in Nat /\ n >= 1 /\ \A i \in 1 .. n : queue[i] \in PE
    BY <2>1 DEF TypeOK
  <2> QED
    BY <2>1, <2>2, OwnerIsPE DEF TailNamesLast
<1>3. CASE n = 1
  <2>a. tail[o] = Claim(p) /\ tail[o].next = p /\ Tail(queue) = <<>>
    <3>1. Tail(queue) \in Seq(PE) /\ Len(Tail(queue)) = 0
      <4>1. queue # <<>>
        BY <1>3, EmptySeq
      <4>2. Tail(queue) \in Seq(PE) /\ Len(Tail(queue)) = Len(queue) - 1
        BY <1>2, <4>1, HeadTailProperties
      <4> QED
        BY <1>3, <4>2
    <3>2. Tail(queue) = <<>>
      BY <3>1, EmptySeq
    <3> QED
      BY <1>2, <1>3, <3>2, WordTypes
  <2>1. tail' = [tail EXCEPT ![o] = Reset] /\ queue' = <<>> /\ pc' = [pc EXCEPT ![p] = "idle"]
    BY <2>a DEF CSwap, Goto
  <2>2. pc'[p] = "idle" /\ \A q \in PE : q # p => pc'[q] = pc[q]
    BY <2>1 DEF TypeOK
  <2>3. TypeOK'
    BY <1>1, <1>2, <2>1, WordTypes DEF TypeOK
  <2>4. QueueMatchesPc'
    BY <1>2, <1>3, <1>1, <2>1, <2>2 DEF QueueMatchesPc, Queueing, Holding
  <2>5. TailNamesLast'
    BY <1>2, <2>1, WordTypes DEF TailNamesLast, TypeOK, OwnersAgree
  <2>6. HeadHasLock' /\ OthersAreBlocked' /\ ReleaseHasSuccessor'
    BY <1>1, <1>2, <2>1, <2>2, HolderIsHead DEF HeadHasLock, OthersAreBlocked, ReleaseHasSuccessor, Holding
  <2>8. NextIsSuccessor'
    BY <1>1, <2>1, <2>2 DEF NextIsSuccessor
  <2>7. TrafficIsExpected'
    BY <1>2, <1>3, <1>1, <2>1, <2>2 DEF TrafficIsExpected, Linking, TypeOK, Put
  <2> QED
    BY <2>3, <2>4, <2>5, <2>6, <2>7, <2>8
<1>4. CASE n > 1
  <2>1. queue[n] # p /\ tail[o].next # p /\ tail[o] # Claim(p)
    BY <1>2, <1>4, WordTypes DEF QueueMatchesPc
  <2>2. tail' = tail /\ queue' = queue /\ pc' = [pc EXCEPT ![p] = "await"]
    BY <2>1 DEF CSwap, Goto
  <2>3. pc'[p] = "await" /\ \A q \in PE : q # p => pc'[q] = pc[q]
    BY <2>2 DEF TypeOK
  <2>4. TypeOK' /\ QueueMatchesPc' /\ TailNamesLast'
    BY <1>1, <2>2, <2>3 DEF TypeOK, QueueMatchesPc, TailNamesLast, Queueing, Holding
  <2>5. HeadHasLock'
    BY <1>1, <1>2, <2>2, <2>3 DEF HeadHasLock, Holding
  <2>6. OthersAreBlocked'
    BY <1>1, <1>2, <2>2, <2>3 DEF OthersAreBlocked, QueueMatchesPc
  <2>7. \A i \in 1 .. n : Linking(i)' <=> Linking(i)
    BY <1>1, <1>2, <2>2, <2>3 DEF Linking
  <2>8. NextIsSuccessor'
    BY <1>1, <2>2, <2>3, <2>7 DEF NextIsSuccessor
  <2>9. TrafficIsExpected'
    BY <1>1, <1>2, <2>2, <2>3, <2>7 DEF TrafficIsExpected, TypeOK, Put
  <2>10. ReleaseHasSuccessor'
    BY <1>1, <1>4, <2>2, <2>3 DEF ReleaseHasSuccessor
  <2> QED
    BY <2>4, <2>5, <2>6, <2>8, <2>9, <2>10
<1>5. n = 1 \/ n > 1
  <2>1. n \in Nat /\ n >= 1
    BY <1>2
  <2>2. \A k \in Nat : k >= 1 => k = 1 \/ k > 1
    OBVIOUS
  <2> QED
    BY <2>1, <2>2
<1> QED
  BY <1>3, <1>4, <1>5

LEMMA HandoffStep ==
  ASSUME OwnersAgree, IInv, NEW p \in PE, Handoff(p)
  PROVE  IInv'
<1> USE DEF IInv, Handoff, Send, Goto
<1> DEFINE n == Len(queue)
           s == queue[2]
           U == UnlockPut(p, s)
<1>1. /\ queue \in Seq(PE) /\ n \in Nat /\ n >= 1 /\ queue[1] = p
      /\ \A i \in 1 .. n : queue[i] \in PE
  BY HolderIsHead DEF TypeOK, Holding
<1>2. Linking(1) /\ LinkPut(s, p) \notin net /\ l_next[p] = s
  BY <1>1 DEF NextIsSuccessor, FREE, Torn
<1>3. n >= 2 /\ s \in PE /\ s # p /\ pc[s] = "wait" /\ l_locked[s] = 1
  BY <1>1, <1>2 DEF Linking, QueueMatchesPc, OthersAreBlocked
<1>4. /\ queue' \in Seq(PE) /\ Len(queue') = n - 1
      /\ \A i \in 1 .. n - 1 : queue'[i] = queue[i+1] /\ queue[i+1] # p
      /\ queue'[1] = s /\ n - 1 > 0
  <2>1. queue' = Tail(queue) /\ n > 1
    BY <1>3
  <2>2. Len(queue') = n - 1 /\ queue' \in Seq(PE) /\ \A i \in 1 .. n - 1 : queue'[i] = queue[i+1]
    BY <1>1, <2>1
  <2>3. \A i \in 1 .. n - 1 : queue[i+1] # p
    BY <1>1 DEF QueueMatchesPc
  <2> QED
    BY <1>3, <2>2, <2>3
<1>5. /\ net' = net \cup {U} /\ U \in Put /\ U.src = p /\ U.dst = s /\ U.val = 0
      /\ U.field = "locked"
  BY <1>2, <1>3, PutTypes
<1>6. pc'[p] = "idle" /\ \A q \in PE : q # p => pc'[q] = pc[q]
  BY DEF TypeOK
<1>7. \A m \in net : m.field # "locked"
  BY <1>1 DEF TrafficIsExpected
<1>8. TypeOK'
  BY <1>4, <1>5 DEF TypeOK
<1>9. QueueMatchesPc'
  <2>1. \A q \in PE : q # p => ((\E i \in 1 .. n : queue[i] = q) <=> (\E i \in 1 .. n - 1 : queue'[i] = q))
    <3> SUFFICES ASSUME NEW q \in PE, q # p
                 PROVE  (\E i \in 1 .. n : queue[i] = q) <=> (\E i \in 1 .. n - 1 : queue'[i] = q)
      OBVIOUS
    <3>1. ASSUME NEW i \in 1 .. n, queue[i] = q
          PROVE  \E j \in 1 .. n - 1 : queue'[j] = q
      <4>1. i - 1 \in 1 .. n - 1 /\ queue'[i-1] = queue[i]
        BY <1>1, <1>4, <3>1
      <4> QED
        BY <3>1, <4>1
    <3> QED
      BY <1>1, <1>4, <3>1
  <2>2. \A q \in PE : pc'[q] \in Queueing \cup Holding <=> \E i \in 1 .. n - 1 : queue'[i] = q
    BY <1>4, <1>6, <2>1 DEF QueueMatchesPc, Queueing, Holding
  <2>3. \A i, j \in 1 .. n - 1 : queue'[i] = queue'[j] => i = j
    BY <1>1, <1>4 DEF QueueMatchesPc
  <2> QED
    BY <1>4, <2>2, <2>3 DEF QueueMatchesPc, Queueing, Holding
<1>10. TailNamesLast'
  BY <1>1, <1>3, <1>4 DEF TailNamesLast
<1>11. HeadHasLock'
  BY <1>3, <1>4, <1>5, <1>6 DEF HeadHasLock
<1>12. OthersAreBlocked'
  BY <1>1, <1>4, <1>6 DEF OthersAreBlocked
<1>13. \A i \in 1 .. n - 1 : Linking(i)' <=> Linking(i+1)
  BY <1>1, <1>4, <1>6 DEF Linking
<1>14. NextIsSuccessor'
  <2>1. \A i \in 1 .. n - 1 : Linking(i)' => LinkPut(queue[i+2], queue[i+1]) # U /\ i + 2 \in 1 .. n
    BY <1>1, <1>4, <1>5, PutTypes DEF Linking
  <2> QED
    BY <1>1, <1>4, <1>5, <1>6, <1>13, <2>1 DEF NextIsSuccessor
<1>15. TrafficIsExpected'
  <2> SUFFICES ASSUME NEW m \in net'
               PROVE  TrafficIsExpected!(m)'
    BY DEF TrafficIsExpected
  <2>1. CASE m = U
    BY <1>3, <1>4, <1>5, <1>6, <1>7, <2>1
  <2>2. CASE m \in net
    <3>1. m.field = "data" => pc'[m.src] \in {"cs", "quiet"}
      BY <1>6, <2>2 DEF TrafficIsExpected, TypeOK, Put
    <3>2. ASSUME m.field = "next"
          PROVE  \E i \in 1 .. n - 1 : Linking(i)' /\ m = LinkPut(queue'[i+1], queue'[i])
      <4>1. PICK i \in 1 .. n : Linking(i) /\ m = LinkPut(queue[i+1], queue[i])
        BY <2>2, <3>2 DEF TrafficIsExpected
      <4>2. i - 1 \in 1 .. n - 1 /\ i < n
        BY <1>1, <1>2, <2>2, <4>1 DEF Linking
      <4>3. Linking(i-1)' /\ m = LinkPut(queue'[(i-1)+1], queue'[i-1])
        BY <1>1, <1>4, <1>13, <4>1, <4>2
      <4> QED
        BY <4>2, <4>3
    <3> QED
      BY <1>4, <1>5, <1>7, <2>2, <3>1, <3>2
  <2> QED
    BY <1>5, <2>1, <2>2
<1>16. ReleaseHasSuccessor'
  <2>1. \A q \in PE : pc'[q] # "await" /\ pc'[q] # "handoff"
    BY <1>1, <1>6, HolderIsHead DEF Holding
  <2> QED
    BY <2>1 DEF ReleaseHasSuccessor
<1> QED
  BY <1>8, <1>9, <1>10, <1>11, <1>12, <1>14, <1>15, <1>16

LEMMA NextIInv == OwnersAgree /\ IInv /\ [Next]_vars => IInv'
<1> SUFFICES ASSUME OwnersAgree, IInv, [Next]_vars
             PROVE  IInv'
  OBVIOUS
<1>1. CASE UNCHANGED vars
  BY <1>1 DEF vars, IInv, TypeOK, QueueMatchesPc, TailNamesLast, HeadHasLock, OthersAreBlocked,
              NextIsSuccessor, Linking, TrafficIsExpected, ReleaseHasSuccessor
<1>2. ASSUME NEW p \in PE, LibraryStep(p)
      PROVE  IInv'
  BY <1>2, PrepareStep, SwapStep, UncontendedStep, MarkLockedStep, LinkStep, GrantedStep,
     ReleaseStep, CSwapStep, HandoffStep DEF LibraryStep
<1>3. ASSUME NEW p \in PE, UserStep(p)
      PROVE  IInv'
  BY <1>3, UserCallStep, TestLockBusyStep, WriteStep DEF UserStep
<1>4. ASSUME NEW m \in net, Land(m) \/ LandLowByte(m)
      PROVE  IInv'
  BY <1>4, LandStep, LandLowByteStep
<1> QED
  BY <1>1, <1>2, <1>3, <1>4 DEF Next

\* The queue, the tail, the list nodes and the puts in flight stay consistent.
THEOREM LockInvariant == OwnersAgree => (Spec => []IInv)
<1> SUFFICES ASSUME OwnersAgree
             PROVE  Spec => []IInv
  OBVIOUS
<1>1. IInv /\ [Next]_vars => IInv'
  BY NextIInv
<1> QED
  BY <1>1, InitIInv, PTL DEF Spec

\* Mutual exclusion of shmem_set_lock / shmem_test_lock / shmem_clear_lock.
THEOREM LockMutualExclusion == OwnersAgree => (Spec => []MutualExclusion)
<1>1. IInv => MutualExclusion
  BY HolderIsHead DEF MutualExclusion
<1> QED
  BY <1>1, LockInvariant, PTL

\* Whoever holds the lock sees all the puts that earlier holders issued.
THEOREM LockPublishesWrites == OwnersAgree => (Spec => []HolderSeesAllWrites)
<1>1. IInv => HolderSeesAllWrites
  <2> SUFFICES ASSUME IInv, NEW p \in PE, pc[p] \in Holding, NEW m \in net, m.field = "data"
               PROVE  m.src = p
    BY DEF HolderSeesAllWrites
  <2>1. m.src \in PE /\ pc[m.src] \in Holding
    BY DEF IInv, TypeOK, Put, TrafficIsExpected, Holding
  <2> QED
    BY <2>1, HolderIsHead
<1> QED
  BY <1>1, LockInvariant, PTL

-----------------------------------------------------------------------------
LEMMA StepServedInOrder == OwnersAgree /\ IInv /\ [Next]_vars => [Fifo!Next]_(Fifo!vars)
<1> DEFINE In == {p \in PE : pc[p] \in Holding}
<1> SUFFICES ASSUME OwnersAgree, IInv, [Next]_vars
             PROVE  [Fifo!Next]_(Fifo!vars)
  OBVIOUS
<1> USE DEF Goto
<1>1. TypeOK /\ TypeOK'
  BY NextIInv DEF IInv
<1>2. ASSUME In' = In, queue' = queue
      PROVE  [Fifo!Next]_(Fifo!vars)
  BY <1>2 DEF Fifo!vars
<1>3. CASE UNCHANGED vars
  BY <1>2, <1>3 DEF vars
<1>4. ASSUME NEW m \in net, Land(m) \/ LandLowByte(m)
      PROVE  [Fifo!Next]_(Fifo!vars)
  BY <1>2, <1>4 DEF Land, LandLowByte
<1>5. ASSUME NEW p \in PE, UserStep(p)
      PROVE  [Fifo!Next]_(Fifo!vars)
  <2>1. In' = In /\ queue' = queue
    BY <1>1, <1>5 DEF UserStep, SetLock, TestLockFree, TestLockBusy, Write, ClearLock, TypeOK, Holding
  <2> QED
    BY <1>2, <2>1
<1>6. ASSUME NEW p \in PE, Prepare(p) \/ MarkLocked(p) \/ Link(p) \/ QuietDone(p) \/ CheckNext(p) \/ AwaitNext(p)
      PROVE  [Fifo!Next]_(Fifo!vars)
  <2>1. In' = In /\ queue' = queue
    BY <1>1, <1>6 DEF Prepare, MarkLocked, Link, QuietDone, CheckNext, AwaitNext, TypeOK, Holding
  <2> QED
    BY <1>2, <2>1
<1>7. ASSUME NEW p \in PE, Swap(p)
      PROVE  Fifo!Request(p)
  <2>1. In' = In /\ queue' = Append(queue, p)
    BY <1>1, <1>7 DEF Swap, TypeOK, Holding
  <2>2. \A i \in 1 .. Len(queue) : queue[i] # p
    BY <1>7 DEF Swap, IInv, QueueMatchesPc, Queueing, Holding
  <2> QED
    BY <2>1, <2>2 DEF Fifo!Request
<1>8. ASSUME NEW p \in PE, Uncontended(p) \/ Granted(p)
      PROVE  Fifo!Enter(p)
  <2>1. pc[p] \notin Holding /\ pc' = [pc EXCEPT ![p] = "cs"] /\ queue' = queue
    BY <1>8 DEF Uncontended, Granted, Enter, Holding
  <2>2. Len(queue) > 0 /\ queue[1] = p
    <3>1. pc'[p] \in Holding
      BY <1>1, <2>1 DEF TypeOK, Holding
    <3>2. IInv'
      BY NextIInv
    <3>3. Len(queue') > 0 /\ queue'[1] = p
      BY <3>1, <3>2, HolderIsHeadNext
    <3> QED
      BY <2>1, <3>3
  <2>3. In = {}
    BY <2>1, <2>2, HolderIsHead
  <2>4. In' = {p}
    BY <1>1, <2>1, <2>3 DEF TypeOK, Holding
  <2>5. p = Head(queue)
    BY <1>1, <2>2 DEF TypeOK
  <2> QED
    BY <2>1, <2>2, <2>3, <2>4, <2>5 DEF Fifo!Enter
<1>9. ASSUME NEW p \in PE, pc[p] \in Holding, pc' = [pc EXCEPT ![p] = "idle"], queue' = Tail(queue)
      PROVE  Fifo!Leave(p)
  <2>1. In = {p}
    BY <1>9, HolderIsHead
  <2>2. In' = {}
    BY <1>1, <1>9, <2>1 DEF TypeOK, Holding
  <2> QED
    BY <1>9, <2>1, <2>2 DEF Fifo!Leave
<1>10. ASSUME NEW p \in PE, CSwap(p)
       PROVE  [Fifo!Next]_(Fifo!vars)
  <2>1. pc[p] = "cswap" /\ pc[p] \in Holding
    BY <1>10 DEF CSwap, Holding
  <2>2. CASE tail[LockOwner(p)].next = p
    BY <1>9, <1>10, <2>1, <2>2 DEF CSwap, Fifo!Next
  <2>3. CASE tail[LockOwner(p)].next # p
    <3>1. In' = In /\ queue' = queue
      BY <1>1, <1>10, <2>1, <2>3 DEF CSwap, TypeOK, Holding
    <3> QED
      BY <1>2, <3>1
  <2> QED
    BY <2>2, <2>3
<1>11. ASSUME NEW p \in PE, Handoff(p)
       PROVE  Fifo!Leave(p)
  BY <1>9, <1>11 DEF Handoff, Holding
<1> QED
  BY <1>3, <1>4, <1>5, <1>6, <1>7, <1>8, <1>10, <1>11 DEF Next, LibraryStep, Fifo!Next

\* The distributed list implements the first-come-first-served lock.
THEOREM LockImplementsFifo == OwnersAgree => (Spec => ServedInOrder)
<1> SUFFICES ASSUME OwnersAgree
             PROVE  Spec => ServedInOrder
  OBVIOUS
<1>1. Init => Fifo!Init
  BY DEF Init, Fifo!Init, Holding
<1>2. IInv /\ [Next]_vars => [Fifo!Next]_(Fifo!vars)
  BY StepServedInOrder
<1> QED
  BY <1>1, <1>2, LockInvariant, PTL DEF Spec, Fifo!Spec, ServedInOrder

=============================================================================
