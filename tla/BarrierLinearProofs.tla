------------------------ MODULE BarrierLinearProofs -------------------------
(***************************************************************************)
(* Proofs about BarrierLinear, for every active set and any number of      *)
(* calls: the inductive invariant, the safety invariants it implies and    *)
(* the refinement of SyncBarrier.                                          *)
(***************************************************************************)
EXTENDS BarrierLinear, FiniteSetTheorems, TLAPS

\* Multiples of the stride are apart by at least the stride.
LEMMA MultiplesAreApart ==
  ASSUME NEW m \in Int, NEW n \in Int, NEW s \in Nat \ {0}, m < n
  PROVE  m * s + s <= n * s
<1>1. \A k \in Nat : k * s \in Nat
  OBVIOUS
<1>2. (n - m - 1) * s \in Nat
  BY <1>1, n - m - 1 \in Nat
<1>3. (n - m - 1) * s = n * s - m * s - s
  OBVIOUS
<1> QED
  BY <1>2, <1>3

\* The active set is laid out upwards from PE_start, with no member between two
\* neighbours, and the loop over it stops at End, past them all.
LEMMA MemberFacts ==
  /\ Member \subseteq Nat
  /\ PE_start \in Member
  /\ End \in Nat
  /\ \A p \in Member : p < End /\ PE_start <= p
  /\ \A p \in Member : p + step \in Member \cup {End}
  /\ \A p, q \in Member : q < p + step <=> q <= p
<1> DEFINE M(n) == PE_start + n * step
<1> USE ActiveSetAssumption
<1>1. /\ PE_start \in Nat /\ step \in Nat \ {0} /\ PE_size \in Nat \ {0}
      /\ \A n \in Nat : n * step \in Nat
  OBVIOUS
<1>2. \A m, n \in Nat : m < n => M(m) + step <= M(n)
  <2> SUFFICES ASSUME NEW m \in Nat, NEW n \in Nat, m < n
               PROVE  M(m) + step <= M(n)
    OBVIOUS
  <2>1. m * step + step <= n * step
    BY MultiplesAreApart
  <2> QED
    BY <1>1, <2>1
<1>3. \A n \in Nat : M(n) \in Nat /\ M(n + 1) = M(n) + step
  OBVIOUS
<1>4. \A p \in Member : \E n \in 0 .. PE_size - 1 : p = M(n)
  BY DEF Member
<1>5. M(0) = PE_start /\ End = M(PE_size)
  BY DEF End
<1>6. Member \subseteq Nat /\ PE_start \in Member /\ End \in Nat
  BY <1>1, <1>3, <1>5, 0 \in 0 .. PE_size - 1 DEF Member
<1>7. ASSUME NEW p \in Member
      PROVE  /\ p < End /\ PE_start <= p
             /\ p + step \in Member \cup {End}
  <2>1. PICK n \in 0 .. PE_size - 1 : p = M(n)
    BY <1>4
  <2>2. p < End
    BY <1>1, <1>2, <1>3, <1>5, <2>1, n < PE_size
  <2>3. PE_start <= p
    BY <1>1, <2>1
  <2>4. p + step = M(n + 1)
    BY <1>3, <2>1
  <2>5. CASE n + 1 = PE_size
    BY <1>5, <2>2, <2>3, <2>4, <2>5
  <2>6. CASE n + 1 # PE_size
    <3>1. n + 1 \in 0 .. PE_size - 1
      BY <1>1, <2>6
    <3>2. M(n + 1) \in Member
      BY <3>1 DEF Member
    <3> QED
      BY <2>2, <2>3, <2>4, <3>2
  <2> QED
    BY <2>5, <2>6
<1>8. ASSUME NEW p \in Member, NEW q \in Member
      PROVE  q < p + step <=> q <= p
  <2>1. PICK m \in 0 .. PE_size - 1 : p = M(m)
    BY <1>4
  <2>2. PICK n \in 0 .. PE_size - 1 : q = M(n)
    BY <1>4
  <2>3. m < n => p + step <= q
    BY <1>1, <1>2, <2>1, <2>2
  <2>4. n < m => q + step <= p
    BY <1>1, <1>2, <2>1, <2>2
  <2>5. m = n => p = q
    BY <2>1, <2>2
  <2>6. p \in Nat /\ q \in Nat
    BY <1>6
  <2> QED
    BY <1>1, <2>3, <2>4, <2>5, <2>6
<1> QED
  BY <1>6, <1>7, <1>8

\* There are PE_size members.
LEMMA MemberCardinality ==
  IsFiniteSet(Member) /\ Cardinality(Member) = PE_size
<1> DEFINE f == [n \in 0 .. PE_size - 1 |-> PE_start + n * step]
<1> USE ActiveSetAssumption
<1>1. f \in [0 .. PE_size - 1 -> Member]
  BY DEF Member
<1>2. \A m, n \in 0 .. PE_size - 1 : f[m] = f[n] => m = n
  <2> SUFFICES ASSUME NEW m \in 0 .. PE_size - 1, NEW n \in 0 .. PE_size - 1, m < n
               PROVE  f[m] # f[n]
    OBVIOUS
  <2>1. m * step + step <= n * step
    BY MultiplesAreApart
  <2>2. m * step \in Int /\ n * step \in Int
    OBVIOUS
  <2> QED
    BY <2>1, <2>2
<1>3. \A p \in Member : \E n \in 0 .. PE_size - 1 : f[n] = p
  BY DEF Member
<1>4. f \in Bijection(0 .. PE_size - 1, Member)
  BY <1>1, <1>2, <1>3 DEF Bijection, Injection, Surjection, IsInjective
<1>5. ExistsBijection(0 .. PE_size - 1, Member)
  BY <1>4 DEF ExistsBijection
<1>6. IsFiniteSet(0 .. PE_size - 1) /\ Cardinality(0 .. PE_size - 1) = PE_size
  BY FS_Interval
<1> QED
  BY <1>5, <1>6, FS_Bijection


-----------------------------------------------------------------------------
LEMMA PhaseType ==
  ASSUME TypeOK, NEW p \in Member
  PROVE  /\ done[p] \in Nat /\ round[p] \in {0, 1}
         /\ Phase(p) \in Nat /\ Phase(p) = 2 * done[p] + round[p]
BY DEF TypeOK, Rounds, Phase

LEMMA InitIInv == Init => IInv
<1> SUFFICES ASSUME Init PROVE IInv
  OBVIOUS
<1> USE MemberFacts, ActiveSetAssumption
<1>1. TypeOK
  BY DEF Init, TypeOK, Rounds, SYNC, Free
<1>2. LoopsMatchPc
  BY DEF Init, LoopsMatchPc
<1>3. \A p \in Member : Phase(p) = 0 /\ round[p] = 0 /\ thatpe[p] = PE_start
  BY DEF Init, Phase
<1>4. \A p, q \in Member : ~Sent(p, q)
  BY <1>3 DEF Init, Sent
<1>5. CounterCounts
  <2> SUFFICES ASSUME NEW p \in Member, NEW r \in Rounds
               PROVE  pSync[p][r] =
                        SYNC + Cardinality({q \in Member \ {p} : Contributed(q, p, Counting(p, r))})
    BY DEF CounterCounts
  <2>1. Counting(p, r) \in {0, 1}
    BY <1>3 DEF Counting
  <2>2. \A q \in Member : ~Contributed(q, p, Counting(p, r))
    BY <1>3, <1>4, <2>1 DEF Contributed
  <2>3. {q \in Member \ {p} : Contributed(q, p, Counting(p, r))} = {}
    BY <2>2
  <2>4. Cardinality({q \in Member \ {p} : Contributed(q, p, Counting(p, r))}) = 0
    BY <2>3, FS_EmptySet
  <2>5. pSync[p][r] = SYNC
    BY DEF Init
  <2> QED
    BY <2>4, <2>5 DEF SYNC
<1>6. PhasesAreClose
  BY <1>3 DEF PhasesAreClose
<1>7. ResetHasAll /\ LockHolderIsCurrent
  BY DEF Init, ResetHasAll, LockHolderIsCurrent
<1>8. FlightIsRecent
  BY DEF Init, FlightIsRecent
<1> QED
  BY <1>1, <1>2, <1>5, <1>6, <1>7, <1>8 DEF IInv

\* Every action keeps the types and the position in the loops.
LEMMA TypeStep ==
  ASSUME IInv, [Next]_vars
  PROVE  TypeOK'
<1> USE MemberFacts, ActiveSetAssumption DEF IInv
<1>1. CASE UNCHANGED vars
  BY <1>1 DEF TypeOK, vars
<1>2. ASSUME NEW p \in Member, LibraryStep(p)
      PROVE  TypeOK'
  <2> USE DEF TypeOK, Goto
  <2>1. CASE Flush(p)
    BY <2>1 DEF Flush
  <2>2. CASE SkipSelf(p)
    BY <2>2 DEF SkipSelf
  <2>3. CASE IncLoad(p)
    <3>0. thatpe[p] \in Member /\ round[p] \in Rounds
      BY <2>3 DEF IncLoad
    <3>1. pSync[thatpe[p]][round[p]] \in Int
      BY <3>0
    <3>2. [src |-> p, old |-> pSync[thatpe[p]][round[p]]] \in [src : Member \cup {SYNC}, old : Int]
      BY <3>1
    <3> QED
      BY <2>3, <3>2 DEF IncLoad
  <2>4. CASE IncStore(p)
    <3>1. thatpe[p] \in Member
      BY <2>4 DEF IncStore, LoopsMatchPc
    <3>2. amo[thatpe[p]].old + 1 \in Int
      <4>1. amo[thatpe[p]] \in [src : Member \cup {SYNC}, old : Int]
        BY <3>1
      <4> QED
        BY <4>1
    <3>3. pSync' \in [Member -> [Rounds -> Int]]
      BY <2>4, <3>1, <3>2 DEF IncStore
    <3>4. Free \in [src : Member \cup {SYNC}, old : Int]
      BY DEF Free, SYNC
    <3> QED
      BY <2>4, <3>3, <3>4 DEF IncStore
  <2>5. CASE IncReply(p)
    <3>1. thatpe[p] \in Member
      BY <2>5 DEF IncReply, LoopsMatchPc
    <3> QED
      BY <2>5, <3>1 DEF IncReply
  <2>6. CASE SentAll(p)
    BY <2>6 DEF SentAll
  <2>7. CASE WaitUntil(p)
    BY <2>7 DEF WaitUntil
  <2>8. CASE ResetSync(p)
    <3>1. pSync' \in [Member -> [Rounds -> Int]]
      BY <2>8 DEF ResetSync, SYNC
    <3>2. /\ pc' \in [Member -> {"outside", "flush", "send", "store", "reply", "wait", "reset"}]
          /\ round' \in [Member -> Rounds]
          /\ done' \in [Member -> Nat]
      BY <2>8 DEF ResetSync, NextRound, LastRound, Rounds
    <3> QED
      BY <2>8, <3>1, <3>2 DEF ResetSync
  <2> QED
    BY <1>2, <2>1, <2>2, <2>3, <2>4, <2>5, <2>6, <2>7, <2>8 DEF LibraryStep
<1>3. ASSUME NEW p \in Member, UserStep(p)
      PROVE  TypeOK'
  <2>1. CASE Call(p)
    BY <2>1 DEF Call, TypeOK, Goto
  <2>2. CASE UserPut(p)
    <3>1. \A n \in 1 .. MaxPuts : [src |-> p, epoch |-> done[p], id |-> n] \in
                                    [src : Member, epoch : Nat, id : 1 .. MaxPuts]
      BY DEF TypeOK
    <3>2. flight' \subseteq [src : Member, epoch : Nat, id : 1 .. MaxPuts]
      BY <2>2, <3>1 DEF UserPut, TypeOK
    <3> QED
      BY <2>2, <3>2 DEF UserPut, TypeOK
  <2> QED
    BY <1>3, <2>1, <2>2 DEF UserStep
<1>4. ASSUME NEW p \in Member, LandFrom(p)
      PROVE  TypeOK'
  BY <1>4 DEF LandFrom, Land, TypeOK
<1> QED
  BY <1>1, <1>2, <1>3, <1>4 DEF Next

LEMMA LoopsStep ==
  ASSUME IInv, [Next]_vars
  PROVE  LoopsMatchPc'
<1> USE DEF IInv, LoopsMatchPc
<1>0. End \notin Member
  BY MemberFacts
<1>1. CASE UNCHANGED vars
  BY <1>1 DEF vars
<1>2. ASSUME NEW p \in Member, LibraryStep(p)
      PROVE  LoopsMatchPc'
  <2> USE DEF TypeOK, Goto
  <2>1. CASE Flush(p)
    BY <2>1 DEF Flush
  <2>2. CASE SkipSelf(p)
    BY <2>2 DEF SkipSelf
  <2>3. CASE IncLoad(p)
    BY <2>3 DEF IncLoad
  <2>4. CASE IncStore(p)
    BY <2>4 DEF IncStore
  <2>5. CASE IncReply(p)
    BY <2>5 DEF IncReply
  <2>6. CASE SentAll(p)
    BY <2>6 DEF SentAll
  <2>7. CASE WaitUntil(p)
    BY <2>7 DEF WaitUntil
  <2>8. CASE ResetSync(p)
    BY <2>8 DEF ResetSync, NextRound, LastRound
  <2> QED
    BY <1>2, <2>1, <2>2, <2>3, <2>4, <2>5, <2>6, <2>7, <2>8 DEF LibraryStep
<1>3. ASSUME NEW p \in Member, UserStep(p)
      PROVE  LoopsMatchPc'
  BY <1>3 DEF UserStep, Call, UserPut, TypeOK, Goto
<1>4. ASSUME NEW p \in Member, LandFrom(p)
      PROVE  LoopsMatchPc'
  BY <1>4 DEF LandFrom, Land
<1> QED
  BY <1>1, <1>2, <1>3, <1>4 DEF Next

-----------------------------------------------------------------------------
\* Most steps change neither the counters nor who has contributed to them.
Stable ==
  /\ done' = done /\ round' = round /\ pSync' = pSync
  /\ \A p, q \in Member : p # q => (Sent(p, q)' <=> Sent(p, q))

LEMMA StableSteps ==
  ASSUME IInv, [Next]_vars, \A p \in Member : ~IncStore(p) /\ ~ResetSync(p)
  PROVE  Stable
<1> USE DEF IInv
<1>1. CASE UNCHANGED vars
  BY <1>1 DEF vars, Stable, Sent
<1>2. ASSUME NEW p \in Member, LibraryStep(p)
      PROVE  Stable
  <2> USE DEF Stable, Goto
  <2>1. CASE Flush(p)
    BY <2>1 DEF Flush, Sent, TypeOK
  <2>2. CASE SkipSelf(p)
    <3>1. \A q \in Member : q # p => (thatpe'[p] > q <=> thatpe[p] > q) /\ thatpe'[p] # p
      BY <2>2, MemberFacts, ActiveSetAssumption DEF SkipSelf, TypeOK
    <3>2. \A q \in Member : q # p => thatpe'[q] = thatpe[q]
      BY <2>2 DEF SkipSelf, TypeOK
    <3>3. pc' = pc /\ pc[p] = "send" /\ done' = done /\ round' = round /\ pSync' = pSync
      BY <2>2 DEF SkipSelf
    <3> QED
      BY <3>1, <3>2, <3>3 DEF Sent
  <2>3. CASE IncLoad(p)
    BY <2>3 DEF IncLoad, Sent, TypeOK
  <2>5. CASE IncReply(p)
    <3>1. thatpe[p] \in Member
      BY <2>5 DEF IncReply, LoopsMatchPc
    <3>2. thatpe'[p] = thatpe[p] + step /\ pc'[p] = "send" /\ pc[p] = "reply"
      BY <2>5 DEF IncReply, TypeOK
    <3>3. \A q \in Member : q < thatpe[p] + step <=> q <= thatpe[p]
      BY <3>1, MemberFacts
    <3>4. ASSUME NEW q \in Member
          PROVE  Sent(p, q)' <=> Sent(p, q)
      <4>1. q \in Nat /\ thatpe[p] \in Nat /\ step \in Nat \ {0}
        BY <3>1, MemberFacts, ActiveSetAssumption
      <4>2. Sent(p, q) <=> q <= thatpe[p]
        BY <3>2, <4>1 DEF Sent
      <4>3. Sent(p, q)' <=> q < thatpe[p] + step
        BY <3>2, <4>1 DEF Sent
      <4> QED
        BY <3>3, <4>2, <4>3
    <3>5. \A q \in Member : q # p => thatpe'[q] = thatpe[q] /\ pc'[q] = pc[q]
      BY <2>5 DEF IncReply, TypeOK
    <3>6. done' = done /\ round' = round /\ pSync' = pSync
      BY <2>5 DEF IncReply
    <3> QED
      BY <3>4, <3>5, <3>6 DEF Sent
  <2>6. CASE SentAll(p)
    BY <2>6 DEF SentAll, Sent, TypeOK
  <2>7. CASE WaitUntil(p)
    BY <2>7 DEF WaitUntil, Sent, TypeOK
  <2> QED
    BY <1>2, <2>1, <2>2, <2>3, <2>5, <2>6, <2>7 DEF LibraryStep
<1>3. ASSUME NEW p \in Member, UserStep(p)
      PROVE  Stable
  BY <1>3 DEF UserStep, Call, UserPut, TypeOK, Goto, Stable, Sent
<1>4. ASSUME NEW p \in Member, LandFrom(p)
      PROVE  Stable
  BY <1>4 DEF LandFrom, Land, Stable, Sent
<1> QED
  BY <1>1, <1>2, <1>3, <1>4 DEF Next

\* An increment adds one contribution, of p to the counter of its target.
LEMMA StoreEffect ==
  ASSUME IInv, NEW p \in Member, IncStore(p)
  PROVE  /\ thatpe[p] \in Member \ {p}
         /\ done' = done /\ round' = round
         /\ ~Sent(p, thatpe[p])
         /\ \A q, t \in Member : Sent(q, t)' <=> (Sent(q, t) \/ (q = p /\ t = thatpe[p]))
         /\ pSync'[thatpe[p]][round[p]] = pSync[thatpe[p]][round[p]] + 1
         /\ \A t \in Member, r \in Rounds :
              t # thatpe[p] \/ r # round[p] => pSync'[t][r] = pSync[t][r]
<1> USE DEF IInv
<1>1. thatpe[p] \in Member \ {p} /\ pc[p] = "store" /\ round[p] \in Rounds
  BY DEF IncStore, LoopsMatchPc, TypeOK
<1>2. done' = done /\ round' = round /\ thatpe' = thatpe
  BY DEF IncStore
<1>3. pc'[p] = "reply" /\ \A q \in Member : q # p => pc'[q] = pc[q]
  BY DEF IncStore, Goto, TypeOK
<1>4. ~Sent(p, thatpe[p])
  <2>1. thatpe[p] \in Nat
    BY <1>1, MemberFacts
  <2> QED
    BY <1>1, <2>1 DEF Sent
<1>5. \A q, t \in Member : Sent(q, t)' <=> (Sent(q, t) \/ (q = p /\ t = thatpe[p]))
  BY <1>1, <1>2, <1>3 DEF Sent
<1>6. amo[thatpe[p]].old = pSync[thatpe[p]][round[p]]
  <2>1. amo[thatpe[p]].src = p
    BY <1>1 DEF LockHolderIsCurrent
  <2>2. amo[thatpe[p]] # Free
    BY <2>1, MemberFacts DEF Free, SYNC
  <2>3. PICK q \in Member : /\ pc[q] = "store" /\ thatpe[q] = thatpe[p]
                            /\ amo[thatpe[p]] = [src |-> q, old |-> pSync[thatpe[p]][round[q]]]
    BY <1>1, <2>2 DEF LockHolderIsCurrent
  <2> QED
    BY <2>1, <2>3
<1>7. pSync'[thatpe[p]] = [pSync[thatpe[p]] EXCEPT ![round[p]] = pSync[thatpe[p]][round[p]] + 1]
  BY <1>1, <1>6 DEF IncStore, TypeOK
<1>8. pSync[thatpe[p]] \in [Rounds -> Int]
  BY <1>1 DEF TypeOK
<1>9. \A t \in Member : t # thatpe[p] => pSync'[t] = pSync[t]
  BY DEF IncStore, TypeOK
<1> QED
  BY <1>1, <1>2, <1>4, <1>5, <1>7, <1>8, <1>9

\* A reset takes p to its next round, in which it has not sent anything yet.
LEMMA ResetEffect ==
  ASSUME IInv, NEW p \in Member, ResetSync(p)
  PROVE  /\ pc[p] = "reset"
         /\ Phase(p)' = Phase(p) + 1
         /\ round'[p] = 1 - round[p]
         /\ \A q \in Member : q # p => done'[q] = done[q] /\ round'[q] = round[q]
         /\ \A q \in Member : Sent(p, q) /\ ~Sent(p, q)'
         /\ \A q, t \in Member : q # p => (Sent(q, t)' <=> Sent(q, t))
         /\ pSync'[p][round[p]] = SYNC
         /\ \A t \in Member, r \in Rounds :
              t # p \/ r # round[p] => pSync'[t][r] = pSync[t][r]
<1> USE DEF IInv
<1>1. pc[p] = "reset" /\ thatpe[p] = End /\ round[p] \in {0, 1} /\ done[p] \in Nat
  BY DEF ResetSync, LoopsMatchPc, TypeOK, Rounds
<1>2. thatpe'[p] = PE_start /\ pc'[p] \in {"send", "outside"}
  BY DEF ResetSync, NextRound, Goto, TypeOK
<1>3. \A q \in Member : q # p => /\ thatpe'[q] = thatpe[q] /\ pc'[q] = pc[q]
                                 /\ done'[q] = done[q] /\ round'[q] = round[q]
  BY DEF ResetSync, NextRound, Goto, TypeOK
<1>4. /\ round[p] = 0 => round'[p] = 1 /\ done'[p] = done[p]
      /\ round[p] = 1 => round'[p] = 0 /\ done'[p] = done[p] + 1
  BY <1>1 DEF ResetSync, NextRound, LastRound, TypeOK
<1>5. Phase(p)' = Phase(p) + 1 /\ round'[p] = 1 - round[p]
  BY <1>1, <1>4 DEF Phase
<1>6. \A q \in Member : Sent(p, q) /\ ~Sent(p, q)'
  BY <1>1, <1>2, MemberFacts DEF Sent
<1>7. \A q, t \in Member : q # p => (Sent(q, t)' <=> Sent(q, t))
  BY <1>3 DEF Sent
<1>8. pSync[p] \in [Rounds -> Int] /\ round[p] \in Rounds
  BY DEF TypeOK
<1>9. pSync'[p] = [pSync[p] EXCEPT ![round[p]] = SYNC]
  BY DEF ResetSync, TypeOK
<1>10. \A t \in Member : t # p => pSync'[t] = pSync[t]
  BY DEF ResetSync, TypeOK
<1> QED
  BY <1>1, <1>3, <1>5, <1>6, <1>7, <1>8, <1>9, <1>10

-----------------------------------------------------------------------------
\* What is being counted matches what a PE that is one round ahead, or level,
\* sends.
LEMMA CountingMatches ==
  ASSUME TypeOK, NEW p \in Member, NEW q \in Member,
         Phase(q) = Phase(p) \/ Phase(q) = Phase(p) + 1
  PROVE  /\ Counting(p, round[q]) = Phase(q)
         /\ \A r \in Rounds : r # round[q] => Counting(p, r) # Phase(q)
<1>1. /\ done[p] \in Nat /\ round[p] \in {0, 1} /\ Phase(p) = 2 * done[p] + round[p]
      /\ done[q] \in Nat /\ round[q] \in {0, 1} /\ Phase(q) = 2 * done[q] + round[q]
  BY PhaseType
<1>2. round[q] = round[p] <=> Phase(q) = Phase(p)
  BY <1>1
<1> QED
  BY <1>1, <1>2 DEF Counting, Rounds

\* A PE that is still to increment q is level with q or one round ahead.
LEMMA SenderIsClose ==
  ASSUME IInv, NEW p \in Member, NEW q \in Member, ~Sent(p, q)
  PROVE  Phase(p) = Phase(q) \/ Phase(p) = Phase(q) + 1
<1>1. Phase(p) \in Nat /\ Phase(q) \in Nat
  BY PhaseType DEF IInv
<1>2. ~(Phase(p) < Phase(q))
  BY DEF IInv, PhasesAreClose
<1>3. Phase(q) < Phase(p) => Phase(p) = Phase(q) + 1
  BY DEF IInv, PhasesAreClose
<1> QED
  BY <1>1, <1>2, <1>3

LEMMA PhasesStep ==
  ASSUME IInv, [Next]_vars
  PROVE  PhasesAreClose'
<1> USE DEF IInv
<1>0. \A p \in Member : Phase(p) \in Nat
  BY PhaseType
<1>1. CASE \A p \in Member : ~IncStore(p) /\ ~ResetSync(p)
  <2>1. Stable
    BY <1>1, StableSteps
  <2>2. \A p \in Member : Phase(p)' = Phase(p)
    BY <2>1 DEF Stable, Phase
  <2> QED
    BY <1>0, <2>1, <2>2 DEF Stable, PhasesAreClose
<1>2. ASSUME NEW p \in Member, IncStore(p)
      PROVE  PhasesAreClose'
  <2>1. /\ \A q \in Member : Phase(q)' = Phase(q)
        /\ \A q, t \in Member : Sent(q, t) => Sent(q, t)'
    BY <1>2, StoreEffect DEF Phase
  <2> QED
    BY <2>1 DEF PhasesAreClose
<1>3. ASSUME NEW p \in Member, ResetSync(p)
      PROVE  PhasesAreClose'
  <2>1. Phase(p)' = Phase(p) + 1 /\ pc[p] = "reset"
    BY <1>3, ResetEffect
  <2>2. \A q \in Member : q # p => Phase(q)' = Phase(q)
    BY <1>3, ResetEffect DEF Phase
  <2>3. \A q, t \in Member : q # p => (Sent(q, t)' <=> Sent(q, t))
    BY <1>3, ResetEffect
  <2>4. \A q \in Member : q # p =>
          Phase(q) > Phase(p) \/ (Phase(q) = Phase(p) /\ Sent(q, p))
    BY <2>1 DEF ResetHasAll, Contributed
  <2> SUFFICES ASSUME NEW q \in Member, NEW t \in Member, Phase(q)' < Phase(t)'
               PROVE  Phase(t)' = Phase(q)' + 1 /\ Sent(q, t)'
    BY DEF PhasesAreClose
  <2>5. CASE q # p /\ t # p
    BY <2>2, <2>3, <2>5 DEF PhasesAreClose
  <2>6. CASE q # p /\ t = p
    BY <1>0, <2>1, <2>2, <2>3, <2>4, <2>6
  <2>7. CASE q = p /\ t # p
    <3>1. Phase(p) + 1 < Phase(t)
      BY <2>1, <2>2, <2>7
    <3>2. Phase(t) = Phase(p) + 1
      BY <1>0, <3>1 DEF PhasesAreClose
    <3> QED
      BY <1>0, <3>1, <3>2
  <2>8. CASE q = p /\ t = p
    BY <1>0, <2>1, <2>8
  <2> QED
    BY <2>5, <2>6, <2>7, <2>8
<1> QED
  BY <1>1, <1>2, <1>3

\* The equality that ends the wait says that all others have contributed.
LEMMA WaitHasAll ==
  ASSUME IInv, NEW p \in Member, pSync[p][round[p]] = nreplies
  PROVE  \A q \in Member : q # p => Contributed(q, p, Phase(p))
<1> DEFINE All == Member \ {p}
           Have == {q \in All : Contributed(q, p, Phase(p))}
<1>1. round[p] \in Rounds /\ Counting(p, round[p]) = Phase(p)
  BY DEF IInv, TypeOK, Counting
<1>2. pSync[p][round[p]] = SYNC + Cardinality(Have)
  BY <1>1 DEF IInv, CounterCounts
<1>3. IsFiniteSet(All) /\ Cardinality(All) = PE_size - 1
  BY MemberCardinality, FS_RemoveElement
<1>4. Cardinality(Have) \in Nat
  BY <1>3, FS_Subset, FS_CardinalityType
<1>5. Cardinality(Have) = PE_size - 1
  BY <1>2, <1>4, ActiveSetAssumption DEF nreplies, SYNC
<1>6. Have = All
  BY <1>3, <1>5, FS_Subset
<1> QED
  BY <1>6

LEMMA ResetStep ==
  ASSUME IInv, [Next]_vars
  PROVE  ResetHasAll'
<1> USE DEF IInv
<1> SUFFICES ASSUME NEW p \in Member, NEW q \in Member, pc'[p] = "reset", q # p
             PROVE  Contributed(q, p, Phase(p))'
  BY DEF ResetHasAll
<1>0. Phase(p) \in Nat /\ Phase(q) \in Nat
  BY PhaseType
<1>1. CASE \A x \in Member : ~IncStore(x) /\ ~ResetSync(x)
  <2>1. Phase(p)' = Phase(p) /\ Phase(q)' = Phase(q) /\ (Sent(q, p)' <=> Sent(q, p))
    BY <1>1, StableSteps DEF Stable, Phase
  <2>2. Contributed(q, p, Phase(p))
    <3>1. CASE pc[p] = "reset"
      BY <3>1 DEF ResetHasAll
    <3>2. CASE pc[p] # "reset"
      <4>1. WaitUntil(p)
        BY <1>1, <3>2 DEF Next, LibraryStep, UserStep, LandFrom, Land, vars, Goto, TypeOK,
                          Flush, SkipSelf, IncLoad, IncReply, SentAll, WaitUntil, Call, UserPut
      <4> QED
        BY <4>1, WaitHasAll DEF WaitUntil
    <3> QED
      BY <3>1, <3>2
  <2> QED
    BY <2>1, <2>2 DEF Contributed
<1>2. ASSUME NEW x \in Member, IncStore(x)
      PROVE  Contributed(q, p, Phase(p))'
  <2>1. Phase(p)' = Phase(p) /\ Phase(q)' = Phase(q) /\ (Sent(q, p) => Sent(q, p)')
    BY <1>2, StoreEffect DEF Phase
  <2>2. pc[p] = "reset"
    BY <1>2 DEF IncStore, Goto, TypeOK
  <2> QED
    BY <2>1, <2>2 DEF ResetHasAll, Contributed
<1>3. ASSUME NEW x \in Member, ResetSync(x)
      PROVE  Contributed(q, p, Phase(p))'
  <2>1. p # x /\ pc[p] = "reset"
    BY <1>3 DEF ResetSync, NextRound, Goto, TypeOK
  <2>2. Phase(p)' = Phase(p)
    BY <1>3, <2>1, ResetEffect DEF Phase
  <2>3. Contributed(q, p, Phase(p))
    BY <2>1 DEF ResetHasAll
  <2>4. CASE q = x
    <3>1. Phase(q)' = Phase(q) + 1
      BY <1>3, <2>4, ResetEffect
    <3> QED
      BY <1>0, <2>2, <2>3, <3>1 DEF Contributed
  <2>5. CASE q # x
    <3>1. Phase(q)' = Phase(q) /\ (Sent(q, p)' <=> Sent(q, p))
      BY <1>3, <2>5, ResetEffect DEF Phase
    <3> QED
      BY <2>2, <2>3, <3>1 DEF Contributed
  <2> QED
    BY <2>4, <2>5
<1> QED
  BY <1>1, <1>2, <1>3

-----------------------------------------------------------------------------
LEMMA CounterStep ==
  ASSUME IInv, [Next]_vars
  PROVE  CounterCounts'
<1> DEFINE Had(p, r) == {q \in Member \ {p} : Contributed(q, p, Counting(p, r))}
<1> USE DEF IInv
<1>0. \A p \in Member : Phase(p) \in Nat
  BY PhaseType
<1>t. \A p \in Member, r \in Rounds : Counting(p, r) \in Nat
  BY <1>0 DEF Counting
<1>f. \A p \in Member, r \in Rounds : IsFiniteSet(Had(p, r)) /\ Cardinality(Had(p, r)) \in Nat
  BY MemberCardinality, FS_RemoveElement, FS_Subset, FS_CardinalityType
<1> SUFFICES ASSUME NEW p \in Member, NEW r \in Rounds
             PROVE  pSync'[p][r] = SYNC + Cardinality(Had(p, r)')
  BY DEF CounterCounts
<1>c. pSync[p][r] = SYNC + Cardinality(Had(p, r))
  BY DEF CounterCounts
<1>s. ASSUME pSync'[p][r] = pSync[p][r],
             Counting(p, r)' = Counting(p, r),
             \A q \in Member \ {p} :
               Contributed(q, p, Counting(p, r))' <=> Contributed(q, p, Counting(p, r))
      PROVE  pSync'[p][r] = SYNC + Cardinality(Had(p, r)')
  <2>1. Had(p, r)' = Had(p, r)
    BY <1>s
  <2> QED
    BY <1>c, <1>s, <2>1
<1>1. CASE \A x \in Member : ~IncStore(x) /\ ~ResetSync(x)
  <2>1. Stable
    BY <1>1, StableSteps
  <2>2. \A q \in Member : Phase(q)' = Phase(q)
    BY <2>1 DEF Stable, Phase
  <2>3. Counting(p, r)' = Counting(p, r) /\ pSync'[p][r] = pSync[p][r]
    BY <2>1, <2>2 DEF Stable, Counting
  <2>4. \A q \in Member \ {p} :
          Contributed(q, p, Counting(p, r))' <=> Contributed(q, p, Counting(p, r))
    BY <2>1, <2>2, <2>3 DEF Stable, Contributed
  <2> QED
    BY <1>s, <2>3, <2>4
<1>2. ASSUME NEW x \in Member, IncStore(x)
      PROVE  pSync'[p][r] = SYNC + Cardinality(Had(p, r)')
  <2> DEFINE t == thatpe[x]
  <2>1. t \in Member \ {x} /\ ~Sent(x, t)
    BY <1>2, StoreEffect
  <2>2. (\A q \in Member : Phase(q)' = Phase(q)) /\ Counting(p, r)' = Counting(p, r)
    BY <1>2, StoreEffect DEF Phase, Counting
  <2>3. /\ Counting(t, round[x]) = Phase(x)
        /\ \A s \in Rounds : s # round[x] => Counting(t, s) # Phase(x)
    BY <2>1, SenderIsClose, CountingMatches
  <2>4. \A q \in Member : Sent(q, p)' <=> (Sent(q, p) \/ (q = x /\ p = t))
    BY <1>2, StoreEffect
  <2>5. CASE p = t /\ r = round[x]
    <3>1. Had(p, r)' = Had(p, r) \cup {x}
      <4>1. ASSUME NEW q \in Member \ {p}
            PROVE  Contributed(q, p, Counting(p, r))' <=>
                     (Contributed(q, p, Counting(p, r)) \/ q = x)
        BY <2>2, <2>3, <2>4, <2>5 DEF Contributed
      <4> QED
        BY <2>1, <2>5, <4>1
    <3>2. x \notin Had(p, r)
      BY <1>0, <2>1, <2>3, <2>5 DEF Contributed
    <3>3. Cardinality(Had(p, r)') = Cardinality(Had(p, r)) + 1
      BY <1>f, <3>1, <3>2, FS_AddElement
    <3>4. pSync'[p][r] = pSync[p][r] + 1
      BY <1>2, <2>5, StoreEffect
    <3> QED
      BY <1>c, <1>f, <3>3, <3>4 DEF SYNC
  <2>6. CASE ~(p = t /\ r = round[x])
    <3>1. pSync'[p][r] = pSync[p][r]
      BY <1>2, <2>6, StoreEffect
    <3>2. ASSUME NEW q \in Member \ {p}
          PROVE  Contributed(q, p, Counting(p, r))' <=> Contributed(q, p, Counting(p, r))
      <4>1. CASE q = x /\ p = t
        <5>1. Counting(p, r) # Phase(q)
          BY <2>3, <2>6, <4>1
        <5> QED
          BY <2>2, <5>1 DEF Contributed
      <4>2. CASE ~(q = x /\ p = t)
        BY <2>2, <2>4, <4>2 DEF Contributed
      <4> QED
        BY <4>1, <4>2
    <3> QED
      BY <1>s, <2>2, <3>1, <3>2
  <2> QED
    BY <2>5, <2>6
<1>3. ASSUME NEW x \in Member, ResetSync(x)
      PROVE  pSync'[p][r] = SYNC + Cardinality(Had(p, r)')
  <2>1. /\ Phase(x)' = Phase(x) + 1 /\ round'[x] = 1 - round[x]
        /\ \A q \in Member : q # x => Phase(q)' = Phase(q) /\ round'[q] = round[q]
    BY <1>3, ResetEffect DEF Phase
  <2>2. \A q \in Member : q # x => Phase(q) <= Phase(x) + 1
    BY <1>0 DEF PhasesAreClose
  <2>3. round[x] \in {0, 1} /\ r \in {0, 1}
    BY DEF TypeOK, Rounds
  <2>4. CASE p = x /\ r = round[x]
    <3>1. Counting(p, r)' = Phase(x) + 2
      BY <1>0, <2>1, <2>3, <2>4 DEF Counting
    <3>2. ASSUME NEW q \in Member \ {p}
          PROVE  ~Contributed(q, p, Counting(p, r))'
      <4>1. Phase(q)' <= Phase(x) + 1 /\ Phase(q)' \in Nat
        BY <1>0, <2>1, <2>2, <2>4
      <4> QED
        BY <1>0, <3>1, <4>1 DEF Contributed
    <3>3. Had(p, r)' = {}
      BY <3>2
    <3>4. Cardinality(Had(p, r)') = 0
      BY <3>3, FS_EmptySet
    <3>5. pSync'[p][r] = SYNC
      BY <1>3, <2>4, ResetEffect
    <3> QED
      BY <3>4, <3>5 DEF SYNC
  <2>5. CASE p = x /\ r # round[x]
    <3>1. Counting(p, r)' = Phase(x) + 1 /\ Counting(p, r) = Phase(x) + 1
      BY <2>1, <2>3, <2>5 DEF Counting
    <3>2. pSync'[p][r] = pSync[p][r]
      BY <1>3, <2>5, ResetEffect
    <3>3. \A q \in Member \ {p} : Phase(q)' = Phase(q) /\ (Sent(q, p)' <=> Sent(q, p))
      BY <1>3, <2>1, <2>5, ResetEffect
    <3> QED
      BY <1>s, <3>1, <3>2, <3>3 DEF Contributed
  <2>6. CASE p # x
    <3>1. Counting(p, r)' = Counting(p, r) /\ Counting(p, r) \in Nat
      BY <1>t, <2>1, <2>6 DEF Counting
    <3>2. pSync'[p][r] = pSync[p][r]
      BY <1>3, <2>6, ResetEffect
    <3>3. ASSUME NEW q \in Member \ {p}
          PROVE  Contributed(q, p, Counting(p, r))' <=> Contributed(q, p, Counting(p, r))
      <4>1. CASE q = x
        <5>1. Sent(x, p) /\ ~Sent(x, p)'
          BY <1>3, ResetEffect
        <5> QED
          BY <1>0, <2>1, <3>1, <4>1, <5>1 DEF Contributed
      <4>2. CASE q # x
        <5>1. Phase(q)' = Phase(q) /\ (Sent(q, p)' <=> Sent(q, p))
          BY <1>3, <2>1, <4>2, ResetEffect
        <5> QED
          BY <3>1, <5>1 DEF Contributed
      <4> QED
        BY <4>1, <4>2
    <3> QED
      BY <1>s, <3>1, <3>2, <3>3
  <2> QED
    BY <2>4, <2>5, <2>6
<1> QED
  BY <1>1, <1>2, <1>3

\* A PE that increments another's counter does so in the round the other is not
\* about to reset.
LEMMA ResetUncontested == IInv => ResetIsUncontested
<1> SUFFICES ASSUME IInv, NEW p \in Member, NEW q \in Member,
                    pc[p] = "reset", pc[q] = "store", thatpe[q] = p
             PROVE  round[q] # round[p]
  BY DEF ResetIsUncontested
<1>1. /\ done[p] \in Nat /\ round[p] \in {0, 1} /\ Phase(p) = 2 * done[p] + round[p]
      /\ done[q] \in Nat /\ round[q] \in {0, 1} /\ Phase(q) = 2 * done[q] + round[q]
  BY PhaseType DEF IInv
<1>2. p \in Nat
  BY MemberFacts
<1>3. ~Sent(q, p) /\ q # p
  BY <1>2 DEF Sent
<1>4. Phase(q) > Phase(p)
  BY <1>3 DEF IInv, ResetHasAll, Contributed
<1>5. Phase(q) = Phase(p) + 1
  BY <1>1, <1>4 DEF IInv, PhasesAreClose
<1> QED
  BY <1>1, <1>5

LEMMA LockStep ==
  ASSUME IInv, [Next]_vars
  PROVE  LockHolderIsCurrent'
<1> USE DEF IInv
<1>0. \A p \in Member : p # Free.src
  BY MemberFacts DEF Free, SYNC
<1>1. CASE UNCHANGED vars
  BY <1>1 DEF vars, LockHolderIsCurrent
<1>2. ASSUME NEW x \in Member, Flush(x) \/ SkipSelf(x) \/ IncReply(x) \/ SentAll(x) \/ WaitUntil(x)
      PROVE  LockHolderIsCurrent'
  <2>1. amo' = amo /\ pSync' = pSync /\ round' = round
    BY <1>2 DEF Flush, SkipSelf, IncReply, SentAll, WaitUntil
  <2>2. \A p \in Member : pc'[p] = "store" <=> pc[p] = "store"
    BY <1>2 DEF Flush, SkipSelf, IncReply, SentAll, WaitUntil, Goto, TypeOK
  <2>3. \A p \in Member : pc[p] = "store" => thatpe'[p] = thatpe[p]
    BY <1>2 DEF Flush, SkipSelf, IncReply, SentAll, WaitUntil, TypeOK
  <2> QED
    BY <2>1, <2>2, <2>3 DEF LockHolderIsCurrent
<1>3. ASSUME NEW x \in Member, IncLoad(x)
      PROVE  LockHolderIsCurrent'
  <2> DEFINE u == thatpe[x]
  <2>1. /\ u \in Member /\ amo[u] = Free /\ pc[x] = "send"
        /\ round' = round /\ pSync' = pSync /\ thatpe' = thatpe
    BY <1>3 DEF IncLoad
  <2>2. pc'[x] = "store" /\ \A q \in Member : q # x => pc'[q] = pc[q]
    BY <1>3 DEF IncLoad, Goto, TypeOK
  <2>3. amo'[u] = [src |-> x, old |-> pSync[u][round[x]]] /\ \A s \in Member : s # u => amo'[s] = amo[s]
    BY <1>3, <2>1 DEF IncLoad, TypeOK
  <2>4. ASSUME NEW p \in Member, pc'[p] = "store"
        PROVE  amo'[thatpe'[p]].src = p
    <3>1. CASE p = x
      BY <2>1, <2>3, <3>1
    <3>2. CASE p # x
      <4>1. pc[p] = "store" /\ amo[thatpe[p]].src = p /\ thatpe[p] \in Member
        BY <2>2, <2>4, <3>2 DEF LockHolderIsCurrent, LoopsMatchPc
      <4>2. thatpe[p] # u
        BY <1>0, <2>1, <4>1
      <4> QED
        BY <2>1, <2>3, <4>1, <4>2
    <3> QED
      BY <3>1, <3>2
  <2>5. ASSUME NEW s \in Member, amo'[s] # Free
        PROVE  \E p \in Member : /\ pc'[p] = "store" /\ thatpe'[p] = s
                                 /\ amo'[s] = [src |-> p, old |-> pSync'[s][round'[p]]]
    <3>1. CASE s = u
      BY <2>1, <2>2, <2>3, <3>1
    <3>2. CASE s # u
      <4>1. PICK p \in Member : /\ pc[p] = "store" /\ thatpe[p] = s
                                /\ amo[s] = [src |-> p, old |-> pSync[s][round[p]]]
        BY <2>3, <2>5, <3>2 DEF LockHolderIsCurrent
      <4> QED
        BY <2>1, <2>2, <2>3, <3>2, <4>1
    <3> QED
      BY <3>1, <3>2
  <2> QED
    BY <2>4, <2>5 DEF LockHolderIsCurrent
<1>4. ASSUME NEW x \in Member, IncStore(x)
      PROVE  LockHolderIsCurrent'
  <2> DEFINE u == thatpe[x]
  <2>1. /\ u \in Member /\ pc[x] = "store" /\ amo[u].src = x
        /\ round' = round /\ thatpe' = thatpe
    BY <1>4 DEF IncStore, LoopsMatchPc, LockHolderIsCurrent
  <2>2. pc'[x] = "reply" /\ \A q \in Member : q # x => pc'[q] = pc[q]
    BY <1>4 DEF IncStore, Goto, TypeOK
  <2>3. amo'[u] = Free /\ \A s \in Member : s # u => amo'[s] = amo[s] /\ pSync'[s] = pSync[s]
    BY <1>4, <2>1 DEF IncStore, TypeOK
  <2>4. ASSUME NEW p \in Member, pc'[p] = "store"
        PROVE  amo'[thatpe'[p]].src = p
    <3>1. p # x /\ pc[p] = "store"
      BY <2>2, <2>4
    <3>2. amo[thatpe[p]].src = p /\ thatpe[p] \in Member
      BY <3>1 DEF LockHolderIsCurrent, LoopsMatchPc
    <3>3. thatpe[p] # u
      BY <2>1, <3>1, <3>2
    <3> QED
      BY <2>1, <2>3, <3>2, <3>3
  <2>5. ASSUME NEW s \in Member, amo'[s] # Free
        PROVE  \E p \in Member : /\ pc'[p] = "store" /\ thatpe'[p] = s
                                 /\ amo'[s] = [src |-> p, old |-> pSync'[s][round'[p]]]
    <3>1. s # u
      BY <2>3, <2>5
    <3>2. PICK p \in Member : /\ pc[p] = "store" /\ thatpe[p] = s
                              /\ amo[s] = [src |-> p, old |-> pSync[s][round[p]]]
      BY <2>3, <2>5, <3>1 DEF LockHolderIsCurrent
    <3> QED
      BY <2>1, <2>2, <2>3, <3>1, <3>2
  <2> QED
    BY <2>4, <2>5 DEF LockHolderIsCurrent
<1>5. ASSUME NEW x \in Member, ResetSync(x)
      PROVE  LockHolderIsCurrent'
  <2>1. amo' = amo
    BY <1>5 DEF ResetSync
  <2>2. \A p \in Member : pc'[p] = "store" <=> pc[p] = "store"
    BY <1>5 DEF ResetSync, NextRound, Goto, TypeOK
  <2>3. \A p \in Member : pc[p] = "store" => thatpe'[p] = thatpe[p] /\ round'[p] = round[p]
    BY <1>5 DEF ResetSync, NextRound, TypeOK
  <2>4. ASSUME NEW p \in Member, pc[p] = "store"
        PROVE  pSync'[thatpe[p]][round[p]] = pSync[thatpe[p]][round[p]]
    <3>1. thatpe[p] \in Member /\ round[p] \in Rounds
      BY <2>4 DEF LoopsMatchPc, TypeOK
    <3>2. thatpe[p] = x => round[p] # round[x]
      BY <1>5, <2>4, ResetUncontested DEF ResetIsUncontested, ResetSync
    <3> QED
      BY <1>5, <3>1, <3>2, ResetEffect
  <2>5. ASSUME NEW p \in Member, pc'[p] = "store"
        PROVE  amo'[thatpe'[p]].src = p
    BY <2>1, <2>2, <2>3, <2>5 DEF LockHolderIsCurrent
  <2>6. ASSUME NEW s \in Member, amo'[s] # Free
        PROVE  \E p \in Member : /\ pc'[p] = "store" /\ thatpe'[p] = s
                                 /\ amo'[s] = [src |-> p, old |-> pSync'[s][round'[p]]]
    <3>1. PICK p \in Member : /\ pc[p] = "store" /\ thatpe[p] = s
                              /\ amo[s] = [src |-> p, old |-> pSync[s][round[p]]]
      BY <2>1, <2>6 DEF LockHolderIsCurrent
    <3>2. pc'[p] = "store" /\ thatpe'[p] = s /\ pSync'[s][round'[p]] = pSync[s][round[p]]
      BY <2>2, <2>3, <2>4, <3>1
    <3> QED
      BY <2>1, <3>1, <3>2
  <2> QED
    BY <2>5, <2>6 DEF LockHolderIsCurrent
<1>6. ASSUME NEW x \in Member, UserStep(x) \/ LandFrom(x)
      PROVE  LockHolderIsCurrent'
  <2>1. amo' = amo /\ pSync' = pSync /\ round' = round /\ thatpe' = thatpe
    BY <1>6 DEF UserStep, LandFrom, Land, UserPut, Call
  <2>2. \A p \in Member : pc'[p] = "store" <=> pc[p] = "store"
    BY <1>6 DEF UserStep, LandFrom, Land, UserPut, Call, Goto, TypeOK
  <2> QED
    BY <2>1, <2>2 DEF LockHolderIsCurrent
<1> QED
  BY <1>1, <1>2, <1>3, <1>4, <1>5, <1>6 DEF Next, LibraryStep

LEMMA FlightStep ==
  ASSUME IInv, [Next]_vars
  PROVE  FlightIsRecent'
<1> USE DEF IInv
<1>1. CASE UNCHANGED vars
  BY <1>1 DEF vars, FlightIsRecent
<1>2. ASSUME NEW p \in Member, LibraryStep(p)
      PROVE  FlightIsRecent'
  <2>1. flight' = flight
    BY <1>2 DEF LibraryStep, Flush, SkipSelf, IncLoad, IncStore, IncReply, SentAll, WaitUntil, ResetSync
  <2>2. \A q \in Member : q # p => pc'[q] = pc[q] /\ done'[q] = done[q]
    BY <1>2 DEF LibraryStep, Flush, SkipSelf, IncLoad, IncStore, IncReply, SentAll, WaitUntil, ResetSync,
                NextRound, Goto, TypeOK
  <2>3. \A m \in flight : m.src \in Member /\ m.src # p
    <3>1. pc[p] \in {"outside", "flush"} => pc[p] = "flush" /\ Quiet(p)
      BY <1>2 DEF LibraryStep, Flush, SkipSelf, IncLoad, IncStore, IncReply, SentAll, WaitUntil, ResetSync
    <3> QED
      BY <3>1 DEF FlightIsRecent, Quiet, TypeOK
  <2> QED
    BY <2>1, <2>2, <2>3 DEF FlightIsRecent
<1>3. ASSUME NEW p \in Member, UserStep(p)
      PROVE  FlightIsRecent'
  <2>1. CASE Call(p)
    BY <2>1 DEF Call, FlightIsRecent, Goto, TypeOK
  <2>2. CASE UserPut(p)
    BY <2>2 DEF UserPut, FlightIsRecent
  <2> QED
    BY <1>3, <2>1, <2>2 DEF UserStep
<1>4. ASSUME NEW p \in Member, LandFrom(p)
      PROVE  FlightIsRecent'
  BY <1>4 DEF LandFrom, Land, FlightIsRecent
<1> QED
  BY <1>1, <1>2, <1>3, <1>4 DEF Next

LEMMA NextIInv ==
  ASSUME IInv, [Next]_vars
  PROVE  IInv'
BY TypeStep, LoopsStep, CounterStep, PhasesStep, ResetStep, LockStep, FlightStep DEF IInv

-----------------------------------------------------------------------------
\* Counters, rounds and the lock of the increment handler stay consistent, for
\* every active set (barrier-linear.c:59-86).
THEOREM BarrierInvariant == Spec => []IInv
<1>1. IInv /\ [Next]_vars => IInv'
  BY NextIInv
<1> QED
  BY <1>1, InitIInv, PTL DEF Spec

\* The reset of a counter never meets an increment of it.
THEOREM BarrierResetIsSafe == Spec => []ResetIsUncontested
BY BarrierInvariant, ResetUncontested, PTL

\* Puts issued before a barrier have landed when anybody has left it.
THEOREM BarrierFlushes == Spec => []FlushedBeforeLeave
<1>1. IInv => FlushedBeforeLeave
  <2> SUFFICES ASSUME IInv, NEW m \in flight, NEW p \in Member
               PROVE  done[p] <= m.epoch
    BY DEF FlushedBeforeLeave
  <2>1. m.src \in Member /\ m.epoch = done[m.src] /\ round[m.src] = 0
    BY DEF IInv, TypeOK, FlightIsRecent, LoopsMatchPc
  <2>2. /\ done[p] \in Nat /\ round[p] \in {0, 1} /\ Phase(p) = 2 * done[p] + round[p]
        /\ done[m.src] \in Nat /\ Phase(m.src) = 2 * done[m.src]
    BY <2>1, PhaseType DEF IInv
  <2>3. Phase(m.src) < Phase(p) => Phase(p) = Phase(m.src) + 1
    BY <2>1 DEF IInv, PhasesAreClose
  <2> QED
    BY <2>1, <2>2, <2>3
<1> QED
  BY <1>1, BarrierInvariant, PTL

\* pSync is back in its initial state once all have returned (shmem.h:741-743).
THEOREM BarrierRestoresPSync == Spec => []PSyncRestored
<1>1. IInv => PSyncRestored
  <2> SUFFICES ASSUME IInv, \A p, q \in Member : pc[p] = "outside" /\ done[p] = done[q],
                      NEW p \in Member, NEW r \in Rounds
               PROVE  pSync[p][r] = SYNC
    BY DEF PSyncRestored
  <2>1. \A q \in Member : pc[q] = "outside" /\ thatpe[q] = PE_start /\ round[q] = 0 /\ done[q] = done[p]
    BY DEF IInv, LoopsMatchPc
  <2>2. \A q \in Member : Phase(q) = Phase(p) /\ Phase(p) \in Nat
    BY <2>1, PhaseType DEF IInv, Phase
  <2>3. Counting(p, r) >= Phase(p) /\ Counting(p, r) \in Nat
    BY <2>2 DEF Counting
  <2>4. \A q \in Member : ~Sent(q, p)
    BY <2>1, MemberFacts DEF Sent
  <2>5. \A q \in Member : ~Contributed(q, p, Counting(p, r))
    BY <2>2, <2>3, <2>4 DEF Contributed
  <2>6. {q \in Member \ {p} : Contributed(q, p, Counting(p, r))} = {}
    BY <2>5
  <2>7. Cardinality({q \in Member \ {p} : Contributed(q, p, Counting(p, r))}) = 0
    BY <2>6, FS_EmptySet
  <2> QED
    BY <2>7 DEF IInv, CounterCounts, SYNC
<1> QED
  BY <1>1, BarrierInvariant, PTL

-----------------------------------------------------------------------------
LEMMA StepSynchronises == IInv /\ [Next]_vars => [Sync!Next]_(Sync!vars)
<1> DEFINE arrived == [p \in Member |-> IF pc[p] \in {"outside", "flush"} THEN done[p] ELSE done[p] + 1]
<1> SUFFICES ASSUME IInv, [Next]_vars
             PROVE  [Sync!Next]_(Sync!vars)
  OBVIOUS
<1> USE DEF IInv
<1>1. ASSUME arrived' = arrived, done' = done
      PROVE  [Sync!Next]_(Sync!vars)
  BY <1>1 DEF Sync!vars
<1>2. CASE UNCHANGED vars
  BY <1>1, <1>2 DEF vars
<1>3. ASSUME NEW p \in Member, UserStep(p) \/ LandFrom(p)
      PROVE  [Sync!Next]_(Sync!vars)
  BY <1>1, <1>3 DEF UserStep, UserPut, Call, LandFrom, Land, Goto, TypeOK
<1>4. ASSUME NEW p \in Member, SkipSelf(p) \/ IncLoad(p) \/ IncStore(p) \/ IncReply(p)
                               \/ SentAll(p) \/ WaitUntil(p)
      PROVE  [Sync!Next]_(Sync!vars)
  <2>1. arrived' = arrived /\ done' = done
    BY <1>4 DEF SkipSelf, IncLoad, IncStore, IncReply, SentAll, WaitUntil, Goto, TypeOK
  <2> QED
    BY <1>1, <2>1
<1>5. ASSUME NEW p \in Member, Flush(p)
      PROVE  Sync!Arrive(p)
  <2>1. arrived[p] = done[p] /\ done' = done
    BY <1>5 DEF Flush
  <2>2. arrived' = [arrived EXCEPT ![p] = @ + 1]
    BY <1>5 DEF Flush, Goto, TypeOK
  <2> QED
    BY <2>1, <2>2 DEF Sync!Arrive
<1>6. ASSUME NEW p \in Member, ResetSync(p)
      PROVE  [Sync!Next]_(Sync!vars)
  <2>0. pc[p] = "reset" /\ round[p] \in {0, 1} /\ done[p] \in Nat
    BY <1>6 DEF ResetSync, TypeOK, Rounds
  <2>1. CASE round[p] = 0
    <3>1. arrived' = arrived /\ done' = done
      BY <1>6, <2>0, <2>1 DEF ResetSync, NextRound, LastRound, Goto, TypeOK
    <3> QED
      BY <1>1, <3>1
  <2>2. CASE round[p] = 1
    <3>1. done' = [done EXCEPT ![p] = @ + 1] /\ pc' = [pc EXCEPT ![p] = "outside"]
      BY <1>6, <2>2 DEF ResetSync, NextRound, LastRound, Goto
    <3>2. arrived' = arrived
      BY <2>0, <3>1 DEF TypeOK
    <3>3. ASSUME NEW q \in Member
          PROVE  done[p] < arrived[q]
      <4>1. CASE q = p
        BY <2>0, <4>1
      <4>2. CASE q # p
        <5>1. Phase(q) >= Phase(p)
          <6>1. Phase(p) \in Nat /\ Phase(q) \in Nat
            BY PhaseType
          <6> QED
            BY <2>0, <4>2, <6>1 DEF ResetHasAll, Contributed
        <5>2. /\ Phase(p) = 2 * done[p] + 1
              /\ done[q] \in Nat /\ round[q] \in {0, 1} /\ Phase(q) = 2 * done[q] + round[q]
          BY <2>2, PhaseType
        <5>3. done[q] > done[p] \/ (done[q] = done[p] /\ round[q] = 1)
          BY <2>0, <5>1, <5>2
        <5>4. round[q] = 1 => arrived[q] = done[q] + 1
          BY DEF LoopsMatchPc
        <5>5. arrived[q] >= done[q]
          BY <5>2
        <5> QED
          BY <2>0, <5>2, <5>3, <5>4, <5>5
      <4> QED
        BY <4>1, <4>2
    <3>4. Sync!Leave(p)
      BY <3>1, <3>2, <3>3 DEF Sync!Leave
    <3> QED
      BY <3>4 DEF Sync!Next
  <2> QED
    BY <2>0, <2>1, <2>2
<1> QED
  BY <1>2, <1>3, <1>4, <1>5, <1>6 DEF Next, LibraryStep, Sync!Next

\* No PE leaves the barrier before all members of the active set have entered it
\* (shmem.h:735-739).
THEOREM BarrierSynchronises == Spec => AllArriveFirst
<1>1. Init => Sync!Init
  BY DEF Init, Sync!Init
<1>2. IInv /\ [Next]_vars => [Sync!Next]_(Sync!vars)
  BY StepSynchronises
<1> QED
  BY <1>1, <1>2, BarrierInvariant, PTL DEF Spec, Sync!Spec, AllArriveFirst

=============================================================================
