-------------------------- MODULE LifecycleProofs --------------------------
(***************************************************************************)
(* Proofs about Lifecycle, for any number of PEs, jobs and barriers.       *)
(*                                                                         *)
(* A PE that has told the others where its heap is can be missing a reply  *)
(* only of those its message or whose reply is still on its way: these and *)
(* the replies it has counted are all the other PEs, always.  And how many *)
(* barriers a PE has called says where it is, so that a barrier passed     *)
(* says where all the others are.                                          *)
(***************************************************************************)
EXTENDS Lifecycle, FiniteSetTheorems, TLAPS

\* Where a program may be.
Places ==
  {"start", "memory", "init_barrier", "tell", "wait_replies", "running", "barrier_all",
   "exit_barrier", "join_service", "down", "gone", "crashed"}

TypeOK ==
  /\ given \in Jobs
  /\ pc \in [PE -> Places]
  /\ pe_status \in [PE -> {"UNINITIALIZED", "RUNNING", "SHUTDOWN"}]
  /\ exiting \subseteq PE
  /\ barcount \in [PE -> Nat] /\ called \in [PE -> Nat]
  /\ seginfo_table \in [PE -> SUBSET PE]
  /\ heapsize \in [PE -> 0 .. SizeMod - 1]
  /\ heap \in [PE -> {"none", "live", "freed"}]
  /\ replies \in [PE -> Nat] /\ hsl \in [PE -> Nat \cup {Free}]
  /\ service \in [PE -> {"none", "runs", "told", "stopped"}]
  /\ stream \in [PE -> {"none", "file", "stderr", "closed"}]
  /\ spoilt \subseteq PE
  /\ net \subseteq [kind : {"setup_out", "setup_bak"}, src : PE, dst : PE]
  /\ puts \subseteq [src : PE, dst : PE, call : Nat]

\* How many barriers a PE has called, where it is.
Place(p) ==
  /\ called[p] <= Barriers
  /\ pc[p] \in {"start", "memory"} =>
       heap[p] = "none" /\ called[p] = 0 /\ barcount[p] = 0
  /\ pc[p] \in {"init_barrier", "tell", "wait_replies"} =>
       heap[p] = "live" /\ called[p] = 0 /\ barcount[p] = 1
  /\ pc[p] \in {"running", "barrier_all"} =>
       heap[p] = "live" /\ barcount[p] = called[p] + 1
  /\ pc[p] \in {"exit_barrier", "join_service"} =>
       \/ heap[p] = "none" /\ called[p] = 0 /\ barcount[p] = 1
       \/ heap[p] = "live" /\ called[p] = Barriers /\ barcount[p] = Barriers + 2
  /\ pc[p] \in {"down", "gone"} =>
       heap[p] = "freed" /\ called[p] = Barriers /\ barcount[p] = Barriers + 2
  /\ pc[p] = "crashed" =>
       \/ heap[p] = "none" /\ called[p] = 0 /\ barcount[p] \in {0, 1}
       \/ heap[p] = "live" /\ barcount[p] = called[p]

\* A PE without a heap is not up, nor one that waits for its replies.
Status(p) ==
  /\ heap[p] = "none" => pe_status[p] = "UNINITIALIZED"
  /\ pc[p] \in {"init_barrier", "tell", "wait_replies"} => pe_status[p] = "UNINITIALIZED"

\* ... and how many the others have called at least: as many as it has passed.
Met(p) ==
  \A q \in PE :
    /\ pc[p] \in {"tell", "wait_replies", "running", "join_service", "down", "gone", "crashed"} =>
         barcount[q] >= barcount[p]
    /\ pc[p] \in {"barrier_all", "exit_barrier"} => barcount[q] >= barcount[p] - 1

\* A put on its way was issued since the last shmem_barrier_all of its PE.
Issued(m) ==
  /\ called[m.src] = m.call
  /\ heap[m.src] # "none"
  /\ pc[m.src] \in {"running", "exit_barrier", "join_service", "down", "gone"}

\* A PE has told the others where its heap is.
Told(p) ==
  \/ pc[p] \in {"wait_replies", "running", "barrier_all"}
  \/ pc[p] \in {"exit_barrier", "join_service", "down", "gone", "crashed"} /\ heap[p] # "none"

Out(p, q) == [kind |-> "setup_out", src |-> p, dst |-> q]
Bak(p, q) == [kind |-> "setup_bak", src |-> p, dst |-> q]

\* Those it has told and whose reply has not been counted; the replies that
\* have, one of them perhaps not stored yet.
Unanswered(p) == {q \in PE : Out(p, q) \in net \/ Bak(q, p) \in net}
Counted(p) == IF hsl[p] = Free THEN replies[p] ELSE replies[p] + 1

Asking(p) ==
  /\ hsl[p] # Free => hsl[p] = replies[p]
  /\ p \notin Unanswered(p)
  /\ \A q \in PE : Out(p, q) \notin net \/ Bak(q, p) \notin net
  /\ ~Told(p) => Unanswered(p) = {} /\ replies[p] = 0 /\ hsl[p] = Free
  /\ Told(p) =>
       /\ Cardinality(Unanswered(p)) + Counted(p) = Cardinality(PE) - 1
       /\ \A q \in PE \ {p} : Out(p, q) \in net \/ p \in seginfo_table[q]
  /\ Told(p) \/ pc[p] = "tell" => p \in seginfo_table[p]
  /\ Told(p) /\ pc[p] # "wait_replies" => replies[p] = Cardinality(PE) - 1

\* The size of a heap is what the environment asked for.
AsAsked(h) ==
  /\ h % GASNET_PAGESIZE = 0
  /\ h - HeapAsked(given.env) \in 0 .. GASNET_PAGESIZE - 1

Sized(p) == pc[p] # "start" /\ CanBeHad(given.env) => AsAsked(heapsize[p])

IInv ==
  /\ TypeOK
  /\ \A p \in PE : Place(p) /\ Status(p) /\ Met(p) /\ Asking(p) /\ Sized(p)
  /\ \A m \in puts : Issued(m)

-----------------------------------------------------------------------------
\* The loop of parse_unit: what its function was meant to be, it is.
LEMMA UnitBytesDef ==
  unit_bytes = [i \in 1 .. 7 |-> IF i = 1 THEN 1 ELSE multiplier * unit_bytes[i - 1]]
<1>. DEFINE m == multiplier
            F(g) == [i \in 1 .. 7 |-> IF i = 1 THEN 1 ELSE m * g[i - 1]]
            f == [i \in 1 .. 7 |->
                    CASE i = 1 -> 1
                      [] i = 2 -> m * 1
                      [] i = 3 -> m * (m * 1)
                      [] i = 4 -> m * (m * (m * 1))
                      [] i = 5 -> m * (m * (m * (m * 1)))
                      [] i = 6 -> m * (m * (m * (m * (m * 1))))
                      [] i = 7 -> m * (m * (m * (m * (m * (m * 1)))))]
<1>. HIDE DEF m
<1>1. \A i \in 1 .. 7 : i \in {1, 2, 3, 4, 5, 6, 7}  OBVIOUS
<1>2. \A i \in 1 .. 7 : f[i] = F(f)[i]  BY <1>1
<1>3. f = F(f)  BY <1>2
<1>. HIDE DEF f
<1>4. unit_bytes = CHOOSE g : g = F(g)  BY DEF unit_bytes, m
<1>5. (CHOOSE g : g = F(g)) = F(CHOOSE g : g = F(g))  BY <1>3
<1>. QED  BY <1>4, <1>5 DEF F, m

\* One of a unit that is known is a number of bytes.
LEMMA UnitType == ASSUME NEW unit, Known(unit) PROVE parse_unit(unit) \in Nat
<1>1. multiplier \in Nat  BY EnvironmentAssumption
<1>2. \A i \in 1 .. 7 : unit_bytes[i] = IF i = 1 THEN 1 ELSE multiplier * unit_bytes[i - 1]
  BY UnitBytesDef
<1>3. unit_bytes[1] \in Nat  BY <1>2
<1>4. \A i \in 2 .. 7 : unit_bytes[i - 1] \in Nat => unit_bytes[i] \in Nat
  BY <1>1, <1>2
<1>5. \A i \in 1 .. 7 : unit_bytes[i] \in Nat
  <2>2. unit_bytes[2] \in Nat  BY <1>3, <1>4
  <2>3. unit_bytes[3] \in Nat  BY <1>4, <2>2
  <2>4. unit_bytes[4] \in Nat  BY <1>4, <2>3
  <2>5. unit_bytes[5] \in Nat  BY <1>4, <2>4
  <2>6. unit_bytes[6] \in Nat  BY <1>4, <2>5
  <2>7. unit_bytes[7] \in Nat  BY <1>4, <2>6
  <2>. QED  BY <1>3, <2>2, <2>3, <2>4, <2>5, <2>6, <2>7
<1>6. PICK i \in 1 .. 7 : units_string[i] = unit  BY DEF Known
<1>7. (CHOOSE j \in 1 .. 7 : units_string[j] = unit) \in 1 .. 7  BY <1>6
<1>. QED  BY <1>5, <1>7 DEF parse_unit

\* A multiple leaves no rest.
LEMMA Multiple == ASSUME NEW n \in Nat, NEW k \in Nat \ {0} PROVE (n * k) % k = 0
  OBVIOUS

\* Quotient and rest.
LEMMA DivMod ==
  ASSUME NEW b \in Nat, NEW k \in Nat \ {0}
  PROVE  b \div k \in Nat /\ b % k \in 0 .. k - 1 /\ b = ((b \div k) * k) + (b % k)
  OBVIOUS

\* The rounding of shmemi_comms_get_segment_size: up to the next page, if that is a size_t.
LEMMA PagesRound ==
  ASSUME NEW b \in Nat, b + GASNET_PAGESIZE <= SizeMod
  PROVE  Pages(b) % GASNET_PAGESIZE = 0 /\ Pages(b) - b \in 0 .. GASNET_PAGESIZE - 1
<1>. DEFINE k == GASNET_PAGESIZE
            up == (b \div k + 1) * k
<1>1. k \in Nat \ {0} /\ SizeMod \in Nat \ {0}  BY EnvironmentAssumption
<1>2. CASE b % k = 0  BY <1>1, <1>2 DEF Pages
<1>3. CASE b % k # 0
  <2>. HIDE DEF k
  <2>1. b \div k \in Nat /\ b % k \in 1 .. k - 1 /\ b = ((b \div k) * k) + (b % k)
    <3>1. b \div k \in Nat /\ b % k \in 0 .. k - 1 /\ b = ((b \div k) * k) + (b % k)
      BY <1>1, DivMod
    <3>. QED  BY <1>1, <1>3, <3>1
  <2>2. up = ((b \div k) * k) + k  BY <1>1, <2>1
  <2>3. (b \div k) * k \in Nat  BY <1>1, <2>1
  <2>4. up - b = k - (b % k) /\ up \in Nat
    <3>. HIDE DEF up
    <3>. QED  BY <1>1, <2>1, <2>2, <2>3
  <2>5. up % k = 0  BY <1>1, <2>1, Multiple
  <2>6. up < SizeMod
    <3>. HIDE DEF up
    <3>. QED  BY <1>1, <2>1, <2>4 DEF k
  <2>7. Pages(b) = up
    <3>1. Pages(b) = up % SizeMod  BY <1>3 DEF Pages, k
    <3>. HIDE DEF up
    <3>. QED  BY <1>1, <2>4, <2>6, <3>1
  <2>. HIDE DEF up
  <2>. QED  BY <1>1, <2>1, <2>4, <2>5, <2>7 DEF k
<1>. QED  BY <1>2, <1>3

\* ... and what it returns is a size_t in any case.
LEMMA PagesType == ASSUME NEW b \in 0 .. SizeMod - 1 PROVE Pages(b) \in 0 .. SizeMod - 1
<1>1. GASNET_PAGESIZE \in Nat \ {0} /\ SizeMod \in Nat \ {0}  BY EnvironmentAssumption
<1>2. (b \div GASNET_PAGESIZE + 1) * GASNET_PAGESIZE \in Nat
  BY <1>1, DivMod
<1>. QED  BY <1>1, <1>2 DEF Pages

\* shmemi_comms_get_segment_size returns a size_t, wrapped or not, garbage or not.
LEMMA SegmentType ==
  ASSUME NEW env, IsEnvironment(env), NEW size \in shmemi_comms_get_segment_size(env)
  PROVE  size.bytes \in 0 .. SizeMod - 1
<1>1. SizeMod \in Nat \ {0} /\ DEFAULT_HEAP_SIZE \in 0 .. SizeMod - 1
     /\ Garbage \subseteq 0 .. SizeMod - 1
  BY EnvironmentAssumption
<1>2. CASE ~Set(env, {"SHMEM_SYMMETRIC_HEAP_SIZE"})
  BY <1>1, <1>2 DEF shmemi_comms_get_segment_size
<1>3. CASE Set(env, {"SHMEM_SYMMETRIC_HEAP_SIZE"})
  <2>. DEFINE asked == env.SHMEM_SYMMETRIC_HEAP_SIZE
  <2>1. asked.number \in Nat  BY <1>3 DEF IsEnvironment
  <2>2. PICK o \in shmemi_parse_size(asked) : size = [o EXCEPT !.bytes = Pages(@)]
    BY <1>3 DEF shmemi_comms_get_segment_size
  <2>3. o.bytes \in 0 .. SizeMod - 1 /\ o = [ok |-> o.ok, bytes |-> o.bytes]
    <3>1. CASE Known(asked.unit)
      <4>1. parse_unit(asked.unit) * asked.number \in Nat  BY <2>1, <3>1, UnitType
      <4>2. (parse_unit(asked.unit) * asked.number) % SizeMod \in 0 .. SizeMod - 1
        BY <1>1, <4>1
      <4>. HIDE DEF asked
      <4>. QED  BY <3>1, <4>2 DEF shmemi_parse_size
    <3>2. CASE ~Known(asked.unit)
      <4>. HIDE DEF asked
      <4>. QED  BY <1>1, <3>2 DEF shmemi_parse_size
    <3>. QED  BY <3>1, <3>2
  <2>4. size.bytes = Pages(o.bytes)  BY <2>2, <2>3
  <2>. QED  BY <2>3, <2>4, PagesType
<1>. QED  BY <1>2, <1>3

\* If the size can be had, shmemi_comms_get_segment_size returns it.
LEMMA SegmentAsAsked ==
  ASSUME IsEnvironment(given.env), CanBeHad(given.env),
         NEW size \in shmemi_comms_get_segment_size(given.env)
  PROVE  AsAsked(size.bytes)
<1>0. GASNET_PAGESIZE \in Nat \ {0}  BY EnvironmentAssumption
<1>1. CASE ~Set(given.env, {"SHMEM_SYMMETRIC_HEAP_SIZE"})
  <2>1. size.bytes = DEFAULT_HEAP_SIZE  BY <1>1 DEF shmemi_comms_get_segment_size
  <2>2. HeapAsked(given.env) = DEFAULT_HEAP_SIZE  BY <1>1 DEF HeapAsked
  <2>. QED  BY <1>0, <2>1, <2>2, EnvironmentAssumption DEF AsAsked
<1>2. CASE Set(given.env, {"SHMEM_SYMMETRIC_HEAP_SIZE"})
  <2>. DEFINE asked == given.env.SHMEM_SYMMETRIC_HEAP_SIZE
              b == parse_unit(asked.unit) * asked.number
  <2>1. asked.number \in Nat /\ Known(asked.unit)  BY <1>2 DEF IsEnvironment, CanBeHad
  <2>2. b \in Nat /\ b = asked.number * parse_unit(asked.unit)  BY <2>1, UnitType
  <2>3. HeapAsked(given.env) = b  BY <1>2, <2>2 DEF HeapAsked
  <2>. HIDE DEF b
  <2>4. b + GASNET_PAGESIZE <= SizeMod  BY <1>2, <2>3 DEF CanBeHad
  <2>5. b % SizeMod = b
    BY <1>0, <2>2, <2>4, EnvironmentAssumption
  <2>6. shmemi_parse_size(asked) = {[ok |-> TRUE, bytes |-> b]}
    BY <2>1, <2>5 DEF shmemi_parse_size, b
  <2>7. size.bytes = Pages(b)
    <3>1. PICK o \in shmemi_parse_size(asked) : size = [o EXCEPT !.bytes = Pages(@)]
      BY <1>2 DEF shmemi_comms_get_segment_size
    <3>. QED  BY <2>6, <3>1
  <2>. QED  BY <2>2, <2>3, <2>4, <2>7, PagesRound DEF AsAsked
<1>. QED  BY <1>1, <1>2

-----------------------------------------------------------------------------
\* Every step keeps the types.
LEMMA TypeStep ==
  ASSUME TypeOK, [Next]_vars PROVE TypeOK'
<1>0. CASE UNCHANGED vars
  BY <1>0, LifecycleAssumption DEF vars, setup, output, TypeOK, Places, Free
<1>1. ASSUME NEW p \in PE, StartUp(p) PROVE TypeOK'
  <2>1. PICK size \in shmemi_comms_get_segment_size(given.env) :
          /\ heapsize' = [heapsize EXCEPT ![p] = size.bytes]
          /\ IF size.ok
             THEN /\ Goto(p, "memory")
                  /\ shmemi_service_init(p)
                  /\ shmemi_tracers_init(p)
             ELSE /\ Goto(p, "crashed")
                  /\ UNCHANGED <<service, stream>>
    BY <1>1 DEF StartUp
  <2>2. size.bytes \in 0 .. SizeMod - 1
    BY LifecycleAssumption, SegmentType DEF TypeOK
  <2>3. heapsize' \in [PE -> 0 .. SizeMod - 1]  BY <2>1, <2>2 DEF TypeOK
  <2>4. pc' \in [PE -> Places]  BY <2>1 DEF Goto, TypeOK, Places
  <2>5. service' \in [PE -> {"none", "runs", "told", "stopped"}]
    BY <2>1 DEF shmemi_service_init, TypeOK
  <2>6. stream' \in [PE -> {"none", "file", "stderr", "closed"}]
    BY <2>1 DEF shmemi_tracers_init, logging_filestream_init, TypeOK
  <2>. QED  BY <1>1, <2>3, <2>4, <2>5, <2>6 DEF StartUp, setup, TypeOK
<1>2. ASSUME NEW p \in PE, AllocateHeap(p) PROVE TypeOK'
  <2>1. CASE p \in given.poor
    BY <1>2, <2>1
         DEF AllocateHeap, setup, output, Goto, Notify, comms_bailout, shmemi_comms_exit,
              TypeOK, Places
  <2>2. CASE p \notin given.poor
    BY <1>2, <2>2 DEF AllocateHeap, setup, output, Goto, Notify, TypeOK, Places
  <2>. QED  BY <2>1, <2>2
<1>3. ASSUME NEW p \in PE, StoreOwn(p) PROVE TypeOK'
  BY <1>3, LifecycleAssumption DEF StoreOwn, setup, output, Goto, Passed, TypeOK, Places, Free
<1>4. ASSUME NEW p \in PE, TellOthers(p) PROVE TypeOK'
  BY <1>4, LifecycleAssumption DEF TellOthers, setup, output, Goto, TypeOK, Places, Free
<1>5. ASSUME NEW p \in PE, Run(p) PROVE TypeOK'
  BY <1>5, LifecycleAssumption DEF Run, setup, output, Goto, TypeOK, Places, Free
<1>6. ASSUME NEW p \in PE, LeaveBarrierAll(p) PROVE TypeOK'
  BY <1>6, LifecycleAssumption
       DEF LeaveBarrierAll, setup, output, Goto, Passed, TypeOK, Places, Free
<1>7. ASSUME NEW p \in PE, ExitBarrier(p) PROVE TypeOK'
  BY <1>7, LifecycleAssumption
       DEF ExitBarrier, setup, output, Goto, Passed, shmemi_service_finalize, TypeOK,
            Places, Free
<1>8. ASSUME NEW p \in PE, Shutdown(p) PROVE TypeOK'
  BY <1>8, LifecycleAssumption
       DEF Shutdown, setup, output, Goto, shmemi_tracers_fini, TypeOK, Places, Free
<1>9. ASSUME NEW p \in PE, ExitWhenDown(p) PROVE TypeOK'
  BY <1>9, LifecycleAssumption DEF ExitWhenDown, setup, output, Goto, TypeOK, Places, Free
<1>10. ASSUME NEW p \in PE, SegsetupBakStore(p) PROVE TypeOK'
  BY <1>10, LifecycleAssumption
       DEF SegsetupBakStore, setup, output, program, TypeOK, Places, Free
<1>11. ASSUME NEW p \in PE, ServiceStops(p) PROVE TypeOK'
  BY <1>11, LifecycleAssumption DEF ServiceStops, setup, output, TypeOK, Places, Free
<1>12. ASSUME NEW p \in PE, InitAgain(p) PROVE TypeOK'
  BY <1>12, LifecycleAssumption
       DEF InitAgain, setup, output, shmemi_trace, TypeOK, Places, Free
<1>13. ASSUME NEW p \in PE, BarrierAll(p) PROVE TypeOK'
  <2>1. CASE shmemi_barrier_all_dispatch_init(given.env)
    BY <1>13, <2>1 DEF BarrierAll, setup, output, Goto, Notify, TypeOK, Places
  <2>2. CASE ~shmemi_barrier_all_dispatch_init(given.env)
    BY <1>13, <2>2 DEF BarrierAll, setup, output, Goto, TypeOK, Places
  <2>. QED  BY <2>1, <2>2
<1>14. ASSUME NEW p \in PE, Finalize(p) PROVE TypeOK'
  BY <1>14, LifecycleAssumption
       DEF Finalize, setup, output, Goto, Notify, shmemi_comms_exit, TypeOK, Places, Free
<1>15. ASSUME NEW p \in PE, Exit(p) PROVE TypeOK'
  BY <1>15, LifecycleAssumption
       DEF Exit, setup, output, Goto, Notify, shmemi_comms_exit, TypeOK, Places, Free
<1>16. ASSUME NEW m \in net, SegsetupOut(m) PROVE TypeOK'
  <2>1. m \in [kind : {"setup_out", "setup_bak"}, src : PE, dst : PE]
    BY DEF TypeOK
  <2>2. seginfo_table' \in [PE -> SUBSET PE]
    BY <1>16, <2>1 DEF SegsetupOut, TypeOK
  <2>3. net' \subseteq [kind : {"setup_out", "setup_bak"}, src : PE, dst : PE]
    BY <1>16, <2>1 DEF SegsetupOut, TypeOK
  <2>. QED  BY <1>16, <2>2, <2>3 DEF SegsetupOut, program, output, TypeOK
<1>17. ASSUME NEW m \in net, SegsetupBak(m) PROVE TypeOK'
  BY <1>17, LifecycleAssumption DEF SegsetupBak, setup, output, program, TypeOK, Places, Free
<1>18. ASSUME NEW p \in PE, NEW q \in PE \cup {Cardinality(PE)}, Put(p, q) PROVE TypeOK'
  <2>1. q \in PE
    BY <1>18, LifecycleAssumption DEF Put, PE_RANGE_CHECK
  <2>2. [src |-> p, dst |-> q, call |-> called[p]] \in [src : PE, dst : PE, call : Nat]
    BY <2>1 DEF TypeOK
  <2>. QED  BY <1>18, <2>2 DEF Put, setup, output, TypeOK
<1>19. ASSUME NEW p \in PE, NEW q \in PE \cup {Cardinality(PE)}, PutToNobody(p, q)
     PROVE TypeOK'
  BY <1>19, LifecycleAssumption
       DEF PutToNobody, setup, output, Goto, Notify, shmemi_comms_exit, shmemi_trace,
            TypeOK, Places, Free
<1>20. ASSUME NEW m \in puts, Land(m) PROVE TypeOK'
  BY <1>20, LifecycleAssumption DEF Land, setup, output, TypeOK, Places, Free
<1>. QED  BY <1>0, <1>1, <1>2, <1>3, <1>4, <1>5, <1>6, <1>7, <1>8, <1>9, <1>10, <1>11,
     <1>12, <1>13, <1>14, <1>15, <1>16, <1>17, <1>18, <1>19, <1>20 DEF Next, Program, Handle

\* The counters of a PE go on telling where it is.
LEMMA PlaceStep ==
  ASSUME TypeOK, NEW r \in PE, Place(r), [Next]_vars PROVE Place(r)'
<1>0. CASE UNCHANGED vars
  BY <1>0, LifecycleAssumption DEF vars, setup, output, TypeOK, Place
<1>1. ASSUME NEW p \in PE, StartUp(p) PROVE Place(r)'
  BY <1>1, LifecycleAssumption
       DEF StartUp, setup, output, Goto, shmemi_service_init, shmemi_tracers_init,
            logging_filestream_init, TypeOK, Place
<1>2. ASSUME NEW p \in PE, AllocateHeap(p) PROVE Place(r)'
  BY <1>2, LifecycleAssumption
       DEF AllocateHeap, setup, output, Goto, Notify, comms_bailout, shmemi_comms_exit,
            TypeOK, Place
<1>3. ASSUME NEW p \in PE, StoreOwn(p) PROVE Place(r)'
  BY <1>3, LifecycleAssumption DEF StoreOwn, setup, output, Goto, Passed, TypeOK, Place
<1>4. ASSUME NEW p \in PE, TellOthers(p) PROVE Place(r)'
  BY <1>4, LifecycleAssumption DEF TellOthers, setup, output, Goto, TypeOK, Place
<1>5. ASSUME NEW p \in PE, Run(p) PROVE Place(r)'
  BY <1>5, LifecycleAssumption DEF Run, setup, output, Goto, TypeOK, Place
<1>6. ASSUME NEW p \in PE, LeaveBarrierAll(p) PROVE Place(r)'
  BY <1>6, LifecycleAssumption DEF LeaveBarrierAll, setup, output, Goto, Passed, TypeOK, Place
<1>7. ASSUME NEW p \in PE, ExitBarrier(p) PROVE Place(r)'
  BY <1>7, LifecycleAssumption
       DEF ExitBarrier, setup, output, Goto, Passed, shmemi_service_finalize, TypeOK, Place
<1>8. ASSUME NEW p \in PE, Shutdown(p) PROVE Place(r)'
  BY <1>8, LifecycleAssumption
       DEF Shutdown, setup, output, Goto, shmemi_tracers_fini, TypeOK, Place
<1>9. ASSUME NEW p \in PE, ExitWhenDown(p) PROVE Place(r)'
  BY <1>9, LifecycleAssumption DEF ExitWhenDown, setup, output, Goto, TypeOK, Place
<1>10. ASSUME NEW p \in PE, SegsetupBakStore(p) PROVE Place(r)'
  BY <1>10, LifecycleAssumption DEF SegsetupBakStore, setup, output, program, TypeOK, Place
<1>11. ASSUME NEW p \in PE, ServiceStops(p) PROVE Place(r)'
  BY <1>11, LifecycleAssumption DEF ServiceStops, setup, output, TypeOK, Place
<1>12. ASSUME NEW p \in PE, InitAgain(p) PROVE Place(r)'
  BY <1>12, LifecycleAssumption DEF InitAgain, setup, output, shmemi_trace, TypeOK, Place
<1>13. ASSUME NEW p \in PE, BarrierAll(p) PROVE Place(r)'
  BY <1>13, LifecycleAssumption
       DEF BarrierAll, setup, output, Goto, Notify, Quiet, TypeOK, Place
<1>14. ASSUME NEW p \in PE, Finalize(p) PROVE Place(r)'
  BY <1>14, LifecycleAssumption
       DEF Finalize, setup, output, Goto, Notify, shmemi_comms_exit, TypeOK, Place
<1>15. ASSUME NEW p \in PE, Exit(p) PROVE Place(r)'
  BY <1>15, LifecycleAssumption
       DEF Exit, setup, output, Goto, Notify, shmemi_comms_exit, TypeOK, Place
<1>16. ASSUME NEW m \in net, SegsetupOut(m) PROVE Place(r)'
  BY <1>16, LifecycleAssumption DEF SegsetupOut, setup, output, program, TypeOK, Place
<1>17. ASSUME NEW m \in net, SegsetupBak(m) PROVE Place(r)'
  BY <1>17, LifecycleAssumption DEF SegsetupBak, setup, output, program, TypeOK, Place
<1>18. ASSUME NEW p \in PE, NEW q \in PE \cup {Cardinality(PE)}, Put(p, q) PROVE Place(r)'
  BY <1>18, LifecycleAssumption DEF Put, setup, output, PE_RANGE_CHECK, TypeOK, Place
<1>19. ASSUME NEW p \in PE, NEW q \in PE \cup {Cardinality(PE)}, PutToNobody(p, q)
     PROVE Place(r)'
  BY <1>19, LifecycleAssumption
       DEF PutToNobody, setup, output, Goto, Notify, shmemi_comms_exit, shmemi_trace,
            TypeOK, Place
<1>20. ASSUME NEW m \in puts, Land(m) PROVE Place(r)'
  BY <1>20, LifecycleAssumption DEF Land, setup, output, TypeOK, Place
<1>. QED  BY <1>0, <1>1, <1>2, <1>3, <1>4, <1>5, <1>6, <1>7, <1>8, <1>9, <1>10, <1>11,
     <1>12, <1>13, <1>14, <1>15, <1>16, <1>17, <1>18, <1>19, <1>20 DEF Next, Program, Handle

\* No PE is up before it has its replies, nor without a heap.
LEMMA StatusStep ==
  ASSUME TypeOK, NEW r \in PE, Place(r), Status(r), [Next]_vars PROVE Status(r)'
<1>0. CASE UNCHANGED vars
  BY <1>0 DEF vars, setup, output, TypeOK, Place, Status
<1>1. ASSUME NEW p \in PE, StartUp(p) PROVE Status(r)'
  BY <1>1 DEF StartUp, setup, output, Goto, shmemi_service_init, shmemi_tracers_init,
       logging_filestream_init, TypeOK, Place, Status
<1>2. ASSUME NEW p \in PE, AllocateHeap(p) PROVE Status(r)'
  BY <1>2 DEF AllocateHeap, setup, output, Goto, Notify, comms_bailout, shmemi_comms_exit,
       TypeOK, Place, Status
<1>3. ASSUME NEW p \in PE, StoreOwn(p) PROVE Status(r)'
  BY <1>3 DEF StoreOwn, setup, output, Goto, Passed, TypeOK, Place, Status
<1>4. ASSUME NEW p \in PE, TellOthers(p) PROVE Status(r)'
  BY <1>4 DEF TellOthers, setup, output, Goto, TypeOK, Place, Status
<1>5. ASSUME NEW p \in PE, Run(p) PROVE Status(r)'
  BY <1>5 DEF Run, setup, output, Goto, TypeOK, Place, Status
<1>6. ASSUME NEW p \in PE, LeaveBarrierAll(p) PROVE Status(r)'
  BY <1>6 DEF LeaveBarrierAll, setup, output, Goto, Passed, TypeOK, Place, Status
<1>7. ASSUME NEW p \in PE, ExitBarrier(p) PROVE Status(r)'
  BY <1>7 DEF ExitBarrier, setup, output, Goto, Passed, shmemi_service_finalize, TypeOK,
       Place, Status
<1>8. ASSUME NEW p \in PE, Shutdown(p) PROVE Status(r)'
  BY <1>8 DEF Shutdown, setup, output, Goto, shmemi_tracers_fini, TypeOK, Place, Status
<1>9. ASSUME NEW p \in PE, ExitWhenDown(p) PROVE Status(r)'
  BY <1>9 DEF ExitWhenDown, setup, output, Goto, TypeOK, Place, Status
<1>10. ASSUME NEW p \in PE, SegsetupBakStore(p) PROVE Status(r)'
  BY <1>10 DEF SegsetupBakStore, setup, output, program, TypeOK, Place, Status
<1>11. ASSUME NEW p \in PE, ServiceStops(p) PROVE Status(r)'
  BY <1>11 DEF ServiceStops, setup, output, TypeOK, Place, Status
<1>12. ASSUME NEW p \in PE, InitAgain(p) PROVE Status(r)'
  BY <1>12 DEF InitAgain, setup, output, shmemi_trace, TypeOK, Place, Status
<1>13. ASSUME NEW p \in PE, BarrierAll(p) PROVE Status(r)'
  BY <1>13 DEF BarrierAll, setup, output, Goto, Notify, Quiet, TypeOK, Place, Status
<1>14. ASSUME NEW p \in PE, Finalize(p) PROVE Status(r)'
  BY <1>14 DEF Finalize, setup, output, Goto, Notify, shmemi_comms_exit, TypeOK, Place, Status
<1>15. ASSUME NEW p \in PE, Exit(p) PROVE Status(r)'
  BY <1>15 DEF Exit, setup, output, Goto, Notify, shmemi_comms_exit, TypeOK, Place, Status
<1>16. ASSUME NEW m \in net, SegsetupOut(m) PROVE Status(r)'
  BY <1>16 DEF SegsetupOut, setup, output, program, TypeOK, Place, Status
<1>17. ASSUME NEW m \in net, SegsetupBak(m) PROVE Status(r)'
  BY <1>17 DEF SegsetupBak, setup, output, program, TypeOK, Place, Status
<1>18. ASSUME NEW p \in PE, NEW q \in PE \cup {Cardinality(PE)}, Put(p, q) PROVE Status(r)'
  BY <1>18 DEF Put, setup, output, PE_RANGE_CHECK, TypeOK, Place, Status
<1>19. ASSUME NEW p \in PE, NEW q \in PE \cup {Cardinality(PE)}, PutToNobody(p, q)
     PROVE Status(r)'
  BY <1>19
       DEF PutToNobody, setup, output, Goto, Notify, shmemi_comms_exit, shmemi_trace,
            TypeOK, Place, Status
<1>20. ASSUME NEW m \in puts, Land(m) PROVE Status(r)'
  BY <1>20 DEF Land, setup, output, TypeOK, Place, Status
<1>. QED  BY <1>0, <1>1, <1>2, <1>3, <1>4, <1>5, <1>6, <1>7, <1>8, <1>9, <1>10, <1>11,
     <1>12, <1>13, <1>14, <1>15, <1>16, <1>17, <1>18, <1>19, <1>20 DEF Next, Program, Handle

\* Who has passed a barrier has been met there by all.
LEMMA MetStep ==
  ASSUME TypeOK, NEW r \in PE, Place(r), Met(r), [Next]_vars PROVE Met(r)'
<1>0. CASE UNCHANGED vars
  BY <1>0 DEF vars, setup, output, TypeOK, Place, Met
<1>1. ASSUME NEW p \in PE, StartUp(p) PROVE Met(r)'
  BY <1>1 DEF StartUp, setup, output, Goto, shmemi_service_init, shmemi_tracers_init,
       logging_filestream_init, TypeOK, Place, Met
<1>2. ASSUME NEW p \in PE, AllocateHeap(p) PROVE Met(r)'
  BY <1>2 DEF AllocateHeap, setup, output, Goto, Notify, comms_bailout, shmemi_comms_exit,
       TypeOK, Place, Met
<1>3. ASSUME NEW p \in PE, StoreOwn(p) PROVE Met(r)'
  BY <1>3 DEF StoreOwn, setup, output, Goto, Passed, TypeOK, Place, Met
<1>4. ASSUME NEW p \in PE, TellOthers(p) PROVE Met(r)'
  BY <1>4 DEF TellOthers, setup, output, Goto, TypeOK, Place, Met
<1>5. ASSUME NEW p \in PE, Run(p) PROVE Met(r)'
  BY <1>5 DEF Run, setup, output, Goto, TypeOK, Place, Met
<1>6. ASSUME NEW p \in PE, LeaveBarrierAll(p) PROVE Met(r)'
  BY <1>6 DEF LeaveBarrierAll, setup, output, Goto, Passed, TypeOK, Place, Met
<1>7. ASSUME NEW p \in PE, ExitBarrier(p) PROVE Met(r)'
  BY <1>7 DEF ExitBarrier, setup, output, Goto, Passed, shmemi_service_finalize, TypeOK,
       Place, Met
<1>8. ASSUME NEW p \in PE, Shutdown(p) PROVE Met(r)'
  BY <1>8 DEF Shutdown, setup, output, Goto, shmemi_tracers_fini, TypeOK, Place, Met
<1>9. ASSUME NEW p \in PE, ExitWhenDown(p) PROVE Met(r)'
  BY <1>9 DEF ExitWhenDown, setup, output, Goto, TypeOK, Place, Met
<1>10. ASSUME NEW p \in PE, SegsetupBakStore(p) PROVE Met(r)'
  BY <1>10 DEF SegsetupBakStore, setup, output, program, TypeOK, Place, Met
<1>11. ASSUME NEW p \in PE, ServiceStops(p) PROVE Met(r)'
  BY <1>11 DEF ServiceStops, setup, output, TypeOK, Place, Met
<1>12. ASSUME NEW p \in PE, InitAgain(p) PROVE Met(r)'
  BY <1>12 DEF InitAgain, setup, output, shmemi_trace, TypeOK, Place, Met
<1>13. ASSUME NEW p \in PE, BarrierAll(p) PROVE Met(r)'
  BY <1>13 DEF BarrierAll, setup, output, Goto, Notify, Quiet, TypeOK, Place, Met
<1>14. ASSUME NEW p \in PE, Finalize(p) PROVE Met(r)'
  BY <1>14 DEF Finalize, setup, output, Goto, Notify, shmemi_comms_exit, TypeOK, Place, Met
<1>15. ASSUME NEW p \in PE, Exit(p) PROVE Met(r)'
  BY <1>15 DEF Exit, setup, output, Goto, Notify, shmemi_comms_exit, TypeOK, Place, Met
<1>16. ASSUME NEW m \in net, SegsetupOut(m) PROVE Met(r)'
  BY <1>16 DEF SegsetupOut, setup, output, program, TypeOK, Place, Met
<1>17. ASSUME NEW m \in net, SegsetupBak(m) PROVE Met(r)'
  BY <1>17 DEF SegsetupBak, setup, output, program, TypeOK, Place, Met
<1>18. ASSUME NEW p \in PE, NEW q \in PE \cup {Cardinality(PE)}, Put(p, q) PROVE Met(r)'
  BY <1>18 DEF Put, setup, output, PE_RANGE_CHECK, TypeOK, Place, Met
<1>19. ASSUME NEW p \in PE, NEW q \in PE \cup {Cardinality(PE)}, PutToNobody(p, q)
     PROVE Met(r)'
  BY <1>19
       DEF PutToNobody, setup, output, Goto, Notify, shmemi_comms_exit, shmemi_trace,
            TypeOK, Place, Met
<1>20. ASSUME NEW m \in puts, Land(m) PROVE Met(r)'
  BY <1>20 DEF Land, setup, output, TypeOK, Place, Met
<1>. QED  BY <1>0, <1>1, <1>2, <1>3, <1>4, <1>5, <1>6, <1>7, <1>8, <1>9, <1>10, <1>11,
     <1>12, <1>13, <1>14, <1>15, <1>16, <1>17, <1>18, <1>19, <1>20 DEF Next, Program, Handle
\* Before a PE calls shmem_barrier_all again its puts are done.
LEMMA IssuedStep ==
  ASSUME TypeOK, \A p \in PE : Place(p), \A m \in puts : Issued(m), [Next]_vars
       PROVE \A i \in puts' : Issued(i)'
<1>0. CASE UNCHANGED vars
  BY <1>0 DEF vars, setup, output, TypeOK, Place, Issued
<1>1. ASSUME NEW p \in PE, StartUp(p) PROVE \A i \in puts' : Issued(i)'
  BY <1>1 DEF StartUp, setup, output, Goto, shmemi_service_init, shmemi_tracers_init,
       logging_filestream_init, TypeOK, Place, Issued
<1>2. ASSUME NEW p \in PE, AllocateHeap(p) PROVE \A i \in puts' : Issued(i)'
  BY <1>2 DEF AllocateHeap, setup, output, Goto, Notify, comms_bailout, shmemi_comms_exit,
       TypeOK, Place, Issued
<1>3. ASSUME NEW p \in PE, StoreOwn(p) PROVE \A i \in puts' : Issued(i)'
  BY <1>3 DEF StoreOwn, setup, output, Goto, Passed, TypeOK, Place, Issued
<1>4. ASSUME NEW p \in PE, TellOthers(p) PROVE \A i \in puts' : Issued(i)'
  BY <1>4 DEF TellOthers, setup, output, Goto, TypeOK, Place, Issued
<1>5. ASSUME NEW p \in PE, Run(p) PROVE \A i \in puts' : Issued(i)'
  BY <1>5 DEF Run, setup, output, Goto, TypeOK, Place, Issued
<1>6. ASSUME NEW p \in PE, LeaveBarrierAll(p) PROVE \A i \in puts' : Issued(i)'
  BY <1>6 DEF LeaveBarrierAll, setup, output, Goto, Passed, TypeOK, Place, Issued
<1>7. ASSUME NEW p \in PE, ExitBarrier(p) PROVE \A i \in puts' : Issued(i)'
  BY <1>7 DEF ExitBarrier, setup, output, Goto, Passed, shmemi_service_finalize, TypeOK,
       Place, Issued
<1>8. ASSUME NEW p \in PE, Shutdown(p) PROVE \A i \in puts' : Issued(i)'
  BY <1>8 DEF Shutdown, setup, output, Goto, shmemi_tracers_fini, TypeOK, Place, Issued
<1>9. ASSUME NEW p \in PE, ExitWhenDown(p) PROVE \A i \in puts' : Issued(i)'
  BY <1>9 DEF ExitWhenDown, setup, output, Goto, TypeOK, Place, Issued
<1>10. ASSUME NEW p \in PE, SegsetupBakStore(p) PROVE \A i \in puts' : Issued(i)'
  BY <1>10 DEF SegsetupBakStore, setup, output, program, TypeOK, Place, Issued
<1>11. ASSUME NEW p \in PE, ServiceStops(p) PROVE \A i \in puts' : Issued(i)'
  BY <1>11 DEF ServiceStops, setup, output, TypeOK, Place, Issued
<1>12. ASSUME NEW p \in PE, InitAgain(p) PROVE \A i \in puts' : Issued(i)'
  BY <1>12 DEF InitAgain, setup, output, shmemi_trace, TypeOK, Place, Issued
<1>13. ASSUME NEW p \in PE, BarrierAll(p) PROVE \A i \in puts' : Issued(i)'
  <2>. SUFFICES ASSUME NEW m \in puts PROVE Issued(m)'
    BY <1>13 DEF BarrierAll
  <2>1. m.src # p /\ m.src \in PE /\ Issued(m)
    BY <1>13 DEF BarrierAll, Quiet, TypeOK
  <2>2. /\ called'[m.src] = called[m.src]
        /\ pc'[m.src] = pc[m.src]
        /\ heap'[m.src] = heap[m.src]
    BY <1>13, <2>1 DEF BarrierAll, Goto, TypeOK
  <2>. QED  BY <2>1, <2>2 DEF Issued
<1>14. ASSUME NEW p \in PE, Finalize(p) PROVE \A i \in puts' : Issued(i)'
  BY <1>14 DEF Finalize, setup, output, Goto, Notify, shmemi_comms_exit, TypeOK, Place, Issued
<1>15. ASSUME NEW p \in PE, Exit(p) PROVE \A i \in puts' : Issued(i)'
  BY <1>15 DEF Exit, setup, output, Goto, Notify, shmemi_comms_exit, TypeOK, Place, Issued
<1>16. ASSUME NEW m \in net, SegsetupOut(m) PROVE \A i \in puts' : Issued(i)'
  BY <1>16 DEF SegsetupOut, setup, output, program, TypeOK, Place, Issued
<1>17. ASSUME NEW m \in net, SegsetupBak(m) PROVE \A i \in puts' : Issued(i)'
  BY <1>17 DEF SegsetupBak, setup, output, program, TypeOK, Place, Issued
<1>18. ASSUME NEW p \in PE, NEW q \in PE \cup {Cardinality(PE)}, Put(p, q)
     PROVE \A i \in puts' : Issued(i)'
  BY <1>18 DEF Put, setup, output, PE_RANGE_CHECK, TypeOK, Place, Issued
<1>19. ASSUME NEW p \in PE, NEW q \in PE \cup {Cardinality(PE)}, PutToNobody(p, q)
     PROVE \A i \in puts' : Issued(i)'
  BY <1>19
       DEF PutToNobody, setup, output, Goto, Notify, shmemi_comms_exit, shmemi_trace,
            TypeOK, Place, Issued
<1>20. ASSUME NEW m \in puts, Land(m) PROVE \A i \in puts' : Issued(i)'
  BY <1>20 DEF Land, setup, output, TypeOK, Place, Issued
<1>. QED  BY <1>0, <1>1, <1>2, <1>3, <1>4, <1>5, <1>6, <1>7, <1>8, <1>9, <1>10, <1>11,
     <1>12, <1>13, <1>14, <1>15, <1>16, <1>17, <1>18, <1>19, <1>20 DEF Next, Program, Handle

\* A step that leaves the exchange of addresses alone leaves its books in order.
LEMMA AskingKept ==
  ASSUME NEW r \in PE, Asking(r), UNCHANGED setup, Told(r)' <=> Told(r),
         pc'[r] = "tell" => pc[r] = "tell" \/ r \in seginfo_table[r],
         Told(r) /\ pc'[r] # "wait_replies" =>
           pc[r] # "wait_replies" \/ replies[r] = Cardinality(PE) - 1
  PROVE  Asking(r)'
<1>1. Unanswered(r)' = Unanswered(r) /\ Counted(r)' = Counted(r)
  BY DEF setup, Unanswered, Counted
<1>2. net' = net /\ hsl' = hsl /\ replies' = replies /\ seginfo_table' = seginfo_table
  BY DEF setup
<1>. HIDE DEF setup
<1>. QED  BY <1>1, <1>2 DEF Asking, Out, Bak

\* The exchange of addresses: each reply is counted once, and each was preceded by a
\* store into the table of the PE that sends it.
LEMMA AskingStep ==
  ASSUME TypeOK, \A p \in PE : Place(p), NEW r \in PE, Asking(r), [Next]_vars
  PROVE  Asking(r)'
<1>. Place(r)  OBVIOUS
<1>0. CASE UNCHANGED vars
  BY <1>0, AskingKept DEF vars, setup, Told
<1>1. ASSUME NEW p \in PE, StartUp(p) PROVE Asking(r)'
  <2>1. UNCHANGED setup  BY <1>1 DEF StartUp, setup
  <2>2. /\ Told(r)' <=> Told(r)
        /\ pc'[r] = "tell" => pc[r] = "tell" \/ r \in seginfo_table[r]
        /\ Told(r) /\ pc'[r] # "wait_replies" =>
             pc[r] # "wait_replies" \/ replies[r] = Cardinality(PE) - 1
    BY <1>1 DEF StartUp, Goto, shmemi_service_init, shmemi_tracers_init,
         logging_filestream_init, TypeOK, Place, Told
  <2>. QED  BY <2>1, <2>2, AskingKept
<1>2. ASSUME NEW p \in PE, AllocateHeap(p) PROVE Asking(r)'
  <2>1. UNCHANGED setup  BY <1>2 DEF AllocateHeap, setup
  <2>2. /\ Told(r)' <=> Told(r)
        /\ pc'[r] = "tell" => pc[r] = "tell" \/ r \in seginfo_table[r]
        /\ Told(r) /\ pc'[r] # "wait_replies" =>
             pc[r] # "wait_replies" \/ replies[r] = Cardinality(PE) - 1
    BY <1>2 DEF AllocateHeap, Goto, Notify, comms_bailout, shmemi_comms_exit, TypeOK, Place,
         Told
  <2>. QED  BY <2>1, <2>2, AskingKept
<1>3. ASSUME NEW p \in PE, StoreOwn(p) PROVE Asking(r)'
  <2>1. /\ UNCHANGED <<replies, hsl, net, heap>>
        /\ r \in seginfo_table'[r] \/ (r # p /\ pc'[r] = pc[r])
        /\ \A q \in PE : seginfo_table[q] \subseteq seginfo_table'[q]
    BY <1>3 DEF StoreOwn, Goto, TypeOK
  <2>2. /\ Told(r)' <=> Told(r)
        /\ pc[r] # pc'[r] => ~Told(r)
    BY <1>3 DEF StoreOwn, Goto, Told, TypeOK
  <2>3. Unanswered(r)' = Unanswered(r) /\ Counted(r)' = Counted(r)
    BY <2>1 DEF Unanswered, Counted
  <2>. QED  BY <2>1, <2>2, <2>3 DEF Asking, Out, Bak
<1>4. ASSUME NEW p \in PE, TellOthers(p) PROVE Asking(r)'
  <2>1. CASE r = p
    <3>1. Unanswered(r) = {} /\ replies[r] = 0 /\ hsl[r] = Free /\ r \in seginfo_table[r]
      BY <1>4, <2>1 DEF TellOthers, Asking, Told
    <3>2. /\ net' = net \cup {Out(r, q) : q \in PE \ {r}}
          /\ UNCHANGED <<replies, hsl, seginfo_table>>
          /\ pc'[r] = "wait_replies"
      BY <1>4, <2>1 DEF TellOthers, Goto, Out, TypeOK
    <3>3. \A q \in PE : Out(r, q) \notin net /\ Bak(q, r) \notin net
      BY <3>1 DEF Unanswered
    <3>4. \A q \in PE : Bak(q, r) \notin net' /\ (Out(r, q) \in net' <=> q # r)
      BY <3>2, <3>3 DEF Out, Bak
    <3>5. Unanswered(r)' = PE \ {r}
      BY <3>4 DEF Unanswered, Out, Bak
    <3>6. Cardinality(PE \ {r}) = Cardinality(PE) - 1 /\ Cardinality(PE) \in Nat
      BY LifecycleAssumption, FS_RemoveElement, FS_CardinalityType
    <3>7. Counted(r)' = 0  BY <3>1, <3>2 DEF Counted
    <3>8. Told(r)'  BY <3>2 DEF Told
    <3>9. Cardinality(Unanswered(r))' + Counted(r)' = Cardinality(PE) - 1
      BY <3>5, <3>6, <3>7
    <3>10. hsl'[r] = Free /\ r \in seginfo_table'[r] /\ r \notin Unanswered(r)'
      BY <3>1, <3>2, <3>5
    <3>11. /\ \A q \in PE : Out(r, q) \notin net' \/ Bak(q, r) \notin net'
           /\ \A q \in PE \ {r} : Out(r, q) \in net'
      BY <3>4 DEF Out, Bak
    <3>. QED  BY <3>2, <3>8, <3>9, <3>10, <3>11 DEF Asking, Out, Bak
  <2>2. CASE r # p
    <3>1. /\ \A q \in PE : Out(r, q) \in net' <=> Out(r, q) \in net
          /\ \A q \in PE : Bak(q, r) \in net' <=> Bak(q, r) \in net
      BY <1>4, <2>2 DEF TellOthers, Out, Bak
    <3>2. Unanswered(r)' = Unanswered(r)
      BY <3>1 DEF Unanswered, Out, Bak
    <3>3. UNCHANGED <<replies, hsl, seginfo_table, heap>> /\ pc'[r] = pc[r]
      BY <1>4, <2>2 DEF TellOthers, Goto, TypeOK
    <3>4. (Told(r)' <=> Told(r)) /\ Counted(r)' = Counted(r)  BY <3>3 DEF Told, Counted
    <3>. QED  BY <3>1, <3>2, <3>3, <3>4 DEF Asking, Out, Bak
  <2>. QED  BY <2>1, <2>2
<1>5. ASSUME NEW p \in PE, Run(p) PROVE Asking(r)'
  <2>1. UNCHANGED setup  BY <1>5 DEF Run, setup
  <2>2. /\ Told(r)' <=> Told(r)
        /\ pc'[r] = "tell" => pc[r] = "tell" \/ r \in seginfo_table[r]
        /\ Told(r) /\ pc'[r] # "wait_replies" =>
             pc[r] # "wait_replies" \/ replies[r] = Cardinality(PE) - 1
    BY <1>5 DEF Run, Goto, TypeOK, Place, Told
  <2>. QED  BY <2>1, <2>2, AskingKept
<1>6. ASSUME NEW p \in PE, LeaveBarrierAll(p) PROVE Asking(r)'
  <2>1. UNCHANGED setup  BY <1>6 DEF LeaveBarrierAll, setup
  <2>2. /\ Told(r)' <=> Told(r)
        /\ pc'[r] = "tell" => pc[r] = "tell" \/ r \in seginfo_table[r]
        /\ Told(r) /\ pc'[r] # "wait_replies" =>
             pc[r] # "wait_replies" \/ replies[r] = Cardinality(PE) - 1
    BY <1>6 DEF LeaveBarrierAll, Goto, Passed, TypeOK, Place, Told
  <2>. QED  BY <2>1, <2>2, AskingKept
<1>7. ASSUME NEW p \in PE, ExitBarrier(p) PROVE Asking(r)'
  <2>1. UNCHANGED setup  BY <1>7 DEF ExitBarrier, setup
  <2>2. /\ Told(r)' <=> Told(r)
        /\ pc'[r] = "tell" => pc[r] = "tell" \/ r \in seginfo_table[r]
        /\ Told(r) /\ pc'[r] # "wait_replies" =>
             pc[r] # "wait_replies" \/ replies[r] = Cardinality(PE) - 1
    BY <1>7 DEF ExitBarrier, Goto, Passed, shmemi_service_finalize, TypeOK, Place, Told
  <2>. QED  BY <2>1, <2>2, AskingKept
<1>8. ASSUME NEW p \in PE, Shutdown(p) PROVE Asking(r)'
  <2>1. UNCHANGED setup  BY <1>8 DEF Shutdown, setup
  <2>2. /\ Told(r)' <=> Told(r)
        /\ pc'[r] = "tell" => pc[r] = "tell" \/ r \in seginfo_table[r]
        /\ Told(r) /\ pc'[r] # "wait_replies" =>
             pc[r] # "wait_replies" \/ replies[r] = Cardinality(PE) - 1
    BY <1>8 DEF Shutdown, Goto, shmemi_tracers_fini, TypeOK, Place, Told
  <2>. QED  BY <2>1, <2>2, AskingKept
<1>9. ASSUME NEW p \in PE, ExitWhenDown(p) PROVE Asking(r)'
  <2>1. UNCHANGED setup  BY <1>9 DEF ExitWhenDown, setup
  <2>2. /\ Told(r)' <=> Told(r)
        /\ pc'[r] = "tell" => pc[r] = "tell" \/ r \in seginfo_table[r]
        /\ Told(r) /\ pc'[r] # "wait_replies" =>
             pc[r] # "wait_replies" \/ replies[r] = Cardinality(PE) - 1
    BY <1>9 DEF ExitWhenDown, Goto, TypeOK, Place, Told
  <2>. QED  BY <2>1, <2>2, AskingKept
<1>10. ASSUME NEW p \in PE, SegsetupBakStore(p) PROVE Asking(r)'
  <2>1. UNCHANGED <<net, pc, heap, seginfo_table>>
    BY <1>10 DEF SegsetupBakStore, program
  <2>2. Unanswered(r)' = Unanswered(r) /\ (Told(r)' <=> Told(r))
    BY <2>1 DEF Unanswered, Told
  <2>3. Counted(r)' = Counted(r) /\ (hsl'[r] # Free => hsl'[r] = replies'[r])
    BY <1>10 DEF SegsetupBakStore, Counted, Asking, TypeOK, Free
  <2>4. CASE r # p
    <3>1. replies'[r] = replies[r] /\ hsl'[r] = hsl[r]
      BY <1>10, <2>4 DEF SegsetupBakStore, TypeOK
    <3>. QED  BY <2>1, <2>2, <2>3, <3>1 DEF Asking, Out, Bak
  <2>5. CASE r = p
    <3>1. hsl[r] # Free  BY <1>10, <2>5 DEF SegsetupBakStore
    <3>2. Told(r)  BY <3>1 DEF Asking
    <3>3. Cardinality(Unanswered(r)) \in Nat /\ Cardinality(PE) \in Nat /\ replies[r] \in Nat
      BY LifecycleAssumption, FS_Subset, FS_CardinalityType DEF Unanswered, TypeOK
    <3>4. Cardinality(Unanswered(r)) + Counted(r) = Cardinality(PE) - 1
      BY <3>2 DEF Asking
    <3>5. Counted(r) = replies[r] + 1  BY <3>1 DEF Counted
    <3>6. replies[r] # Cardinality(PE) - 1  BY <3>3, <3>4, <3>5
    <3>7. pc[r] = "wait_replies"  BY <3>2, <3>6 DEF Asking
    <3>. QED  BY <2>1, <2>2, <2>3, <3>2, <3>7 DEF Asking, Out, Bak
  <2>. QED  BY <2>4, <2>5
<1>11. ASSUME NEW p \in PE, ServiceStops(p) PROVE Asking(r)'
  <2>1. UNCHANGED setup  BY <1>11 DEF ServiceStops, setup
  <2>2. /\ Told(r)' <=> Told(r)
        /\ pc'[r] = "tell" => pc[r] = "tell" \/ r \in seginfo_table[r]
        /\ Told(r) /\ pc'[r] # "wait_replies" =>
             pc[r] # "wait_replies" \/ replies[r] = Cardinality(PE) - 1
    BY <1>11 DEF ServiceStops, TypeOK, Place, Told
  <2>. QED  BY <2>1, <2>2, AskingKept
<1>12. ASSUME NEW p \in PE, InitAgain(p) PROVE Asking(r)'
  <2>1. UNCHANGED setup  BY <1>12 DEF InitAgain, setup
  <2>2. /\ Told(r)' <=> Told(r)
        /\ pc'[r] = "tell" => pc[r] = "tell" \/ r \in seginfo_table[r]
        /\ Told(r) /\ pc'[r] # "wait_replies" =>
             pc[r] # "wait_replies" \/ replies[r] = Cardinality(PE) - 1
    BY <1>12 DEF InitAgain, shmemi_trace, TypeOK, Place, Told
  <2>. QED  BY <2>1, <2>2, AskingKept
<1>13. ASSUME NEW p \in PE, BarrierAll(p) PROVE Asking(r)'
  <2>1. UNCHANGED setup  BY <1>13 DEF BarrierAll, setup
  <2>2. /\ Told(r)' <=> Told(r)
        /\ pc'[r] = "tell" => pc[r] = "tell" \/ r \in seginfo_table[r]
        /\ Told(r) /\ pc'[r] # "wait_replies" =>
             pc[r] # "wait_replies" \/ replies[r] = Cardinality(PE) - 1
    BY <1>13 DEF BarrierAll, Goto, Notify, Quiet, TypeOK, Place, Told
  <2>. QED  BY <2>1, <2>2, AskingKept
<1>14. ASSUME NEW p \in PE, Finalize(p) PROVE Asking(r)'
  <2>1. UNCHANGED setup  BY <1>14 DEF Finalize, setup
  <2>2. /\ Told(r)' <=> Told(r)
        /\ pc'[r] = "tell" => pc[r] = "tell" \/ r \in seginfo_table[r]
        /\ Told(r) /\ pc'[r] # "wait_replies" =>
             pc[r] # "wait_replies" \/ replies[r] = Cardinality(PE) - 1
    BY <1>14 DEF Finalize, Goto, Notify, shmemi_comms_exit, TypeOK, Place, Told
  <2>. QED  BY <2>1, <2>2, AskingKept
<1>15. ASSUME NEW p \in PE, Exit(p) PROVE Asking(r)'
  <2>1. UNCHANGED setup  BY <1>15 DEF Exit, setup
  <2>2. /\ Told(r)' <=> Told(r)
        /\ pc'[r] = "tell" => pc[r] = "tell" \/ r \in seginfo_table[r]
        /\ Told(r) /\ pc'[r] # "wait_replies" =>
             pc[r] # "wait_replies" \/ replies[r] = Cardinality(PE) - 1
    BY <1>15 DEF Exit, Goto, Notify, shmemi_comms_exit, TypeOK, Place, Told
  <2>. QED  BY <2>1, <2>2, AskingKept
<1>16. ASSUME NEW m \in net, SegsetupOut(m) PROVE Asking(r)'
  <2>0. PICK p \in PE, q \in PE : m = Out(p, q)
    BY <1>16 DEF SegsetupOut, TypeOK, Out
  <2>1. /\ UNCHANGED <<pc, heap, replies, hsl>>
        /\ Out(p, q) \in net
        /\ net' = (net \ {Out(p, q)}) \cup {Bak(q, p)}
        /\ \A s \in PE : seginfo_table[s] \subseteq seginfo_table'[s]
        /\ p \in seginfo_table'[q]
    BY <1>16, <2>0 DEF SegsetupOut, program, TypeOK, Out, Bak
  <2>2. (Told(r)' <=> Told(r)) /\ Counted(r)' = Counted(r)
    BY <2>1 DEF Told, Counted
  <2>3. /\ \A s \in PE : Out(r, s) \in net' <=> Out(r, s) \in net /\ ~(r = p /\ s = q)
        /\ \A s \in PE : Bak(s, r) \in net' <=> Bak(s, r) \in net \/ (r = p /\ s = q)
    BY <2>1 DEF Out, Bak
  <2>4. Unanswered(r)' = Unanswered(r)
    BY <2>1, <2>3 DEF Unanswered, Out, Bak
  <2>5. \A s \in PE : Out(r, s) \notin net' \/ Bak(s, r) \notin net'
    BY <2>1, <2>3 DEF Asking
  <2>6. \A s \in PE \ {r} : Told(r) => Out(r, s) \in net' \/ r \in seginfo_table'[s]
    BY <2>1, <2>3 DEF Asking
  <2>. QED  BY <2>1, <2>2, <2>4, <2>5, <2>6 DEF Asking, Out, Bak
<1>17. ASSUME NEW m \in net, SegsetupBak(m) PROVE Asking(r)'
  <2>0. PICK q \in PE, p \in PE : m = Bak(q, p)
    BY <1>17 DEF SegsetupBak, TypeOK, Bak
  <2>1. /\ UNCHANGED <<pc, heap, replies, seginfo_table>>
        /\ Bak(q, p) \in net
        /\ net' = net \ {Bak(q, p)}
        /\ hsl[p] = Free /\ hsl' = [hsl EXCEPT ![p] = replies[p]]
    BY <1>17, <2>0 DEF SegsetupBak, program, Bak
  <2>2. Told(r)' <=> Told(r)  BY <2>1 DEF Told
  <2>3. /\ \A s \in PE : Out(r, s) \in net' <=> Out(r, s) \in net
        /\ \A s \in PE : Bak(s, r) \in net' <=> Bak(s, r) \in net /\ ~(r = p /\ s = q)
    BY <2>1 DEF Out, Bak
  <2>4. CASE r # p
    <3>1. Unanswered(r)' = Unanswered(r) /\ hsl'[r] = hsl[r]
      BY <2>1, <2>3, <2>4 DEF Unanswered, Out, Bak, TypeOK
    <3>2. Counted(r)' = Counted(r)  BY <2>1, <3>1 DEF Counted
    <3>. QED  BY <2>1, <2>2, <2>3, <3>1, <3>2 DEF Asking, Out, Bak
  <2>5. CASE r = p
    <3>1. q \in Unanswered(r) /\ Out(r, q) \notin net
      BY <2>1, <2>5 DEF Unanswered, Asking
    <3>2. Unanswered(r)' = Unanswered(r) \ {q}
      BY <2>1, <2>3, <2>5, <3>1 DEF Unanswered, Out, Bak
    <3>3. IsFiniteSet(Unanswered(r))
      BY LifecycleAssumption, FS_Subset DEF Unanswered
    <3>4. /\ Cardinality(Unanswered(r)) \in Nat
          /\ Cardinality(Unanswered(r) \ {q}) = Cardinality(Unanswered(r)) - 1
      BY <3>1, <3>3, FS_CardinalityType, FS_RemoveElement
    <3>5. hsl'[r] = replies[r] /\ replies[r] \in Nat /\ hsl[r] = Free
      BY <2>1, <2>5 DEF TypeOK
    <3>6. Counted(r)' = Counted(r) + 1 /\ Counted(r) \in Nat
      BY <2>1, <3>5 DEF Counted, Free
    <3>7. Told(r)  BY <3>1 DEF Asking
    <3>8. Cardinality(Unanswered(r))' + Counted(r)' = Cardinality(PE) - 1
      <4>1. Cardinality(Unanswered(r)) + Counted(r) = Cardinality(PE) - 1
        BY <3>7 DEF Asking
      <4>2. Cardinality(Unanswered(r))' = Cardinality(Unanswered(r)) - 1
        BY <3>2, <3>4
      <4>. QED  BY <3>4, <3>6, <4>1, <4>2
    <3>9. r \notin Unanswered(r)'  BY <3>2 DEF Asking
    <3>. QED  BY <2>1, <2>2, <2>3, <3>5, <3>7, <3>8, <3>9 DEF Asking, Out, Bak
  <2>. QED  BY <2>4, <2>5
<1>18. ASSUME NEW p \in PE, NEW q \in PE \cup {Cardinality(PE)}, Put(p, q) PROVE Asking(r)'
  <2>1. UNCHANGED setup  BY <1>18 DEF Put, setup
  <2>2. /\ Told(r)' <=> Told(r)
        /\ pc'[r] = "tell" => pc[r] = "tell" \/ r \in seginfo_table[r]
        /\ Told(r) /\ pc'[r] # "wait_replies" =>
             pc[r] # "wait_replies" \/ replies[r] = Cardinality(PE) - 1
    BY <1>18 DEF Put, PE_RANGE_CHECK, TypeOK, Place, Told
  <2>. QED  BY <2>1, <2>2, AskingKept
<1>19. ASSUME NEW p \in PE, NEW q \in PE \cup {Cardinality(PE)}, PutToNobody(p, q)
     PROVE Asking(r)'
  <2>1. UNCHANGED setup  BY <1>19 DEF PutToNobody, setup
  <2>2. /\ Told(r)' <=> Told(r)
        /\ pc'[r] = "tell" => pc[r] = "tell" \/ r \in seginfo_table[r]
        /\ Told(r) /\ pc'[r] # "wait_replies" =>
             pc[r] # "wait_replies" \/ replies[r] = Cardinality(PE) - 1
    BY <1>19
         DEF PutToNobody, Goto, Notify, shmemi_comms_exit, shmemi_trace, TypeOK, Place, Told
  <2>. QED  BY <2>1, <2>2, AskingKept
<1>20. ASSUME NEW m \in puts, Land(m) PROVE Asking(r)'
  <2>1. UNCHANGED setup  BY <1>20 DEF Land, setup
  <2>2. /\ Told(r)' <=> Told(r)
        /\ pc'[r] = "tell" => pc[r] = "tell" \/ r \in seginfo_table[r]
        /\ Told(r) /\ pc'[r] # "wait_replies" =>
             pc[r] # "wait_replies" \/ replies[r] = Cardinality(PE) - 1
    BY <1>20 DEF Land, TypeOK, Place, Told
  <2>. QED  BY <2>1, <2>2, AskingKept
<1>. QED  BY <1>0, <1>1, <1>2, <1>3, <1>4, <1>5, <1>6, <1>7, <1>8, <1>9, <1>10, <1>11,
     <1>12, <1>13, <1>14, <1>15, <1>16, <1>17, <1>18, <1>19, <1>20 DEF Next, Program, Handle

\* The size is set once, by StartUp.
LEMMA SizedStep ==
  ASSUME TypeOK, NEW r \in PE, Sized(r), [Next]_vars
  PROVE  Sized(r)'
<1>. DEFINE Kept == UNCHANGED <<given, heapsize>> /\ (pc'[r] # "start" => pc[r] # "start")
<1>a. Kept => Sized(r)'  BY DEF Sized, AsAsked
<1>0. CASE UNCHANGED vars
  <2>1. Kept  BY <1>0 DEF vars
  <2>. QED  BY <1>a, <2>1
<1>1. ASSUME NEW p \in PE, StartUp(p) PROVE Sized(r)'
  <2>1. CASE r # p
    <3>1. pc'[r] = pc[r] /\ heapsize'[r] = heapsize[r] /\ given' = given
      BY <1>1, <2>1 DEF StartUp, Goto, TypeOK
    <3>. QED  BY <3>1 DEF Sized, AsAsked
  <2>2. CASE r = p
    <3>1. PICK size \in shmemi_comms_get_segment_size(given.env) :
            heapsize' = [heapsize EXCEPT ![p] = size.bytes]
      BY <1>1 DEF StartUp
    <3>2. heapsize'[r] = size.bytes /\ given' = given
      BY <1>1, <2>2, <3>1 DEF StartUp, TypeOK
    <3>3. IsEnvironment(given.env)  BY LifecycleAssumption DEF TypeOK
    <3>. QED  BY <3>2, <3>3, SegmentAsAsked DEF Sized, AsAsked
  <2>. QED  BY <2>1, <2>2
<1>2. ASSUME NEW p \in PE, AllocateHeap(p) PROVE Kept
  BY <1>2 DEF AllocateHeap, setup, output, Goto, Notify, comms_bailout, shmemi_comms_exit,
       TypeOK
<1>3. ASSUME NEW p \in PE, StoreOwn(p) PROVE Kept
  BY <1>3 DEF StoreOwn, setup, output, Goto, Passed, TypeOK
<1>4. ASSUME NEW p \in PE, TellOthers(p) PROVE Kept
  BY <1>4 DEF TellOthers, setup, output, Goto, TypeOK
<1>5. ASSUME NEW p \in PE, Run(p) PROVE Kept
  BY <1>5 DEF Run, setup, output, Goto, TypeOK
<1>6. ASSUME NEW p \in PE, LeaveBarrierAll(p) PROVE Kept
  BY <1>6 DEF LeaveBarrierAll, setup, output, Goto, Passed, TypeOK
<1>7. ASSUME NEW p \in PE, ExitBarrier(p) PROVE Kept
  BY <1>7 DEF ExitBarrier, setup, output, Goto, Passed, shmemi_service_finalize, TypeOK
<1>8. ASSUME NEW p \in PE, Shutdown(p) PROVE Kept
  BY <1>8 DEF Shutdown, setup, output, Goto, shmemi_tracers_fini, TypeOK
<1>9. ASSUME NEW p \in PE, ExitWhenDown(p) PROVE Kept
  BY <1>9 DEF ExitWhenDown, setup, output, Goto, TypeOK
<1>10. ASSUME NEW p \in PE, SegsetupBakStore(p) PROVE Kept
  BY <1>10 DEF SegsetupBakStore, setup, output, program, TypeOK
<1>11. ASSUME NEW p \in PE, ServiceStops(p) PROVE Kept
  BY <1>11 DEF ServiceStops, setup, output, TypeOK
<1>12. ASSUME NEW p \in PE, InitAgain(p) PROVE Kept
  BY <1>12 DEF InitAgain, setup, output, shmemi_trace, TypeOK
<1>13. ASSUME NEW p \in PE, BarrierAll(p) PROVE Kept
  BY <1>13 DEF BarrierAll, setup, output, Goto, Notify, Quiet, TypeOK
<1>14. ASSUME NEW p \in PE, Finalize(p) PROVE Kept
  BY <1>14 DEF Finalize, setup, output, Goto, Notify, shmemi_comms_exit, TypeOK
<1>15. ASSUME NEW p \in PE, Exit(p) PROVE Kept
  BY <1>15 DEF Exit, setup, output, Goto, Notify, shmemi_comms_exit, TypeOK
<1>16. ASSUME NEW m \in net, SegsetupOut(m) PROVE Kept
  BY <1>16 DEF SegsetupOut, setup, output, program, TypeOK
<1>17. ASSUME NEW m \in net, SegsetupBak(m) PROVE Kept
  BY <1>17 DEF SegsetupBak, setup, output, program, TypeOK
<1>18. ASSUME NEW p \in PE, NEW q \in PE \cup {Cardinality(PE)}, Put(p, q) PROVE Kept
  BY <1>18 DEF Put, setup, output, PE_RANGE_CHECK, TypeOK
<1>19. ASSUME NEW p \in PE, NEW q \in PE \cup {Cardinality(PE)}, PutToNobody(p, q) PROVE Kept
  BY <1>19
       DEF PutToNobody, setup, output, Goto, Notify, shmemi_comms_exit, shmemi_trace, TypeOK
<1>20. ASSUME NEW m \in puts, Land(m) PROVE Kept
  BY <1>20 DEF Land, setup, output, TypeOK
<1>. HIDE DEF Kept
<1>. QED  BY <1>a, <1>0, <1>1, <1>2, <1>3, <1>4, <1>5, <1>6, <1>7, <1>8, <1>9, <1>10, <1>11,
     <1>12, <1>13, <1>14, <1>15, <1>16, <1>17, <1>18, <1>19, <1>20 DEF Next, Program, Handle

-----------------------------------------------------------------------------
\* A job starts with its books in order.
LEMMA InitIInv == Init => IInv
<1>. SUFFICES ASSUME Init PROVE IInv
  OBVIOUS
<1>0. SizeMod \in Nat \ {0} /\ Barriers \in Nat
  BY EnvironmentAssumption, LifecycleAssumption
<1>1. TypeOK  BY <1>0 DEF Init, TypeOK, Places, Free
<1>2. ASSUME NEW p \in PE
      PROVE  Place(p) /\ Status(p) /\ Met(p) /\ Asking(p) /\ Sized(p)
  <2>1. Unanswered(p) = {}  BY DEF Init, Unanswered
  <2>2. pc[p] = "start" /\ hsl[p] = Free /\ net = {} /\ replies[p] = 0  BY DEF Init
  <2>3. Asking(p)  BY <2>1, <2>2 DEF Asking, Told
  <2>4. Place(p) /\ Status(p) /\ Met(p) /\ Sized(p)
    BY <1>0 DEF Init, Place, Status, Met, Sized
  <2>. QED  BY <2>3, <2>4
<1>3. \A m \in puts : Issued(m)  BY DEF Init
<1>. QED  BY <1>1, <1>2, <1>3 DEF IInv

\* The inductive invariant holds in every state of every job.
THEOREM LifecycleInvariant == Spec => []IInv
<1>1. Init => IInv  BY InitIInv
<1>2. IInv /\ [Next]_vars => IInv'
  <2>. SUFFICES ASSUME IInv, [Next]_vars PROVE IInv'
    OBVIOUS
  <2>0. TypeOK /\ \A p \in PE : Place(p)  BY DEF IInv
  <2>1. TypeOK'  BY <2>0, TypeStep
  <2>2. ASSUME NEW p \in PE
        PROVE  (Place(p) /\ Status(p) /\ Met(p) /\ Asking(p) /\ Sized(p))'
    <3>1. Place(p) /\ Status(p) /\ Met(p) /\ Asking(p) /\ Sized(p)  BY DEF IInv
    <3>. QED  BY <2>0, <3>1, PlaceStep, StatusStep, MetStep, AskingStep, SizedStep
  <2>3. \A i \in puts' : Issued(i)'  BY <2>0, IssuedStep DEF IInv
  <2>. QED  BY <2>1, <2>2, <2>3 DEF IInv
<1>. QED  BY <1>1, <1>2, PTL DEF Spec

\* Who is up has all its replies, and every one came from a PE that knows its heap.
LEMMA KnownWhenUp ==
  ASSUME IInv, NEW p \in PE, NEW q \in PE, pe_status[p] # "UNINITIALIZED"
  PROVE  p \in seginfo_table[q]
<1>0. TypeOK /\ Place(p) /\ Status(p) /\ Asking(p)  BY DEF IInv
<1>1. Told(p) /\ pc[p] # "wait_replies"
  BY <1>0 DEF TypeOK, Places, Place, Status, Told
<1>2. replies[p] = Cardinality(PE) - 1  BY <1>0, <1>1 DEF Asking
<1>3. Cardinality(Unanswered(p)) + Counted(p) = Cardinality(PE) - 1
  BY <1>0, <1>1 DEF Asking
<1>4. Unanswered(p) = {}
  <2>1. IsFiniteSet(Unanswered(p)) /\ Cardinality(PE) \in Nat
    BY LifecycleAssumption, FS_Subset, FS_CardinalityType DEF Unanswered
  <2>2. Cardinality(Unanswered(p)) \in Nat  BY <2>1, FS_CardinalityType
  <2>3. Cardinality(Unanswered(p)) = 0  BY <1>2, <1>3, <2>1, <2>2 DEF Counted
  <2>. QED  BY <2>1, <2>3, FS_EmptySet
<1>5. Out(p, q) \notin net  BY <1>4 DEF Unanswered
<1>. QED  BY <1>0, <1>1, <1>5 DEF Asking

\* A heap is freed behind the last barrier, which all have called.
LEMMA FreedWhenLeaving ==
  ASSUME IInv, NEW p \in PE, NEW q \in PE, heap[p] = "freed"
  PROVE  Leaving(q)
<1>0. /\ TypeOK /\ Place(p) /\ Place(q) /\ Met(p)
      /\ Barriers \in Nat /\ barcount[q] \in Nat /\ called[q] \in Nat
  BY LifecycleAssumption DEF IInv, TypeOK
<1>1. pc[p] \in {"down", "gone"} /\ barcount[p] = Barriers + 2
  BY <1>0 DEF TypeOK, Places, Place
<1>2. barcount[q] >= Barriers + 2  BY <1>0, <1>1 DEF Met
<1>. QED  BY <1>0, <1>2 DEF TypeOK, Places, Place, Leaving

\* A put that is on its way holds its PE before the barrier that is to flush it.
LEMMA FlushedWhenLeft ==
  ASSUME IInv, NEW m \in puts, NEW q \in PE, called[q] > m.call
  PROVE  called[q] = m.call + 1 /\ pc[q] \in {"barrier_all", "crashed"}
<1>. DEFINE s == m.src
<1>0. /\ TypeOK /\ s \in PE /\ Place(s) /\ Place(q) /\ Met(q) /\ Issued(m)
      /\ Barriers \in Nat /\ called[s] \in Nat /\ called[q] \in Nat
      /\ barcount[s] \in Nat /\ barcount[q] \in Nat
  BY LifecycleAssumption DEF IInv, TypeOK
<1>1. called[s] = m.call  BY <1>0 DEF Issued
<1>2. called[s] < Barriers /\ called[q] > 0 /\ called[q] > called[s]
  BY <1>0, <1>1 DEF Place
<1>3. pc[s] = "running" /\ barcount[s] = called[s] + 1
  BY <1>0, <1>2 DEF Issued, Place
<1>4. pc[q] \in {"running", "barrier_all", "exit_barrier", "join_service", "down", "gone",
     "crashed"}
  BY <1>0, <1>2 DEF TypeOK, Places, Place
<1>5. CASE pc[q] \in {"running", "join_service", "down", "gone"}
  <2>1. barcount[s] >= barcount[q] /\ barcount[q] > called[q]
    BY <1>0, <1>2, <1>5 DEF Met, Place
  <2>. QED  BY <1>0, <1>2, <1>3, <2>1
<1>6. CASE pc[q] = "exit_barrier"
  <2>1. barcount[s] >= barcount[q] - 1 /\ barcount[q] = called[q] + 2
    BY <1>0, <1>2, <1>6 DEF Met, Place
  <2>. QED  BY <1>0, <1>2, <1>3, <2>1
<1>7. CASE pc[q] \in {"barrier_all", "crashed"}
  <2>1. barcount[s] >= called[q]
    BY <1>0, <1>2, <1>7 DEF Met, Place
  <2>. QED  BY <1>0, <1>1, <1>2, <1>3, <1>7, <2>1
<1>. QED  BY <1>4, <1>5, <1>6, <1>7

\* The heap of a PE that has come up is known to all, is freed only when all are
\* leaving, and what a shmem_barrier_all flushes is there when anyone has left it
\* (shmemi_symmetric_memory_init, shmemi_comms_exit, shmem_barrier_all).
THEOREM HeapsStayReachable == Spec => []HeapsReachable
<1>1. IInv => HeapsReachable
  <2>. SUFFICES ASSUME IInv PROVE HeapsReachable
    OBVIOUS
  <2>1. HeapsKnown  BY KnownWhenUp DEF HeapsKnown
  <2>2. FreedAtTheEnd  BY FreedWhenLeaving DEF FreedAtTheEnd
  <2>3. FlushedByBarrier  BY FlushedWhenLeft DEF FlushedByBarrier
  <2>. QED  BY <2>1, <2>2, <2>3 DEF HeapsReachable
<1>. QED  BY <1>1, LifecycleInvariant, PTL

\* A heap is the least number of whole pages that holds what the environment asks
\* for, if a size_t can tell it (utils/unitparse.c:106, shmemi_comms_get_segment_size).
THEOREM HeapsHaveTheirSize == Spec => []HeapAsAsked
<1>1. IInv => HeapAsAsked
  <2>. SUFFICES ASSUME IInv, CanBeHad(given.env), NEW p \in PE, heap[p] # "none"
                PROVE  AsAsked(heapsize[p])
    BY DEF HeapAsAsked, AsAsked
  <2>1. Place(p) /\ Sized(p)  BY DEF IInv
  <2>2. pc[p] # "start"  BY <2>1 DEF Place
  <2>. QED  BY <2>1, <2>2 DEF Sized
<1>. QED  BY <1>1, LifecycleInvariant, PTL

=============================================================================
