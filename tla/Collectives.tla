---------------------------- MODULE Collectives ----------------------------
(***************************************************************************)
(* The collectives built from puts, gets and shmem_barrier: shmem_collect  *)
(* (collect/collect-linear.c), shmem_fcollect (fcollect/fcollect-linear.c),*)
(* the linear shmem_broadcast (broadcast/broadcast-linear.c) and the       *)
(* reductions, shmemi_udr_*_to_all (reduce/reduce-op.c), called in any     *)
(* order by PEs that may be a call apart.                                  *)
(*                                                                         *)
(* shmem_barrier is SyncBarrier, which BarrierLinear implements, after the *)
(* quiet that shmem_barrier starts with.  It uses pSync[0] and pSync[1];   *)
(* collect's acc_off is the last entry of pSync, which it shares with      *)
(* nobody.                                                                 *)
(*                                                                         *)
(* The data is named: item i that PE p passes to call n is                 *)
(* [pe |-> p, call |-> n, elem |-> i], and what an area holds is the       *)
(* sequence of the items combined in it, one unless a reduction combined   *)
(* more.  An item is an element of a reduction and a word of 4 bytes of    *)
(* the other collectives, which have routines for elements of 32 and 64    *)
(* bits.  Each call has a target of its own, except that a reduction in    *)
(* place has the source area as its target.                                *)
(***************************************************************************)
EXTENDS ActiveSet, FiniteSets, Functions, Sequences
Header == INSTANCE Headers

CONSTANTS
  Ops,                      \* the operations the program calls
  InFortran,                \* the PEs whose program is in Fortran
  Linear,                   \* the operations whose SHMEM_..._ALGORITHM says "linear"
  PE_root,                  \* the root of broadcasts, as an index
  SHMEM_REDUCE_MIN_WRKDATA_SIZE, \* the elements a reduction gets at a time
  Wide,                     \* the calls with elements of 8 bytes, the others have 4
  Counts, EqualCounts,      \* bounds: how many elements a PE may pass to collect, to the others
  MaxCount,                 \* bound: at most so many
  Separated                 \* the operations the program synchronises after

Reductions == {"reduce", "reduce in place"}

ASSUME CollectivesAssumption ==
  /\ Ops \subseteq {"collect", "fcollect", "broadcast"} \cup Reductions
  /\ Linear \subseteq Ops /\ Wide \subseteq 1 .. MaxCalls /\ InFortran \subseteq Nat
  /\ PE_root \in 0 .. PE_size - 1
  /\ SHMEM_REDUCE_MIN_WRKDATA_SIZE \in Nat \ {0}
  /\ MaxCount \in Nat /\ Counts \subseteq 0 .. MaxCount /\ EqualCounts \subseteq Counts
  /\ Separated \subseteq Ops

last_pe == PE_start + step * (PE_size - 1)
End == PE_start + step * PE_size
root == PE_root * step + PE_start
vpe(p) == (p - PE_start) \div step

VARIABLES
  ops,      \* the operation of each call: the PEs agree about it
  nelems,   \* how many elements each PE passes to each call
  bits,     \* the size the routine each PE has called is for
  acc_off,  \* pSync[SHMEM_COLLECT_SYNC_SIZE - 1] of each PE
  pe, si,   \* the loops of a reduction: the PE and the next element to get
  tmptrg,   \* where each PE builds the result of a reduction in place
  arrived, left  \* the barrier

\* target[p][n] is what call n has written on p, by offset.
vars == <<ops, nelems, bits, calls, pc, acc_off, pe, si, source, target, tmptrg, flight,
          arrived, left>>
program == <<ops, nelems, bits, calls>>
loops == <<pe, si>>
areas == <<source, target, tmptrg>>
barrier == <<arrived, left>>

Barrier == INSTANCE SyncBarrier

\* The routines for elements of so many bits, and the bits of the routine that
\* each Fortran one calls.
shmem_broadcast == {32, 64}
shmem_fcollect == {32, 64}
shmem_collect == {32, 64}
Named == {4, 8, 32, 64}
fortran_broadcast == [n \in Named |-> IF n \in {4, 32} THEN 32 ELSE 64]
Bug_fortran_fcollect == [n \in Named |-> IF n = 64 THEN 64 ELSE 32]
fortran_fcollect == [n \in Named |-> IF n \in {4, 32} THEN 32 ELSE 64]
fortran_collect == [n \in Named |-> IF n \in {4, 32} THEN 32 ELSE 64]

\* Fortran names tell bytes or bits.
SizeNamed(n) == IF n \in {4, 8} THEN n ELSE n \div 8

\* Those whose routine has another name too in a library built for profiling.
weak_broadcast == {32, 64}
weak_fcollect == {32, 64}
weak_collect == {32, 64}

\* The collectives that move data, and what a C program's headers let it call.
Routines == [
  broadcast |-> [c |-> shmem_broadcast, fortran |-> fortran_broadcast, declared |->
    Header!shmem_broadcast \cup (Header!pshmem_broadcast \cap weak_broadcast)],
  fcollect |-> [c |-> shmem_fcollect, fortran |-> fortran_fcollect, declared |->
    Header!shmem_fcollect \cup (Header!pshmem_fcollect \cap weak_fcollect)],
  collect |-> [c |-> shmem_collect, fortran |-> fortran_collect, declared |->
    Header!shmem_collect \cup (Header!pshmem_collect \cap weak_collect)]]

\* What p may call for elements of sz bytes.
RoutineOf(p, op, sz) ==
  IF op \in Reductions THEN {32}
  ELSE IF p \in InFortran
  THEN {Routines[op].fortran[n] : n \in {k \in Named : SizeNamed(k) = sz}}
  ELSE {b \in Routines[op].c \cap Routines[op].declared : b \div 8 = sz}

\* Which implementation runs: the environment's or the default.
Implementation(op) ==
  IF op \in Linear THEN "linear" ELSE IF op = "broadcast" THEN "tree" ELSE "linear"

Size(n) == IF n \in Wide THEN 8 ELSE 4
Op(p) == ops[calls[p]]
Passed(q, call) == nelems[call][q]
Elems(p) == Passed(p, calls[p])

\* The words of one element of the routine that p is in, of all its elements.
Word(p) == bits[p] \div 32
Words(p) == Elems(p) * Word(p)

Datum(q, call, i) == <<[pe |-> q, call |-> call, elem |-> i]>>
Area == 0 .. 2 * MaxCount - 1

\* n items of q's source area, at offset off.
Slice(q, off, n) == [k \in off .. off + n - 1 |-> source[q][k - off]]

\* All but collect expect the same number of elements of all PEs.
SameEverywhere == {[p \in Member |-> c] : c \in EqualCounts}

Nothing == [k \in {} |-> <<>>]

\* An area after f has been written to it.
Over(f, g) == [k \in DOMAIN f \cup DOMAIN g |-> IF k \in DOMAIN f THEN f[k] ELSE g[k]]

Init ==
  /\ ops \in [1 .. MaxCalls -> Ops]
  /\ nelems \in [1 .. MaxCalls -> [Member -> Counts]]
  /\ \A n \in 1 .. MaxCalls :
       /\ Implementation(ops[n]) = "linear"
       /\ ops[n] # "collect" => nelems[n] \in SameEverywhere
  /\ bits = [p \in Member |-> 32]
  /\ calls = [p \in Member |-> 0]
  /\ pc = [p \in Member |-> "outside"]
  /\ acc_off = [p \in Member |-> SYNC]
  /\ pe = [p \in Member |-> PE_start]
  /\ si = [p \in Member |-> 0]
  /\ source = [p \in Member |-> [i \in Area |-> <<>>]]
  /\ target = [p \in Member |-> [n \in 1 .. MaxCalls |-> Nothing]]
  /\ tmptrg = [p \in Member |-> Nothing]
  /\ flight = {}
  /\ Barrier!Init

-----------------------------------------------------------------------------
\* A call with new data in the source area.  After an operation of Separated the
\* program has seen all PEs through it.
Call(p) ==
  /\ pc[p] = "outside"
  /\ calls[p] < MaxCalls
  /\ calls[p] > 0 /\ Op(p) \in Separated =>
       \A q \in Member : calls[q] > calls[p] \/ (calls[q] = calls[p] /\ pc[q] = "outside")
  /\ calls' = [calls EXCEPT ![p] = @ + 1]
  /\ \E b \in RoutineOf(p, ops[calls[p] + 1], Size(calls[p] + 1)) : bits' = [bits EXCEPT ![p] = b]
  /\ source' = [source EXCEPT ![p] = [i \in Area |-> Datum(p, calls[p] + 1, i)]]
  /\ Goto(p, CASE ops[calls[p] + 1] = "collect" -> "offset"
               [] ops[calls[p] + 1] = "fcollect" -> "put"
               [] ops[calls[p] + 1] = "broadcast" -> "arrive"
               [] ops[calls[p] + 1] \in Reductions -> "initialize")
  /\ UNCHANGED <<ops, nelems, acc_off, loops, target, tmptrg, flight, barrier>>

-----------------------------------------------------------------------------
\* collect and fcollect

\* The left-most PE starts the wave of offsets, the others wait for it.
Offset(p) ==
  /\ pc[p] = "offset"
  /\ IF p = PE_start
     THEN acc_off' = [acc_off EXCEPT ![p] = 0]
     ELSE acc_off[p] # SYNC /\ UNCHANGED acc_off
  /\ Goto(p, "notify")
  /\ UNCHANGED <<program, loops, areas, flight, barrier>>

\* shmem_long_p of the next offset to the right neighbour, if any.
Notify(p) ==
  /\ pc[p] = "notify"
  /\ flight' = flight \cup
       (IF p < last_pe
        THEN {[src |-> p, dst |-> p + step, what |-> "offset", val |-> acc_off[p] + Elems(p)]}
        ELSE {})
  /\ Goto(p, "put")
  /\ UNCHANGED <<program, acc_off, loops, areas, barrier>>

\* Where the slice of p goes.
Position(p) == Word(p) * (IF Op(p) = "collect" THEN acc_off[p] ELSE vpe(p) * Elems(p))

\* One put to every PE of the set, itself included.
PutSlices(p) ==
  /\ pc[p] = "put"
  /\ flight' = flight \cup
       {[src |-> p, dst |-> q, what |-> "slice", call |-> calls[p],
         val |-> Slice(p, Position(p), Words(p))] : q \in Member}
  /\ Goto(p, IF Op(p) = "collect" THEN "clean" ELSE "arrive")
  /\ UNCHANGED <<program, acc_off, loops, areas, barrier>>

CleanUp(p) ==
  /\ pc[p] = "clean"
  /\ acc_off' = [acc_off EXCEPT ![p] = SYNC]
  /\ Goto(p, "arrive")
  /\ UNCHANGED <<program, loops, areas, flight, barrier>>

-----------------------------------------------------------------------------
\* shmem_barrier: the only one of a collect or broadcast, the first of a reduction

\* The quiet comes first.
Arrive(p) ==
  /\ pc[p] = "arrive"
  /\ \A m \in flight : m.src # p
  /\ Barrier!Arrive(p)
  /\ Goto(p, "leave")
  /\ UNCHANGED <<program, acc_off, loops, areas, flight>>

\* What follows it: only the root of a broadcast has nothing to get.
Then(p) ==
  CASE Op(p) = "broadcast" /\ p # root -> "get"
    [] Op(p) \in Reductions -> "combine"
    [] OTHER -> "outside"

Bug_LeaveEarly(p) ==
  /\ pc[p] = "leave"
  /\ left' = [left EXCEPT ![p] = @ + 1]
  /\ Goto(p, Then(p))
  /\ UNCHANGED <<program, acc_off, loops, areas, flight, arrived>>

Leave(p) ==
  /\ pc[p] = "leave"
  /\ Barrier!Leave(p)
  /\ Goto(p, Then(p))
  /\ UNCHANGED <<program, acc_off, loops, areas, flight>>

\* The linear broadcast: everybody but the root gets what is at the root now.
Get(p) ==
  /\ pc[p] = "get"
  /\ target' = [target EXCEPT ![p][calls[p]] = Slice(root, 0, Words(p))]
  /\ Goto(p, "outside")
  /\ UNCHANGED <<program, acc_off, loops, source, tmptrg, flight, barrier>>

-----------------------------------------------------------------------------
\* The reductions

Overlap(p) == Op(p) = "reduce in place"

\* Where p builds its result, and what is there.
write_to(p) == IF Overlap(p) THEN tmptrg[p] ELSE target[p][calls[p]]
Write(p, v) ==
  IF Overlap(p)
  THEN tmptrg' = [tmptrg EXCEPT ![p] = v] /\ UNCHANGED <<source, target>>
  ELSE target' = [target EXCEPT ![p][calls[p]] = v] /\ UNCHANGED <<source, tmptrg>>

\* Everyone starts from its own source.
Initialize(p) ==
  /\ pc[p] = "initialize"
  /\ Write(p, Slice(p, 0, Elems(p)))
  /\ pe' = [pe EXCEPT ![p] = PE_start]
  /\ si' = [si EXCEPT ![p] = 0]
  /\ Goto(p, "arrive")
  /\ UNCHANGED <<program, acc_off, flight, barrier>>

\* The next PE; p skips itself.
NextPE(p) ==
  /\ pc[p] = "combine"
  /\ pe[p] = p \/ (pe[p] # End /\ si[p] = Elems(p))
  /\ pe' = [pe EXCEPT ![p] = @ + step]
  /\ si' = [si EXCEPT ![p] = 0]
  /\ UNCHANGED <<program, pc, acc_off, areas, flight, barrier>>

\* The elements of the chunk that begins with i, of nreduce: as many as the work
\* array holds, or what remains.
Chunk(i, nreduce) == {j \in 0 .. nreduce - 1 : i <= j /\ j < i + SHMEM_REDUCE_MIN_WRKDATA_SIZE}

\* A chunk of another PE's source is got and combined.
Combine(p) ==
  /\ pc[p] = "combine"
  /\ pe[p] \in Member \ {p}
  /\ si[p] < Elems(p)
  /\ LET now == Chunk(si[p], Elems(p))
     IN  /\ Write(p, Over([j \in now |-> write_to(p)[j] \o source[pe[p]][j]], write_to(p)))
         /\ si' = [si EXCEPT ![p] = @ + Cardinality(now)]
  /\ UNCHANGED <<program, pc, acc_off, pe, flight, barrier>>

ArriveSecond(p) ==
  /\ pc[p] = "combine"
  /\ pe[p] = End
  /\ Barrier!Arrive(p)
  /\ Goto(p, "finish")
  /\ UNCHANGED <<program, acc_off, loops, areas, flight>>

Finish(p) ==
  /\ source' = IF Overlap(p) THEN [source EXCEPT ![p] = Over(tmptrg[p], @)] ELSE source
  /\ Goto(p, "outside")
  /\ UNCHANGED <<program, acc_off, loops, target, tmptrg, flight>>

Bug_NoSecondBarrier(p) ==
  /\ pc[p] = "finish"
  /\ left' = [left EXCEPT ![p] = @ + 1] /\ UNCHANGED arrived
  /\ Finish(p)

\* When all have got what they need, the source may be overwritten: in place the
\* library does it here, otherwise the program may.
LeaveSecond(p) ==
  /\ pc[p] = "finish"
  /\ Barrier!Leave(p)
  /\ Finish(p)

-----------------------------------------------------------------------------
Land(m) ==
  /\ flight' = flight \ {m}
  /\ IF m.what = "offset"
     THEN acc_off' = [acc_off EXCEPT ![m.dst] = m.val] /\ UNCHANGED target
     ELSE target' = [target EXCEPT ![m.dst][m.call] = Over(m.val, @)] /\ UNCHANGED acc_off
  /\ UNCHANGED <<program, pc, loops, source, tmptrg, barrier>>

LibraryStep(p) ==
  \/ Offset(p) \/ Notify(p) \/ PutSlices(p) \/ CleanUp(p)
  \/ Arrive(p) \/ Leave(p) \/ Get(p)
  \/ Initialize(p) \/ NextPE(p) \/ Combine(p) \/ ArriveSecond(p) \/ LeaveSecond(p)

LandFrom(p) == \E m \in flight : m.src = p /\ Land(m)

\* The program is through when all its calls have returned.  A call that could
\* not return would leave the system in another state without a step: every
\* other step advances a PE or lands a put.
Finished ==
  /\ \A p \in Member : calls[p] = MaxCalls /\ pc[p] = "outside"
  /\ UNCHANGED vars

Next == Finished \/ \E p \in Member : Call(p) \/ LibraryStep(p) \/ LandFrom(p)

Spec == Init /\ [][Next]_vars

-----------------------------------------------------------------------------

\* Elements of the first k PEs, when each passes c[p].
ElemsOfFirst(c) ==
  LET sum[k \in 0 .. PE_size] ==
        IF k = 0 THEN 0 ELSE sum[k - 1] + c[PE_start + (k - 1) * step]
  IN  sum

\* The words that p passes, and those of the PEs to its left.
WordsOf(p, call) == (Size(call) \div 4) * Passed(p, call)
Before(p, call) == (Size(call) \div 4) * ElemsOfFirst(nelems[call])[vpe(p)]

\* Whoever returns from (f)collect has the slices of all PEs in order, whole and
\* without gaps, whoever is how far ahead and in whichever language the program
\* of each is.
SlicesInPlace ==
  \A p \in Member : Returned(p) /\ Op(p) \in {"collect", "fcollect"} =>
    LET n == calls[p]
    IN  /\ DOMAIN target[p][n] = 0 .. Before(last_pe, n) + WordsOf(last_pe, n) - 1
        /\ \A q \in Member : \A i \in 0 .. WordsOf(q, n) - 1 :
             target[p][n][Before(q, n) + i] = Datum(q, n, i)

\* Whoever returns from a broadcast has the root's data of this call, all of it.
RootsData ==
  \A p \in Member \ {root} : Returned(p) /\ Op(p) = "broadcast" =>
    target[p][calls[p]] =
      [i \in 0 .. WordsOf(p, calls[p]) - 1 |-> Datum(root, calls[p], i)]

\* The PEs in any order.
Orders == {s \in [1 .. PE_size -> Member] : IsInjective(s)}

\* What p holds of element i after a reduction, and the order it was combined in.
Items(p, i) == (IF Overlap(p) THEN source[p] ELSE target[p][calls[p]])[i]
Order(p, i) == [k \in DOMAIN Items(p, i) |-> Items(p, i)[k].pe]

\* Whoever returns from a reduction has combined every element of every PE of the
\* set once, also when the target is the source, and when others are a call ahead.
AllCombinedOnce ==
  \A p \in Member : Returned(p) /\ Op(p) \in Reductions =>
    \A i \in 0 .. Elems(p) - 1 :
      /\ Order(p, i) \in Orders
      /\ \A k \in DOMAIN Items(p, i) : Items(p, i)[k] = Datum(Order(p, i)[k], calls[p], i)[1]

=============================================================================
