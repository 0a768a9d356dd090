-------------------------- MODULE CollectivesProofs --------------------------
(***************************************************************************)
(* Proofs about the collectives of Collectives: the inductive invariant,   *)
(* and from it what collect, fcollect, the linear broadcast and the        *)
(* reductions promise, for every active set, every number of calls and     *)
(* every number of elements.  The last part is about the tree broadcast of *)
(* BroadcastTree, which uses no barrier and has an invariant of its own.   *)
(*                                                                         *)
(* The argument about the others has three parts.  The barrier keeps the   *)
(* PEs within a call of each other (Lockstep), so that what a PE reads of  *)
(* another belongs to its own call.  The offsets of collect go through the *)
(* PEs from left to right once per call (Wave), and reach each PE after it *)
(* has reset its own and before it uses it again.  The places of the       *)
(* slices are sums of the elements to the left, so that no two slices      *)
(* overlap and together they fill the target (SlicesFill).                 *)
(***************************************************************************)
EXTENDS Collectives, BroadcastTree, FiniteSetTheorems, WellFoundedInduction, TLAPS

-----------------------------------------------------------------------------
\* The inductive invariant.

\* How many barriers a call has, and at how many of this call's p has arrived.
Barriers(op) == IF op \in Reductions THEN 2 ELSE 1
BeforeBarrier == {"offset", "notify", "put", "clean", "initialize", "arrive"}
AfterFirst == {"leave", "get", "combine"}
Stage(p) ==
  IF pc[p] \in BeforeBarrier THEN 0
  ELSE IF pc[p] \in AfterFirst THEN 1
  ELSE IF pc[p] = "finish" THEN 2
  ELSE IF calls[p] = 0 THEN 0 ELSE Barriers(Op(p))
Base(p) == arrived[p] - Stage(p)

TypeOK ==
  /\ ops \in [1 .. MaxCalls -> Ops]
  /\ nelems \in [1 .. MaxCalls -> [Member -> 0 .. MaxCount]]
  /\ \A n \in 1 .. MaxCalls : ops[n] # "collect" => nelems[n] \in SameEverywhere
  /\ bits \in [Member -> {32, 64}]
  /\ calls \in [Member -> 0 .. MaxCalls]
  /\ pc \in [Member -> {"outside", "finish"} \cup BeforeBarrier \cup AfterFirst]
  /\ acc_off \in [Member -> Int]
  /\ pe \in [Member -> Int] /\ si \in [Member -> Nat]
  /\ DOMAIN source = Member /\ DOMAIN tmptrg = Member /\ DOMAIN target = Member
  /\ \A p \in Member : DOMAIN target[p] = 1 .. MaxCalls
  /\ arrived \in [Member -> Nat] /\ left \in [Member -> Nat]

\* Where a PE can be in which operation, in the routine for the size it passes.
PcMatchesOp ==
  \A p \in Member :
    /\ calls[p] = 0 => pc[p] = "outside"
    /\ pc[p] \in {"offset", "notify", "clean"} => Op(p) = "collect"
    /\ pc[p] = "put" => Op(p) \in {"collect", "fcollect"}
    /\ pc[p] = "get" => Op(p) = "broadcast" /\ p # root
    /\ pc[p] \in {"initialize", "combine", "finish"} => Op(p) \in Reductions
    /\ calls[p] > 0 /\ Op(p) \notin Reductions => bits[p] = 8 * Size(calls[p])

\* The barrier keeps the PEs within a call of each other: who has begun the next
\* has seen all others arrive at the last barrier of theirs.
InStep(p, q) ==
  /\ calls[p] = calls[q] => Base(p) = Base(q)
  /\ calls[p] > calls[q] =>
       calls[p] = calls[q] + 1 /\ Stage(q) = (IF calls[q] = 0 THEN 0 ELSE Barriers(Op(q)))
       /\ Base(p) = arrived[q]
Lockstep ==
  /\ \A p \in Member : arrived[p] = left[p] + (IF pc[p] \in {"leave", "finish"} THEN 1 ELSE 0)
  /\ \A p, q \in Member : left[p] <= arrived[q] /\ InStep(p, q)

\* Nobody is ahead of a PE that is in an operation the program synchronises after.
Separation ==
  \A p, q \in Member :
    calls[p] > 0 /\ calls[q] > calls[p] /\ Op(p) \in Separated => pc[p] = "outside"

\* A PE's source area holds its data until a reduction in place overwrites it.
SourcesHold ==
  \A p \in Member : calls[p] > 0 /\ ~(pc[p] = "outside" /\ Op(p) = "reduce in place") =>
    source[p] = [i \in Area |-> Datum(p, calls[p], i)]

\* The wave of offsets: Due is where p's slice of call n begins, in elements.
Due(p, n) == ElemsOfFirst(nelems[n])[vpe(p)]
InWave(p) == pc[p] \in {"notify", "put", "clean"} /\ Op(p) = "collect"
Awaits(p, n) == (calls[p] = n /\ pc[p] = "offset") \/ calls[p] + 1 = n
From(l, p, places) ==
  /\ l \in Member /\ p = l + step /\ calls[l] > 0 /\ Op(l) = "collect"
  /\ pc[l] \in places /\ Awaits(p, calls[l])
HasOffset(p) == InWave(p) => acc_off[p] = Due(p, calls[p])
HasNextOffset(p) ==
  acc_off[p] # SYNC /\ ~InWave(p) =>
    /\ From(p - step, p, {"put", "clean", "arrive", "leave"})
    /\ acc_off[p] = Due(p, calls[p - step])
LeftHasSent(p) ==
  calls[p] > 0 /\ Op(p) = "collect" /\ pc[p] # "offset" /\ p # PE_start =>
    \/ calls[p - step] > calls[p]
    \/ calls[p - step] = calls[p] /\ pc[p - step] \notin {"offset", "notify"}
Wave == \A p \in Member : HasOffset(p) /\ HasNextOffset(p) /\ LeftHasSent(p)

\* The slice of q in call n: where it goes and what it is.
Extent(q, n) == 0 .. WordsOf(q, n) - 1
SliceOf(q, n) ==
  [x \in Before(q, n) .. Before(q, n) + WordsOf(q, n) - 1 |->
     Datum(q, n, x - Before(q, n))]

\* What is in flight belongs to the call its sender is in.
OffsetMsg(m) ==
  /\ m = [src |-> m.src, dst |-> m.dst, what |-> "offset", val |-> Due(m.dst, calls[m.src])]
  /\ From(m.src, m.dst, {"put", "clean", "arrive"})
  /\ acc_off[m.dst] = SYNC
SliceMsg(m) ==
  /\ m = [src |-> m.src, dst |-> m.dst, what |-> "slice", call |-> calls[m.src],
          val |-> SliceOf(m.src, calls[m.src])]
  /\ calls[m.src] > 0 /\ Op(m.src) \in {"collect", "fcollect"}
  /\ pc[m.src] \in {"clean", "arrive"}
FlightIsCurrent ==
  \A m \in flight :
    /\ m.src \in Member /\ m.dst \in Member
    /\ OffsetMsg(m) \/ SliceMsg(m)

Gathered(n) == n \in 1 .. MaxCalls /\ ops[n] \in {"collect", "fcollect"}
HasPut(q, n) ==
  calls[q] > n \/ (calls[q] = n /\ pc[q] \in {"clean", "arrive", "leave", "outside"})

\* A slice that has been put is in flight or in its place, where nothing else goes.
SlicesArrive ==
  \A p, q \in Member, n \in 1 .. MaxCalls : Gathered(n) /\ HasPut(q, n) =>
    \/ \E m \in flight : m.what = "slice" /\ m.src = q /\ m.dst = p /\ m.call = n
    \/ \A i \in Extent(q, n) : Before(q, n) + i \in DOMAIN target[p][n]
OnlySlices ==
  \A p \in Member, n \in 1 .. MaxCalls : Gathered(n) =>
    \A x \in DOMAIN target[p][n] : \E q \in Member : \E i \in Extent(q, n) :
      x = Before(q, n) + i /\ target[p][n][x] = Datum(q, n, i)

\* t is element j of call n combined of the PEs of S, each once.
ItemsOf(S, n, j) == [pe : S, call : {n}, elem : {j}]
IsOf(t, n, j, S) ==
  /\ t \in Seq(ItemsOf(S, n, j))
  /\ \A q \in S : \E k \in DOMAIN t : t[k].pe = q
  /\ \A k, l \in DOMAIN t : t[k].pe = t[l].pe => k = l
Done(p, j) == {q \in Member : q = p \/ q < pe[p] \/ (q = pe[p] /\ j < si[p])}
Progress(p) ==
  /\ DOMAIN write_to(p) = 0 .. Elems(p) - 1
  /\ \A j \in 0 .. Elems(p) - 1 : IsOf(write_to(p)[j], calls[p], j, Done(p, j))
  /\ pe[p] \in Member \cup {End} /\ si[p] <= Elems(p)
  /\ si[p] > 0 => pe[p] \in Member \ {p}
Reduces(p) ==
  calls[p] > 0 /\ Op(p) \in Reductions =>
    /\ pc[p] \in {"arrive", "leave", "combine", "finish"} => Progress(p)
    /\ pc[p] \in {"arrive", "leave"} => pe[p] = PE_start /\ si[p] = 0
    /\ pc[p] = "finish" => pe[p] = End
    /\ pc[p] = "outside" =>
         \A j \in 0 .. Elems(p) - 1 : IsOf(Items(p, j), calls[p], j, Member)
Reducing == \A p \in Member : Reduces(p)

IInv ==
  /\ TypeOK /\ PcMatchesOp /\ Lockstep /\ Separation /\ SourcesHold
  /\ Wave /\ FlightIsCurrent /\ SlicesArrive /\ OnlySlices /\ Reducing

\* What is true of 0, and of n + 1 whenever of n, is true of all naturals.
LEMMA SetInduction ==
  ASSUME NEW S, 0 \in S, \A n \in Nat : n \in S => n + 1 \in S
  PROVE  Nat \subseteq S
<1> SUFFICES ASSUME Nat \ S # {} PROVE FALSE
  OBVIOUS
<1> DEFINE R == {s \in Nat \X Nat : s[1] < s[2]}
<1>1. IsWellFoundedOn(R, Nat)
  BY NatLessThanWellFounded DEF OpToRel
<1>2. PICK n \in Nat \ S : \A m \in Nat \ S : ~ (<<m, n>> \in R)
  BY <1>1, WFMin
<1>3. n # 0 /\ n - 1 \in Nat
  OBVIOUS
<1>4. ~ (n - 1 \in Nat \ S)
  <2>1. <<n - 1, n>> \in Nat \X Nat /\ n - 1 < n
    BY <1>3
  <2>2. <<n - 1, n>> \in R
    BY <2>1
  <2> QED
    BY <1>2, <2>2
<1> QED
  BY <1>3, <1>4

\* Multiples of the stride are apart by at least the stride.
LEMMA MultiplesAreApart ==
  ASSUME NEW m \in Int, NEW n \in Int, NEW s \in Nat \ {0}, m < n
  PROVE  m * s + s <= n * s
<1>1. \A k \in Nat : k * s \in Nat
  OBVIOUS
<1>2. (n - m - 1) * s \in Nat
  BY <1>1, n - m - 1 \in Nat
<1>3. (n - m - 1) * s = n * s - m * s - s
  OBVIOUS
<1> QED
  BY <1>2, <1>3

\* The active set is laid out upwards from PE_start to last_pe, and vpe numbers it.
LEMMA Places ==
  /\ Member \subseteq Nat /\ IsFiniteSet(Member) /\ Cardinality(Member) = PE_size
  /\ PE_start \in Member /\ last_pe \in Member /\ root \in Member
  /\ vpe(PE_start) = 0 /\ vpe(last_pe) = PE_size - 1
  /\ End = last_pe + step /\ End \notin Member
  /\ \A k \in 0 .. PE_size - 1 : PE_start + k * step \in Member /\ vpe(PE_start + k * step) = k
  /\ \A p \in Member : vpe(p) \in 0 .. PE_size - 1 /\ p = PE_start + vpe(p) * step
<1> DEFINE f == [n \in 0 .. PE_size - 1 |-> PE_start + n * step]
<1> USE ActiveSetAssumption, CollectivesAssumption
<1>1. /\ PE_start \in Nat /\ step \in Nat \ {0} /\ PE_size \in Nat \ {0}
      /\ \A n \in Int : n * step \in Int /\ (n * step) \div step = n
      /\ \A n \in Nat : n * step \in Nat
  OBVIOUS
<1>2. f \in [0 .. PE_size - 1 -> Member]
  BY DEF Member
<1>3. \A k \in 0 .. PE_size - 1 :
        f[k] \in Nat /\ f[k] = PE_start + k * step /\ vpe(f[k]) = k /\ f[k] < End
  <2> SUFFICES ASSUME NEW k \in 0 .. PE_size - 1
               PROVE  f[k] \in Nat /\ f[k] = PE_start + k * step /\ vpe(f[k]) = k /\ f[k] < End
    OBVIOUS
  <2>1. f[k] = PE_start + k * step /\ k * step \in Nat /\ k \in Int
    BY <1>1
  <2>2. f[k] - PE_start = k * step
    BY <1>1, <2>1
  <2>3. k * step + step <= PE_size * step
    BY <1>1, MultiplesAreApart
  <2>4. PE_size * step = step * PE_size /\ step * PE_size \in Nat
    BY <1>1
  <2> QED
    BY <1>1, <2>1, <2>2, <2>3, <2>4 DEF vpe, End
<1>4. \A p \in Member : \E k \in 0 .. PE_size - 1 : p = f[k]
  BY DEF Member
<1>5. f \in Bijection(0 .. PE_size - 1, Member)
  BY <1>2, <1>3, <1>4 DEF Bijection, Injection, Surjection, IsInjective
<1>6. IsFiniteSet(Member) /\ Cardinality(Member) = PE_size
  <2>1. ExistsBijection(0 .. PE_size - 1, Member)
    BY <1>5 DEF ExistsBijection
  <2>2. IsFiniteSet(0 .. PE_size - 1) /\ Cardinality(0 .. PE_size - 1) = PE_size
    BY FS_Interval
  <2> QED
    BY <2>1, <2>2, FS_Bijection
<1>7. PE_start = f[0] /\ last_pe = f[PE_size - 1] /\ root = f[PE_root]
  <2>1. step * (PE_size - 1) = (PE_size - 1) * step /\ (PE_size - 1) * step \in Int
        /\ PE_root * step \in Int
    BY <1>1
  <2> QED
    BY <1>1, <2>1 DEF last_pe, root
<1>8. End = last_pe + step
  <2>1. step * PE_size = step * (PE_size - 1) + step /\ step * (PE_size - 1) \in Int
    BY <1>1
  <2> QED
    BY <1>1, <2>1 DEF End, last_pe
<1>9. 0 \in 0 .. PE_size - 1 /\ PE_size - 1 \in 0 .. PE_size - 1
  BY <1>1
<1>10. End \notin Member
  BY <1>3, <1>4
<1>11. \A k \in 0 .. PE_size - 1 : PE_start + k * step \in Member /\ vpe(PE_start + k * step) = k
  BY <1>2, <1>3
<1>12. \A p \in Member : p \in Nat /\ vpe(p) \in 0 .. PE_size - 1 /\ p = PE_start + vpe(p) * step
  BY <1>3, <1>4
<1>13. /\ PE_start \in Member /\ last_pe \in Member /\ root \in Member
       /\ vpe(PE_start) = 0 /\ vpe(last_pe) = PE_size - 1
  <2> HIDE DEF f
  <2> QED
    BY <1>2, <1>3, <1>7, <1>9
<1> QED
  BY <1>6, <1>8, <1>10, <1>11, <1>12, <1>13

\* Neighbours in the set.
LEMMA Neighbours ==
  /\ \A p \in Member : p < End /\ PE_start <= p /\ p <= last_pe
  /\ \A p \in Member : p < last_pe => p + step \in Member /\ vpe(p + step) = vpe(p) + 1
  /\ \A p \in Member : p # PE_start => p - step \in Member /\ vpe(p - step) = vpe(p) - 1
  /\ \A p \in Member : p + step \in Member \cup {End} /\ p - step \in Int
  /\ \A p, q \in Member : q < p + step <=> q <= p
  /\ \A p, q \in Member : q < p <=> vpe(q) < vpe(p)
<1>1. /\ PE_start \in Nat /\ step \in Nat \ {0} /\ PE_size \in Nat \ {0}
      /\ \A n \in Int : n * step \in Int
      /\ \A n \in Int : (n + 1) * step = n * step + step /\ (n - 1) * step = n * step - step
      /\ \A n \in Nat : n * step \in Nat
  BY ActiveSetAssumption
<1>2. \A p \in Member : p \in Nat /\ vpe(p) \in 0 .. PE_size - 1 /\ p = PE_start + vpe(p) * step
  BY Places
<1>3. \A p, q \in Member : vpe(p) < vpe(q) => p + step <= q
  <2> SUFFICES ASSUME NEW p \in Member, NEW q \in Member, vpe(p) < vpe(q) PROVE p + step <= q
    OBVIOUS
  <2>1. vpe(p) * step + step <= vpe(q) * step
    BY <1>1, <1>2, MultiplesAreApart
  <2>2. vpe(p) * step \in Int /\ vpe(q) * step \in Int
    BY <1>1, <1>2
  <2> QED
    BY <1>1, <1>2, <2>1, <2>2
<1>4. \A p, q \in Member : vpe(p) = vpe(q) => p = q
  BY <1>2
<1>5. \A p, q \in Member : q < p <=> vpe(q) < vpe(p)
  BY <1>1, <1>2, <1>3, <1>4
<1>6. \A p, q \in Member : q < p + step <=> q <= p
  BY <1>1, <1>2, <1>3, <1>4
<1>7. \A p \in Member : PE_start <= p /\ p <= last_pe /\ p < End
  BY <1>1, <1>2, <1>5, Places
<1>8. ASSUME NEW p \in Member, p < last_pe
      PROVE  p + step \in Member /\ vpe(p + step) = vpe(p) + 1
  <2>1. vpe(p) < PE_size - 1
    BY <1>5, <1>8, Places
  <2>2. vpe(p) + 1 \in 0 .. PE_size - 1
    BY <1>1, <1>2, <2>1
  <2>3. p + step = PE_start + (vpe(p) + 1) * step
    <3>1. (vpe(p) + 1) * step = vpe(p) * step + step /\ vpe(p) * step \in Int
      BY <1>1, <1>2
    <3> QED
      BY <1>1, <1>2, <3>1
  <2> QED
    BY <2>2, <2>3, Places
<1>9. ASSUME NEW p \in Member, p # PE_start
      PROVE  p - step \in Member /\ vpe(p - step) = vpe(p) - 1
  <2>1. 0 < vpe(p)
    BY <1>5, <1>7, <1>9, <1>2, <1>1, Places
  <2>2. vpe(p) - 1 \in 0 .. PE_size - 1
    BY <1>1, <1>2, <2>1
  <2>3. p - step = PE_start + (vpe(p) - 1) * step
    <3>1. (vpe(p) - 1) * step = vpe(p) * step - step /\ vpe(p) * step \in Int
      BY <1>1, <1>2
    <3> QED
      BY <1>1, <1>2, <3>1
  <2> QED
    BY <2>2, <2>3, Places
<1>10. \A p \in Member : p + step \in Member \cup {End} /\ p - step \in Int
  <2> SUFFICES ASSUME NEW p \in Member PROVE p + step \in Member \cup {End} /\ p - step \in Int
    OBVIOUS
  <2>1. p = last_pe \/ p < last_pe
    BY <1>2, <1>7, Places
  <2> QED
    BY <1>1, <1>2, <1>8, <2>1, Places
<1> QED
  BY <1>5, <1>6, <1>7, <1>8, <1>9, <1>10

-----------------------------------------------------------------------------
\* Sums of the first PEs' counts.
LEMMA SumExists ==
  ASSUME NEW c \in [Member -> Nat]
  PROVE  \E f \in [0 .. PE_size -> Nat] : \A k \in 0 .. PE_size :
           f[k] = IF k = 0 THEN 0 ELSE f[k - 1] + c[PE_start + (k - 1) * step]
<1> DEFINE Ok(n, f) == \A k \in 0 .. n :
             f[k] = IF k = 0 THEN 0 ELSE f[k - 1] + c[PE_start + (k - 1) * step]
           S == {n \in Nat : n <= PE_size => \E f \in [0 .. n -> Nat] : Ok(n, f)}
<1>1. 0 \in S
  <2>1. [k \in 0 .. 0 |-> 0] \in [0 .. 0 -> Nat] /\ Ok(0, [k \in 0 .. 0 |-> 0])
    OBVIOUS
  <2> QED
    BY <2>1
<1>2. ASSUME NEW n \in Nat, n \in S
      PROVE  n + 1 \in S
  <2> SUFFICES ASSUME n + 1 <= PE_size
               PROVE  \E f \in [0 .. n + 1 -> Nat] : Ok(n + 1, f)
    OBVIOUS
  <2>0. PE_size \in Nat
    BY ActiveSetAssumption
  <2>1. PICK f \in [0 .. n -> Nat] : Ok(n, f)
    BY <1>2, <2>0
  <2> DEFINE v == f[n] + c[PE_start + n * step]
             g == [k \in 0 .. n + 1 |-> IF k = n + 1 THEN v ELSE f[k]]
  <2>2. PE_start + n * step \in Member
    BY <2>0, Places
  <2>3. v \in Nat
    BY <2>2
  <2>4. g \in [0 .. n + 1 -> Nat]
    <3> HIDE DEF v
    <3> QED
      BY <2>3
  <2>5. \A k \in 0 .. n : g[k] = f[k]
    OBVIOUS
  <2>6. g[n + 1] = v
    OBVIOUS
  <2>7. Ok(n + 1, g)
    <3> SUFFICES ASSUME NEW k \in 0 .. n + 1
                 PROVE  g[k] = IF k = 0 THEN 0 ELSE g[k - 1] + c[PE_start + (k - 1) * step]
      OBVIOUS
    <3> HIDE DEF g
    <3>1. CASE k = n + 1
      BY <3>1, <2>5, <2>6
    <3>2. CASE k # n + 1
      <4>1. k \in 0 .. n /\ (k # 0 => k - 1 \in 0 .. n)
        BY <3>2
      <4>2. f[k] = IF k = 0 THEN 0 ELSE f[k - 1] + c[PE_start + (k - 1) * step]
        BY <2>1, <4>1
      <4> QED
        BY <2>5, <4>1, <4>2
    <3> QED
      BY <3>1, <3>2
  <2> QED
    BY <2>4, <2>7
<1> HIDE DEF S
<1>3. PE_size \in S
  BY <1>1, <1>2, SetInduction, ActiveSetAssumption
<1>4. PE_size <= PE_size
  BY ActiveSetAssumption
<1>5. \E f \in [0 .. PE_size -> Nat] : Ok(PE_size, f)
  <2> HIDE DEF Ok
  <2> QED
    BY <1>3, <1>4 DEF S
<1> QED
  BY <1>5

\* The sums that ElemsOfFirst stands for exist, and each adds one PE's elements.
LEMMA SumsAddUp ==
  ASSUME NEW c \in [Member -> Nat]
  PROVE  /\ ElemsOfFirst(c) \in [0 .. PE_size -> Nat]
         /\ ElemsOfFirst(c)[0] = 0
         /\ \A k \in 0 .. PE_size - 1 :
              ElemsOfFirst(c)[k + 1] = ElemsOfFirst(c)[k] + c[PE_start + k * step]
<1> DEFINE Is(f) == f = [k \in 0 .. PE_size |->
                          IF k = 0 THEN 0 ELSE f[k - 1] + c[PE_start + (k - 1) * step]]
<1>1. PE_size \in Nat
  BY ActiveSetAssumption
<1>2. PICK f \in [0 .. PE_size -> Nat] : \A k \in 0 .. PE_size :
        f[k] = IF k = 0 THEN 0 ELSE f[k - 1] + c[PE_start + (k - 1) * step]
  BY <1>1, SumExists
<1>3. Is(f)
  BY <1>2
<1>4. Is(ElemsOfFirst(c))
  BY <1>3 DEF ElemsOfFirst
<1> DEFINE g == ElemsOfFirst(c)
<1>5. \A k \in 0 .. PE_size : g[k] = IF k = 0 THEN 0 ELSE g[k - 1] + c[PE_start + (k - 1) * step]
  BY <1>4
<1>6. DOMAIN g = 0 .. PE_size
  BY <1>4
<1> HIDE DEF g
<1> DEFINE S == {k \in Nat : k <= PE_size => g[k] \in Nat}
<1>7. 0 \in S
  BY <1>5, <1>1
<1>8. ASSUME NEW k \in Nat, k \in S
      PROVE  k + 1 \in S
  <2> SUFFICES ASSUME k + 1 <= PE_size PROVE g[k + 1] \in Nat
    OBVIOUS
  <2>1. g[k] \in Nat /\ k + 1 \in 0 .. PE_size /\ k + 1 # 0 /\ (k + 1) - 1 = k /\ k \in 0 .. PE_size - 1
    BY <1>1, <1>8
  <2>2. g[k + 1] = g[k] + c[PE_start + k * step]
    BY <1>5, <2>1
  <2>3. c[PE_start + k * step] \in Nat
    BY <2>1, Places
  <2> QED
    BY <2>1, <2>2, <2>3
<1>9. \A k \in 0 .. PE_size : g[k] \in Nat
  <2> HIDE DEF S
  <2>1. Nat \subseteq S
    BY <1>7, <1>8, SetInduction
  <2> QED
    BY <2>1, <1>1 DEF S
<1>10. g \in [0 .. PE_size -> Nat]
  <2>1. g = [k \in 0 .. PE_size |-> g[k]]
    BY <1>4 DEF g
  <2> QED
    BY <1>9, <2>1
<1>11. ASSUME NEW k \in 0 .. PE_size - 1
       PROVE  g[k + 1] = g[k] + c[PE_start + k * step]
  <2>1. k + 1 \in 0 .. PE_size /\ k + 1 # 0 /\ (k + 1) - 1 = k
    BY <1>1
  <2> QED
    BY <1>5, <2>1
<1> QED
  BY <1>1, <1>5, <1>10, <1>11 DEF g

-----------------------------------------------------------------------------
\* An element is one word or two.
LEMMA WordSize ==
  ASSUME NEW n
  PROVE  Size(n) \div 4 \in {1, 2}
BY DEF Size

\* Where the slices of call n are due: one after the other.
LEMMA DueInOrder ==
  ASSUME NEW n, nelems[n] \in [Member -> Nat]
  PROVE  /\ Due(PE_start, n) = 0
         /\ \A p \in Member : Due(p, n) \in Nat /\ Passed(p, n) \in Nat
         /\ \A p \in Member : p < last_pe => Due(p + step, n) = Due(p, n) + Passed(p, n)
         /\ \A p, q \in Member : p < q => Due(p, n) + Passed(p, n) <= Due(q, n)
<1> DEFINE g == ElemsOfFirst(nelems[n])
<1>1. /\ g \in [0 .. PE_size -> Nat] /\ g[0] = 0
      /\ \A k \in 0 .. PE_size - 1 : g[k + 1] = g[k] + nelems[n][PE_start + k * step]
  BY SumsAddUp
<1> HIDE DEF g
<1>2. PE_size \in Nat \ {0}
  BY ActiveSetAssumption
<1>3. \A p \in Member : /\ Due(p, n) = g[vpe(p)] /\ vpe(p) \in 0 .. PE_size - 1
                        /\ Passed(p, n) = nelems[n][PE_start + vpe(p) * step]
  BY Places DEF Due, Passed, g
<1>4. \A p \in Member : Due(p, n) \in Nat /\ Passed(p, n) \in Nat
  <2>1. \A p \in Member : Passed(p, n) \in Nat
    BY DEF Passed
  <2>2. \A p \in Member : vpe(p) \in 0 .. PE_size
    BY <1>2, <1>3
  <2> QED
    BY <1>1, <1>3, <2>1, <2>2
<1>5. \A p \in Member : g[vpe(p) + 1] = Due(p, n) + Passed(p, n)
  BY <1>1, <1>3
<1>6. Due(PE_start, n) = 0
  BY <1>1, <1>3, Places
<1>7. \A p \in Member : p < last_pe => Due(p + step, n) = Due(p, n) + Passed(p, n)
  BY <1>3, <1>5, Neighbours
<1>8. ASSUME NEW j \in 0 .. PE_size
      PROVE  \A k \in 0 .. PE_size : j <= k => g[j] <= g[k]
  <2> DEFINE S == {d \in Nat : j + d <= PE_size => g[j] <= g[j + d]}
  <2>1. 0 \in S
    BY <1>1, <1>2
  <2>2. ASSUME NEW d \in Nat, d \in S
        PROVE  d + 1 \in S
    <3> SUFFICES ASSUME j + (d + 1) <= PE_size PROVE g[j] <= g[j + (d + 1)]
      OBVIOUS
    <3>1. j + d \in 0 .. PE_size - 1 /\ j + (d + 1) = (j + d) + 1 /\ j + d <= PE_size
      BY <1>2
    <3>2. g[j] <= g[j + d]
      BY <2>2, <3>1
    <3>3. nelems[n][PE_start + (j + d) * step] \in Nat
      BY <3>1, Places
    <3>4. g[(j + d) + 1] = g[j + d] + nelems[n][PE_start + (j + d) * step]
      BY <1>1, <3>1
    <3>5. g[j] \in Nat /\ g[j + d] \in Nat
      BY <1>1, <1>2, <3>1
    <3> QED
      BY <3>1, <3>2, <3>3, <3>4, <3>5
  <2> HIDE DEF S
  <2>3. Nat \subseteq S
    BY <2>1, <2>2, SetInduction
  <2>4. \A d \in Nat : j + d <= PE_size => g[j] <= g[j + d]
    BY <2>3 DEF S
  <2> QED
    <3> SUFFICES ASSUME NEW k \in 0 .. PE_size, j <= k PROVE g[j] <= g[k]
      OBVIOUS
    <3>1. k - j \in Nat /\ j + (k - j) = k /\ k <= PE_size
      BY <1>2
    <3> QED
      BY <2>4, <3>1
<1>9. \A p, q \in Member : p < q => Due(p, n) + Passed(p, n) <= Due(q, n)
  <2> SUFFICES ASSUME NEW p \in Member, NEW q \in Member, p < q
               PROVE  Due(p, n) + Passed(p, n) <= Due(q, n)
    OBVIOUS
  <2>1. vpe(p) < vpe(q) /\ vpe(p) \in 0 .. PE_size - 1 /\ vpe(q) \in 0 .. PE_size - 1
    BY Neighbours, <1>3
  <2>2. vpe(p) + 1 \in 0 .. PE_size /\ vpe(q) \in 0 .. PE_size /\ vpe(p) + 1 <= vpe(q)
    BY <1>2, <2>1
  <2>3. g[vpe(p) + 1] <= g[vpe(q)]
    BY <1>8, <2>2
  <2> QED
    BY <2>3, <1>5, <1>3
<1> QED
  BY <1>4, <1>6, <1>7, <1>9

\* The bounds on what a PE passes.
LEMMA CountBounds ==
  /\ MaxCount \in Nat
  /\ \A c \in Counts : c \in 0 .. MaxCount
  /\ \A c \in EqualCounts : c \in 0 .. MaxCount /\ c \in Nat
<1>1. MaxCount \in Nat /\ Counts \subseteq 0 .. MaxCount /\ EqualCounts \subseteq Counts
  BY CollectivesAssumption
<1>2. \A c \in Counts : c \in 0 .. MaxCount
  BY <1>1
<1>3. \A c \in EqualCounts : c \in 0 .. MaxCount
  BY <1>1, <1>2
<1> QED
  BY <1>1, <1>2, <1>3

\* The same number from each.
LEMMA EqualSlices ==
  ASSUME NEW n, nelems[n] \in [Member -> Nat], nelems[n] \in SameEverywhere
  PROVE  \A p \in Member : Due(p, n) = vpe(p) * Passed(p, n)
<1>1. PICK c \in EqualCounts : nelems[n] = [p \in Member |-> c]
  BY DEF SameEverywhere
<1>2. c \in Nat /\ \A p \in Member : Passed(p, n) = c
  <2>1. c \in Nat
    BY CountBounds
  <2>2. \A p \in Member : Passed(p, n) = c
    BY <1>1 DEF Passed
  <2> QED
    BY <2>1, <2>2
<1> DEFINE S == {k \in Nat : \A p \in Member : vpe(p) = k => Due(p, n) = k * c}
<1>3. 0 \in S
  <2>1. \A p \in Member : vpe(p) = 0 => p = PE_start
    BY Places, ActiveSetAssumption
  <2>2. 0 * c = 0
    BY <1>2
  <2> QED
    BY <2>1, <2>2, DueInOrder
<1>4. ASSUME NEW k \in Nat, k \in S
      PROVE  k + 1 \in S
  <2> SUFFICES ASSUME NEW p \in Member, vpe(p) = k + 1
               PROVE  Due(p, n) = (k + 1) * c
    OBVIOUS
  <2>1. p # PE_start
    BY Places
  <2>2. p - step \in Member /\ vpe(p - step) = k
    BY <2>1, Neighbours
  <2>3. p - step < last_pe /\ (p - step) + step = p
    BY <2>2, Neighbours, Places, ActiveSetAssumption
  <2>4. Due(p, n) = Due(p - step, n) + c
    BY <1>2, <2>2, <2>3, DueInOrder
  <2>5. Due(p - step, n) = k * c
    BY <1>4, <2>2
  <2>6. (k + 1) * c = k * c + c
    BY <1>2
  <2> QED
    BY <2>4, <2>5, <2>6
<1> HIDE DEF S
<1>5. Nat \subseteq S
  BY <1>3, <1>4, SetInduction
<1>6. \A p \in Member : vpe(p) \in Nat
  BY Places, ActiveSetAssumption
<1> QED
  BY <1>2, <1>5, <1>6 DEF S

\* The places of a slice, by its words.
LEMMA SliceBounds ==
  ASSUME NEW n, nelems[n] \in [Member -> Nat], NEW q \in Member
  PROVE  /\ Before(q, n) = (Size(n) \div 4) * Due(q, n) /\ Before(q, n) \in Nat
         /\ WordsOf(q, n) \in Nat
         /\ (Size(n) \div 4) * (Due(q, n) + Passed(q, n)) =
              Before(q, n) + WordsOf(q, n)
<1>1. Due(q, n) \in Nat /\ Passed(q, n) \in Nat
  BY DueInOrder
<1>2. Before(q, n) = (Size(n) \div 4) * Due(q, n)
  BY DEF Before, Due
<1>3. CASE Size(n) \div 4 = 1
  BY <1>1, <1>2, <1>3 DEF WordsOf
<1>4. CASE Size(n) \div 4 = 2
  BY <1>1, <1>2, <1>4 DEF WordsOf
<1> QED
  BY <1>3, <1>4, WordSize

\* The slices of a call fill the target from 0 to the end of the last, and do not
\* overlap.
LEMMA SlicesFill ==
  ASSUME NEW n, nelems[n] \in [Member -> Nat]
  PROVE  /\ \A x \in 0 .. Before(last_pe, n) + WordsOf(last_pe, n) - 1 :
              \E q \in Member : \E i \in Extent(q, n) : x = Before(q, n) + i
         /\ \A q \in Member : \A i \in Extent(q, n) : Before(q, n) + i \in
              0 .. Before(last_pe, n) + WordsOf(last_pe, n) - 1
         /\ \A p, q \in Member : \A i \in Extent(p, n), j \in Extent(q, n) :
              Before(p, n) + i = Before(q, n) + j => p = q /\ i = j
<1> DEFINE w == Size(n) \div 4
           end(q) == Before(q, n) + WordsOf(q, n)
<1>1. \A q \in Member : /\ Before(q, n) \in Nat /\ WordsOf(q, n) \in Nat /\ end(q) \in Nat
                        /\ Before(q, n) = w * Due(q, n) /\ end(q) = w * (Due(q, n) + Passed(q, n))
                        /\ Due(q, n) \in Nat /\ Passed(q, n) \in Nat
  BY SliceBounds, DueInOrder
<1>2. w \in {1, 2}
  BY WordSize
<1>3. \A q \in Member : Extent(q, n) = 0 .. WordsOf(q, n) - 1
  BY DEF Extent
<1> HIDE DEF w
<1>4. \A p, q \in Member : p < q => end(p) <= Before(q, n)
  <2> SUFFICES ASSUME NEW p \in Member, NEW q \in Member, p < q PROVE end(p) <= Before(q, n)
    OBVIOUS
  <2>1. Due(p, n) + Passed(p, n) <= Due(q, n)
    BY DueInOrder
  <2>2. /\ end(p) = w * (Due(p, n) + Passed(p, n)) /\ Before(q, n) = w * Due(q, n)
        /\ Due(p, n) \in Nat /\ Passed(p, n) \in Nat /\ Due(q, n) \in Nat
    BY <1>1
  <2> HIDE DEF end
  <2>3. CASE w = 1
    BY <2>1, <2>2, <2>3
  <2>4. CASE w = 2
    BY <2>1, <2>2, <2>4
  <2> QED
    BY <1>2, <2>3, <2>4
<1>5. \A q \in Member : q < last_pe => Before(q + step, n) = end(q)
  <2> SUFFICES ASSUME NEW q \in Member, q < last_pe PROVE Before(q + step, n) = end(q)
    OBVIOUS
  <2>1. q + step \in Member /\ Due(q + step, n) = Due(q, n) + Passed(q, n)
    BY Neighbours, DueInOrder
  <2> QED
    BY <1>1, <2>1
<1>6. Before(PE_start, n) = 0
  BY <1>1, <1>2, DueInOrder, Places
<1>7. \A q \in Member : end(q) <= end(last_pe)
  <2> SUFFICES ASSUME NEW q \in Member, q # last_pe PROVE end(q) <= end(last_pe)
    BY <1>1
  <2>1. q < last_pe
    BY Neighbours, Places
  <2>2. end(q) <= Before(last_pe, n)
    BY <1>4, <2>1, Places
  <2>3. Before(last_pe, n) <= end(last_pe)
    BY <1>1, Places
  <2>4. end(q) \in Nat /\ Before(last_pe, n) \in Nat /\ end(last_pe) \in Nat
    BY <1>1, Places
  <2> HIDE DEF end
  <2> QED
    BY <2>2, <2>3, <2>4
<1> DEFINE In(x) == \E q \in Member : \E i \in Extent(q, n) : x = Before(q, n) + i
           S == {k \in Nat : \A q \in Member : vpe(q) = k => \A x \in 0 .. end(q) - 1 : In(x)}
<1>8. \A q \in Member : \A x \in Before(q, n) .. end(q) - 1 : In(x)
  <2> SUFFICES ASSUME NEW q \in Member, NEW x \in Before(q, n) .. end(q) - 1 PROVE In(x)
    OBVIOUS
  <2>1. x - Before(q, n) \in Extent(q, n) /\ x = Before(q, n) + (x - Before(q, n))
    BY <1>1, <1>3
  <2> QED
    BY <2>1
<1>9. 0 \in S
  <2>1. \A q \in Member : vpe(q) = 0 => q = PE_start
    BY Places, ActiveSetAssumption
  <2> QED
    BY <1>6, <1>8, <2>1
<1>10. ASSUME NEW k \in Nat, k \in S
       PROVE  k + 1 \in S
  <2> SUFFICES ASSUME NEW q \in Member, vpe(q) = k + 1, NEW x \in 0 .. end(q) - 1
               PROVE  In(x)
    OBVIOUS
  <2>1. q # PE_start
    BY Places
  <2>2. q - step \in Member /\ vpe(q - step) = k
    BY <2>1, Neighbours
  <2>3. q - step < last_pe /\ (q - step) + step = q
    BY <2>2, Neighbours, Places, ActiveSetAssumption
  <2>4. Before(q, n) = end(q - step)
    BY <1>5, <2>2, <2>3
  <2>5. x \in 0 .. end(q - step) - 1 \/ x \in Before(q, n) .. end(q) - 1
    BY <2>4, <1>1, <2>2
  <2> QED
    BY <1>8, <1>10, <2>2, <2>5
<1>11. \A x \in 0 .. end(last_pe) - 1 : In(x)
  <2> HIDE DEF S
  <2>1. Nat \subseteq S
    BY <1>9, <1>10, SetInduction
  <2>2. vpe(last_pe) \in Nat /\ last_pe \in Member
    BY Places, ActiveSetAssumption
  <2> QED
    BY <2>1, <2>2 DEF S
<1>12. \A q \in Member : \A i \in Extent(q, n) : Before(q, n) + i \in 0 .. end(last_pe) - 1
  <2> SUFFICES ASSUME NEW q \in Member, NEW i \in Extent(q, n)
               PROVE  Before(q, n) + i \in 0 .. end(last_pe) - 1
    OBVIOUS
  <2>1. i \in 0 .. WordsOf(q, n) - 1
    BY <1>3
  <2>2. Before(q, n) \in Nat /\ WordsOf(q, n) \in Nat /\ end(last_pe) \in Nat
    BY <1>1, Places
  <2>3. Before(q, n) + WordsOf(q, n) <= end(last_pe)
    BY <1>7
  <2> HIDE DEF end
  <2> QED
    BY <2>1, <2>2, <2>3
<1>13. ASSUME NEW p \in Member, NEW q \in Member,
              NEW i \in Extent(p, n), NEW j \in Extent(q, n),
              Before(p, n) + i = Before(q, n) + j
       PROVE  p = q /\ i = j
  <2>1. /\ i \in Nat /\ j \in Nat /\ Before(p, n) + i < end(p) /\ Before(q, n) + j < end(q)
        /\ Before(p, n) \in Nat /\ Before(q, n) \in Nat /\ end(p) \in Nat /\ end(q) \in Nat
    <3>1. i \in 0 .. WordsOf(p, n) - 1 /\ j \in 0 .. WordsOf(q, n) - 1
      BY <1>3
    <3>2. /\ Before(p, n) \in Nat /\ Before(q, n) \in Nat
          /\ WordsOf(p, n) \in Nat /\ WordsOf(q, n) \in Nat
      BY <1>1
    <3> QED
      BY <3>1, <3>2
  <2>2. p < q => end(p) <= Before(q, n)
    BY <1>4
  <2>3. q < p => end(q) <= Before(p, n)
    BY <1>4
  <2>4. p \in Nat /\ q \in Nat
    BY Places
  <2> HIDE DEF end
  <2>5. p = q
    BY <1>13, <2>1, <2>2, <2>3, <2>4
  <2> QED
    BY <1>13, <2>1, <2>5
<1>14. end(last_pe) - 1 = Before(last_pe, n) + WordsOf(last_pe, n) - 1
  BY <1>1, Places
<1> HIDE DEF end
<1> QED
  BY <1>11, <1>12, <1>13, <1>14

-----------------------------------------------------------------------------
\* The initial states, and what a step leaves alone.
LEMMA TypeInit == Init => TypeOK
<1> SUFFICES ASSUME Init PROVE TypeOK
  OBVIOUS
<1>1. \A p \in Member : PE_start \in Int
  BY ActiveSetAssumption
<1>2. Counts \subseteq 0 .. MaxCount
  BY ActiveSetAssumption, CollectivesAssumption
<1>3. nelems \in [1 .. MaxCalls -> [Member -> 0 .. MaxCount]]
  <2>1. nelems \in [1 .. MaxCalls -> [Member -> Counts]]
    BY DEF Init
  <2> QED
    BY <1>2, <2>1
<1>4. MaxCalls \in Nat
  BY ActiveSetAssumption
<1> QED
  BY <1>1, <1>3, <1>4 DEF Init, TypeOK, SYNC, Barrier!Init, BeforeBarrier, AfterFirst

PCs == {"outside", "finish"} \cup BeforeBarrier \cup AfterFirst

\* What the PEs pass to call n.
LEMMA CountTypes ==
  ASSUME TypeOK, NEW n \in 1 .. MaxCalls
  PROVE  /\ nelems[n] \in [Member -> Nat] /\ ops[n] \in Ops
         /\ \A p \in Member : Passed(p, n) \in 0 .. MaxCount
<1>1. nelems[n] \in [Member -> 0 .. MaxCount] /\ ops[n] \in Ops
  BY DEF TypeOK
<1> QED
  BY <1>1, CountBounds DEF Passed

\* What p passes to the call it is in.
LEMMA ElemsTypes ==
  ASSUME TypeOK, NEW p \in Member, calls[p] > 0
  PROVE  /\ calls[p] \in 1 .. MaxCalls /\ Op(p) \in Ops /\ Elems(p) \in 0 .. MaxCount
         /\ nelems[calls[p]] \in [Member -> Nat]
<1>1. calls[p] \in 1 .. MaxCalls
  BY ActiveSetAssumption DEF TypeOK
<1> QED
  BY <1>1, CountTypes DEF Op, Elems

\* What p's steps leave alone at the others.
Frame(p) ==
  /\ ops' = ops /\ nelems' = nelems
  /\ \A q \in Member \ {p} :
       /\ bits'[q] = bits[q] /\ calls'[q] = calls[q] /\ pc'[q] = pc[q]
       /\ acc_off'[q] = acc_off[q] /\ pe'[q] = pe[q] /\ si'[q] = si[q]
       /\ source'[q] = source[q] /\ target'[q] = target[q] /\ tmptrg'[q] = tmptrg[q]
       /\ arrived'[q] = arrived[q] /\ left'[q] = left[q]
  /\ flight \subseteq flight' /\ \A m \in flight' \ flight : m.src = p

\* A routine is for elements of the size it is called with.
LEMMA RoutineBits ==
  ASSUME NEW p, NEW op \in {"collect", "fcollect", "broadcast"}, NEW sz \in {4, 8},
         NEW b \in RoutineOf(p, op, sz)
  PROVE  b = 8 * sz
<1>1. op \notin Reductions
  BY DEF Reductions
<1>2. \A n \in Named : SizeNamed(n) = sz => n = sz \/ n = 8 * sz
  BY DEF Named, SizeNamed
<1>3. \A n \in Named : /\ fortran_broadcast[n] = IF n \in {4, 32} THEN 32 ELSE 64
                       /\ fortran_fcollect[n] = IF n \in {4, 32} THEN 32 ELSE 64
                       /\ fortran_collect[n] = IF n \in {4, 32} THEN 32 ELSE 64
  BY DEF fortran_broadcast, fortran_fcollect, fortran_collect
<1>4. \A n \in Named : Routines[op].fortran[n] = IF n \in {4, 32} THEN 32 ELSE 64
  BY <1>3 DEF Routines
<1>5. Routines[op].c \subseteq {32, 64}
  BY DEF Routines, shmem_broadcast, shmem_fcollect, shmem_collect
<1>6. CASE p \in InFortran
  <2>1. PICK n \in Named : SizeNamed(n) = sz /\ b = Routines[op].fortran[n]
    BY <1>1, <1>6 DEF RoutineOf
  <2>2. b = IF n \in {4, 32} THEN 32 ELSE 64
    BY <1>4, <2>1
  <2> QED
    BY <1>2, <2>1, <2>2
<1>7. CASE p \notin InFortran
  <2>1. b \in Routines[op].c /\ b \div 8 = sz
    BY <1>1, <1>7 DEF RoutineOf
  <2> QED
    BY <1>5, <2>1
<1> QED
  BY <1>6, <1>7

\* Call keeps the types and leaves the other PEs alone ...
LEMMA CallTypes ==
  ASSUME TypeOK, NEW p \in Member, Call(p)
  PROVE  TypeOK' /\ Frame(p)
<1>1. calls[p] \in 0 .. MaxCalls /\ calls[p] < MaxCalls /\ MaxCalls \in Nat
  BY ActiveSetAssumption DEF TypeOK, Call
<1>2. calls[p] + 1 \in 1 .. MaxCalls
  BY <1>1
<1>3. calls' = [calls EXCEPT ![p] = calls[p] + 1]
  BY DEF Call
<1>4. PICK b : bits' = [bits EXCEPT ![p] = b] /\ b \in RoutineOf(p, ops[calls[p] + 1], Size(calls[p] + 1))
  BY DEF Call
<1>5. ops[calls[p] + 1] \in {"collect", "fcollect", "broadcast"} \cup Reductions
  BY <1>2, ActiveSetAssumption, CollectivesAssumption DEF TypeOK
<1>6. b \in {32, 64}
  <2>1. CASE ops[calls[p] + 1] \in Reductions
    BY <1>4, <2>1 DEF RoutineOf
  <2>2. CASE ops[calls[p] + 1] \notin Reductions
    <3>1. Size(calls[p] + 1) \in {4, 8}
      BY DEF Size
    <3>2. b = 8 * Size(calls[p] + 1)
      BY <1>4, <1>5, <2>2, <3>1, RoutineBits
    <3> QED
      BY <3>1, <3>2
  <2> QED
    BY <2>1, <2>2
<1>7. pc' = [pc EXCEPT ![p] = pc'[p]] /\ pc'[p] \in {"offset", "put", "arrive", "initialize"}
  BY <1>5 DEF Call, Goto, TypeOK, Reductions
<1>8. /\ source' = [source EXCEPT ![p] = [i \in Area |-> Datum(p, calls[p] + 1, i)]]
      /\ UNCHANGED <<ops, nelems, acc_off, pe, si, target, tmptrg, flight, arrived, left>>
  BY DEF Call, loops, barrier
<1>9. calls' \in [Member -> 0 .. MaxCalls] /\ \A q \in Member \ {p} : calls'[q] = calls[q]
  BY <1>2, <1>3 DEF TypeOK
<1>10. bits' \in [Member -> {32, 64}] /\ \A q \in Member \ {p} : bits'[q] = bits[q]
  BY <1>4, <1>6 DEF TypeOK
<1>11. pc' \in [Member -> PCs] /\ \A q \in Member \ {p} : pc'[q] = pc[q]
  BY <1>7 DEF TypeOK, PCs, BeforeBarrier, AfterFirst
<1>12. DOMAIN source' = Member /\ \A q \in Member \ {p} : source'[q] = source[q]
  BY <1>8 DEF TypeOK
<1> QED
  BY <1>8, <1>9, <1>10, <1>11, <1>12 DEF TypeOK, Frame, PCs

\* What p builds its result in.
LEMMA WriteTypes ==
  ASSUME TypeOK, NEW p \in Member, calls[p] > 0, NEW v, Write(p, v)
  PROVE  /\ source' = source /\ DOMAIN tmptrg' = Member /\ DOMAIN target' = Member
         /\ \A q \in Member \ {p} : target'[q] = target[q] /\ tmptrg'[q] = tmptrg[q]
         /\ DOMAIN target'[p] = 1 .. MaxCalls
         /\ ~Overlap(p) => target'[p][calls[p]] = v
         /\ Overlap(p) => tmptrg'[p] = v
         /\ \A n \in 1 .. MaxCalls : Overlap(p) \/ n # calls[p] => target'[p][n] = target[p][n]
<1>1. calls[p] \in 1 .. MaxCalls
  BY ElemsTypes
<1>2. CASE Overlap(p)
  BY <1>1, <1>2 DEF Write, TypeOK
<1>3. CASE ~Overlap(p)
  <2>1. target' = [target EXCEPT ![p] = [target[p] EXCEPT ![calls[p]] = v]] /\ UNCHANGED <<source, tmptrg>>
    BY <1>3 DEF Write
  <2>2. target'[p] = [target[p] EXCEPT ![calls[p]] = v]
    BY <2>1 DEF TypeOK
  <2> QED
    BY <1>1, <1>3, <2>1, <2>2 DEF TypeOK
<1> QED
  BY <1>2, <1>3

\* ... as does every step within a call ...
LEMMA StepTypes ==
  ASSUME TypeOK, PcMatchesOp, NEW p \in Member, LibraryStep(p)
  PROVE  TypeOK' /\ Frame(p)
<1>0. calls[p] > 0
  <2>1. pc[p] # "outside"
    BY DEF LibraryStep, Offset, Notify, PutSlices, CleanUp, Arrive, Leave, Get, Initialize, NextPE,
           Combine, ArriveSecond, LeaveSecond
  <2> QED
    BY <2>1 DEF PcMatchesOp, TypeOK
<1>A. calls[p] \in 1 .. MaxCalls /\ Op(p) \in Ops /\ Elems(p) \in 0 .. MaxCount
  BY <1>0, ElemsTypes
<1>B. MaxCount \in Nat /\ step \in Nat /\ PE_start \in Nat
  BY ActiveSetAssumption, CollectivesAssumption
<1> USE DEF program, loops, areas, barrier, BeforeBarrier, AfterFirst, Frame
<1>1. CASE Offset(p)
  BY <1>1 DEF Offset, Goto, TypeOK
<1>2. CASE Notify(p)
  BY <1>2 DEF Notify, Goto, TypeOK
<1>3. CASE PutSlices(p)
  BY <1>3 DEF PutSlices, Goto, TypeOK
<1>4. CASE CleanUp(p)
  BY <1>4 DEF CleanUp, Goto, TypeOK, SYNC
<1>5. CASE Arrive(p)
  BY <1>5 DEF Arrive, Barrier!Arrive, Goto, TypeOK
<1>6. CASE Leave(p)
  <2>1. Then(p) \in {"get", "combine", "outside"}
    BY DEF Then
  <2> QED
    BY <1>6, <2>1 DEF Leave, Barrier!Leave, Goto, TypeOK
<1>7. CASE Get(p)
  <2>1. target' = [target EXCEPT ![p] = [target[p] EXCEPT ![calls[p]] = Slice(root, 0, Words(p))]]
    BY <1>7 DEF Get
  <2>2. target'[p] = [target[p] EXCEPT ![calls[p]] = Slice(root, 0, Words(p))]
    BY <2>1 DEF TypeOK
  <2> QED
    BY <1>7, <2>1, <2>2 DEF Get, Goto, TypeOK
<1>8. CASE Initialize(p)
  <2>1. Write(p, Slice(p, 0, Elems(p)))
    BY <1>8 DEF Initialize
  <2>2. /\ source' = source /\ DOMAIN tmptrg' = Member /\ DOMAIN target' = Member
        /\ \A q \in Member \ {p} : target'[q] = target[q] /\ tmptrg'[q] = tmptrg[q]
        /\ DOMAIN target'[p] = 1 .. MaxCalls
    BY <1>0, <2>1, WriteTypes
  <2>3. pe' = [pe EXCEPT ![p] = PE_start] /\ si' = [si EXCEPT ![p] = 0] /\ pc' = [pc EXCEPT ![p] = "arrive"]
        /\ UNCHANGED <<program, acc_off, flight, barrier>>
    BY <1>8 DEF Initialize, Goto
  <2>4. \A q \in Member : DOMAIN target'[q] = 1 .. MaxCalls
    BY <2>2 DEF TypeOK
  <2>5. /\ pe' \in [Member -> Int] /\ si' \in [Member -> Nat]
        /\ pc' \in [Member -> {"outside", "finish"} \cup BeforeBarrier \cup AfterFirst]
    BY <1>B, <2>3 DEF TypeOK
  <2>6. TypeOK'
    BY <2>2, <2>3, <2>4, <2>5 DEF TypeOK
  <2> QED
    BY <2>2, <2>3, <2>6 DEF TypeOK
<1>9. CASE NextPE(p)
  BY <1>9, <1>B DEF NextPE, TypeOK
<1>10. CASE Combine(p)
  <2>1. PICK v : Write(p, v)
    BY <1>10 DEF Combine
  <2>2. /\ source' = source /\ DOMAIN tmptrg' = Member /\ DOMAIN target' = Member
        /\ \A q \in Member \ {p} : target'[q] = target[q] /\ tmptrg'[q] = tmptrg[q]
        /\ DOMAIN target'[p] = 1 .. MaxCalls
    BY <1>0, <2>1, WriteTypes
  <2>3. si' = [si EXCEPT ![p] = @ + Cardinality(Chunk(si[p], Elems(p)))]
        /\ UNCHANGED <<program, pc, acc_off, pe, flight, barrier>>
    BY <1>10 DEF Combine
  <2>4. Cardinality(Chunk(si[p], Elems(p))) \in Nat
    <3>1. IsFiniteSet(0 .. Elems(p) - 1)
      BY <1>A, <1>B, FS_Interval
    <3>2. Chunk(si[p], Elems(p)) \subseteq 0 .. Elems(p) - 1
      BY DEF Chunk
    <3> QED
      BY <3>1, <3>2, FS_Subset, FS_CardinalityType
  <2>5. \A q \in Member : DOMAIN target'[q] = 1 .. MaxCalls
    BY <2>2 DEF TypeOK
  <2>6. si' \in [Member -> Nat]
    BY <2>3, <2>4 DEF TypeOK
  <2>7. TypeOK'
    BY <2>2, <2>3, <2>5, <2>6 DEF TypeOK
  <2> QED
    BY <2>2, <2>3, <2>7 DEF TypeOK
<1>11. CASE ArriveSecond(p)
  BY <1>11 DEF ArriveSecond, Barrier!Arrive, Goto, TypeOK
<1>12. CASE LeaveSecond(p)
  BY <1>12 DEF LeaveSecond, Finish, Barrier!Leave, Goto, TypeOK
<1> QED
  BY <1>1, <1>2, <1>3, <1>4, <1>5, <1>6, <1>7, <1>8, <1>9, <1>10, <1>11, <1>12 DEF LibraryStep

\* A put that lands changes one cell or one area.
LandFrame ==
  /\ flight' \subseteq flight
  /\ UNCHANGED <<ops, nelems, bits, calls, pc, pe, si, source, tmptrg, arrived, left>>

\* ... and a put that lands only changes targets and offsets.
LEMMA LandTypes ==
  ASSUME TypeOK, FlightIsCurrent, NEW p \in Member, LandFrom(p)
  PROVE  TypeOK' /\ LandFrame
<1>1. PICK m \in flight : m.src = p /\ Land(m)
  BY DEF LandFrom
<1>2. m.dst \in Member /\ (OffsetMsg(m) \/ SliceMsg(m))
  BY <1>1 DEF FlightIsCurrent
<1>3. flight' \subseteq flight /\ UNCHANGED <<ops, nelems, bits, calls, pc, pe, si, source, tmptrg, arrived, left>>
  BY <1>1 DEF Land, program, loops, barrier
<1>4. CASE m.what = "offset"
  <2>1. OffsetMsg(m)
    BY <1>2, <1>4 DEF SliceMsg
  <2>2. calls[m.src] \in 1 .. MaxCalls
    BY <1>1, <2>1, ElemsTypes DEF OffsetMsg, From
  <2>3. m.val \in Int
    <3>1. nelems[calls[m.src]] \in [Member -> Nat]
      BY <2>2, CountTypes
    <3> QED
      BY <3>1, <2>1, <1>2, DueInOrder DEF OffsetMsg
  <2>4. acc_off' = [acc_off EXCEPT ![m.dst] = m.val] /\ UNCHANGED target
    BY <1>1, <1>4 DEF Land
  <2> QED
    BY <1>3, <2>3, <2>4 DEF TypeOK, LandFrame
<1>5. CASE m.what # "offset"
  <2>1. /\ target' = [target EXCEPT ![m.dst] = [target[m.dst] EXCEPT ![m.call] = Over(m.val, target[m.dst][m.call])]]
        /\ UNCHANGED acc_off
    BY <1>1, <1>5 DEF Land
  <2> QED
    BY <1>2, <1>3, <2>1 DEF TypeOK, LandFrame
<1> QED
  BY <1>4, <1>5

-----------------------------------------------------------------------------
\* Where a step of p takes it.
LEMMA CallPlace ==
  ASSUME TypeOK, NEW p \in Member, Call(p)
  PROVE  /\ calls'[p] = calls[p] + 1 /\ calls'[p] > 0 /\ pc[p] = "outside"
         /\ Op(p)' = ops[calls[p] + 1] /\ pc'[p] \in BeforeBarrier
         /\ pc'[p] = "offset" <=> Op(p)' = "collect"
         /\ pc'[p] = "put" <=> Op(p)' = "fcollect"
         /\ pc'[p] = "arrive" <=> Op(p)' = "broadcast"
         /\ pc'[p] = "initialize" <=> Op(p)' \in Reductions
         /\ pc'[p] \in {"offset", "put", "arrive", "initialize"}
         /\ Op(p)' \notin Reductions => bits'[p] = 8 * Size(calls'[p])
         /\ arrived' = arrived /\ left' = left
<1>1. calls[p] \in 0 .. MaxCalls /\ calls[p] < MaxCalls /\ MaxCalls \in Nat
  BY ActiveSetAssumption DEF TypeOK, Call
<1>2. calls[p] + 1 \in 1 .. MaxCalls
  BY <1>1
<1>3. ops[calls[p] + 1] \in {"collect", "fcollect", "broadcast"} \cup Reductions
  BY <1>2, ActiveSetAssumption, CollectivesAssumption DEF TypeOK
<1>4. calls'[p] = calls[p] + 1 /\ ops' = ops /\ pc[p] = "outside" /\ arrived' = arrived /\ left' = left
  BY DEF Call, TypeOK, barrier
<1>5. Op(p)' = ops[calls[p] + 1]
  BY <1>4 DEF Op
<1>6. pc'[p] = CASE ops[calls[p] + 1] = "collect" -> "offset"
                 [] ops[calls[p] + 1] = "fcollect" -> "put"
                 [] ops[calls[p] + 1] = "broadcast" -> "arrive"
                 [] ops[calls[p] + 1] \in Reductions -> "initialize"
  BY DEF Call, Goto, TypeOK
<1>7. Op(p)' \notin Reductions => bits'[p] = 8 * Size(calls'[p])
  <2> SUFFICES ASSUME Op(p)' \notin Reductions PROVE bits'[p] = 8 * Size(calls'[p])
    OBVIOUS
  <2>1. PICK b \in RoutineOf(p, ops[calls[p] + 1], Size(calls[p] + 1)) : bits' = [bits EXCEPT ![p] = b]
    BY DEF Call
  <2>2. Size(calls[p] + 1) \in {4, 8}
    BY DEF Size
  <2>3. b = 8 * Size(calls[p] + 1)
    BY <1>3, <1>5, <2>2, RoutineBits
  <2> QED
    BY <1>4, <2>1, <2>3 DEF TypeOK
<1> QED
  <2>1. /\ pc'[p] = "offset" <=> Op(p)' = "collect"
        /\ pc'[p] = "put" <=> Op(p)' = "fcollect"
        /\ pc'[p] = "arrive" <=> Op(p)' = "broadcast"
        /\ pc'[p] = "initialize" <=> Op(p)' \in Reductions
        /\ pc'[p] \in {"offset", "put", "arrive", "initialize"}
    BY <1>3, <1>5, <1>6 DEF Reductions
  <2>2. pc'[p] \in BeforeBarrier
    BY <2>1 DEF BeforeBarrier
  <2>3. calls'[p] > 0
    BY <1>1, <1>4
  <2> QED
    BY <1>4, <1>5, <1>7, <2>1, <2>2, <2>3

\* Who takes a step of the library is in a call.
LEMMA InACall ==
  ASSUME TypeOK, PcMatchesOp, NEW p \in Member, LibraryStep(p)
  PROVE  pc[p] # "outside" /\ calls[p] > 0
<1>1. pc[p] # "outside"
  BY DEF LibraryStep, Offset, Notify, PutSlices, CleanUp, Arrive, Leave, Get, Initialize, NextPE,
         Combine, ArriveSecond, LeaveSecond
<1> QED
  BY <1>1 DEF PcMatchesOp, TypeOK

\* A step within a call leaves a PE where it is or takes it on, one barrier further
\* if it arrives at one.
LEMMA StepPlace ==
  ASSUME TypeOK, PcMatchesOp, NEW p \in Member, LibraryStep(p)
  PROVE  /\ ops' = ops /\ calls' = calls /\ bits' = bits /\ Op(p)' = Op(p) /\ pc[p] # "outside" /\ calls[p] > 0
         /\ \/ /\ pc'[p] = pc[p] /\ pc[p] = "combine" /\ arrived' = arrived /\ left' = left
            \/ /\ arrived' = arrived /\ left' = left
               /\ \/ pc[p] = "offset" /\ pc'[p] = "notify" /\ Offset(p)
                  \/ pc[p] = "notify" /\ pc'[p] = "put" /\ Notify(p)
                  \/ pc[p] = "put" /\ pc'[p] = "clean" /\ Op(p) = "collect" /\ PutSlices(p)
                  \/ pc[p] = "put" /\ pc'[p] = "arrive" /\ Op(p) = "fcollect" /\ PutSlices(p)
                  \/ pc[p] = "clean" /\ pc'[p] = "arrive" /\ CleanUp(p)
                  \/ pc[p] = "get" /\ pc'[p] = "outside" /\ Get(p)
                  \/ pc[p] = "initialize" /\ pc'[p] = "arrive" /\ Initialize(p)
            \/ /\ \/ pc[p] = "arrive" /\ pc'[p] = "leave" /\ Arrive(p)
                  \/ pc[p] = "combine" /\ pc'[p] = "finish" /\ ArriveSecond(p)
               /\ Barrier!Arrive(p)
            \/ /\ \/ pc[p] = "leave" /\ pc'[p] = Then(p) /\ Leave(p)
                  \/ pc[p] = "finish" /\ pc'[p] = "outside" /\ LeaveSecond(p)
               /\ Barrier!Leave(p)
<1>0. pc[p] # "outside" /\ calls[p] > 0
  BY InACall
<1> USE DEF program, loops, areas, barrier, Goto, TypeOK
<1>1. ops' = ops /\ calls' = calls /\ bits' = bits
  BY DEF LibraryStep, Offset, Notify, PutSlices, CleanUp, Arrive, Leave, Get, Initialize, NextPE,
         Combine, ArriveSecond, LeaveSecond, Finish
<1>2. Op(p)' = Op(p)
  BY <1>1 DEF Op
<1>3. CASE Offset(p) \/ Notify(p) \/ CleanUp(p) \/ Get(p)
  <2>1. CASE Offset(p)
    BY <1>0, <1>1, <1>2, <2>1 DEF Offset
  <2>2. CASE Notify(p)
    BY <1>0, <1>1, <1>2, <2>2 DEF Notify
  <2>3. CASE CleanUp(p)
    BY <1>0, <1>1, <1>2, <2>3 DEF CleanUp
  <2>4. CASE Get(p)
    BY <1>0, <1>1, <1>2, <2>4 DEF Get
  <2> QED
    BY <1>3, <2>1, <2>2, <2>3, <2>4
<1>4. CASE PutSlices(p)
  <2>1. Op(p) \in {"collect", "fcollect"}
    BY <1>4 DEF PcMatchesOp, PutSlices
  <2> QED
    BY <1>0, <1>1, <1>2, <1>4, <2>1 DEF PutSlices
<1>5. CASE Initialize(p)
  BY <1>0, <1>1, <1>2, <1>5 DEF Initialize
<1>6. CASE NextPE(p) \/ Combine(p)
  BY <1>0, <1>1, <1>2, <1>6 DEF NextPE, Combine
<1>7. CASE Arrive(p) \/ ArriveSecond(p)
  BY <1>0, <1>1, <1>2, <1>7 DEF Arrive, ArriveSecond
<1>8. CASE Leave(p)
  BY <1>0, <1>1, <1>2, <1>8 DEF Leave
<1>9. CASE LeaveSecond(p)
  BY <1>0, <1>1, <1>2, <1>9 DEF LeaveSecond, Finish
<1> QED
  BY <1>3, <1>4, <1>5, <1>6, <1>7, <1>8, <1>9 DEF LibraryStep

\* Where the first barrier leads.
LEMMA ThenPlace ==
  ASSUME TypeOK, NEW p \in Member, calls[p] > 0
  PROVE  \/ Then(p) = "get" /\ Op(p) = "broadcast" /\ p # root
         \/ Then(p) = "combine" /\ Op(p) \in Reductions
         \/ Then(p) = "outside" /\ Op(p) \notin Reductions /\ ~(Op(p) = "broadcast" /\ p # root)
<1>1. "broadcast" \notin Reductions
  BY DEF Reductions
<1> QED
  BY <1>1 DEF Then

\* PEs stay in the part of the library that their operation has.
LEMMA PcStep ==
  ASSUME IInv, [Next]_vars
  PROVE  PcMatchesOp'
<1> USE DEF IInv
<1>1. CASE UNCHANGED vars
  BY <1>1 DEF vars, PcMatchesOp, Op
<1>2. ASSUME NEW p \in Member, Call(p)
      PROVE  PcMatchesOp'
  <2>1. Frame(p)
    BY <1>2, CallTypes
  <2>2. \A q \in Member \ {p} : Op(q)' = Op(q) /\ pc'[q] = pc[q] /\ calls'[q] = calls[q] /\ bits'[q] = bits[q]
    BY <2>1 DEF Frame, Op
  <2>3. /\ calls'[p] > 0
        /\ pc'[p] = "offset" <=> Op(p)' = "collect"
        /\ pc'[p] = "put" <=> Op(p)' = "fcollect"
        /\ pc'[p] = "initialize" <=> Op(p)' \in Reductions
        /\ pc'[p] \in {"offset", "put", "arrive", "initialize"}
        /\ Op(p)' \notin Reductions => bits'[p] = 8 * Size(calls'[p])
    BY <1>2, CallPlace
  <2>4. calls'[p] # 0
    BY <2>3
  <2> QED
    BY <2>2, <2>3, <2>4 DEF PcMatchesOp
<1>3. ASSUME NEW p \in Member, LibraryStep(p)
      PROVE  PcMatchesOp'
  <2>1. Frame(p)
    BY <1>3, StepTypes
  <2>2. \A q \in Member \ {p} : Op(q)' = Op(q) /\ pc'[q] = pc[q] /\ calls'[q] = calls[q] /\ bits'[q] = bits[q]
    BY <2>1 DEF Frame, Op
  <2>3. /\ calls' = calls /\ bits' = bits /\ Op(p)' = Op(p) /\ pc[p] # "outside"
        /\ \/ pc'[p] = pc[p]
           \/ pc[p] = "offset" /\ pc'[p] = "notify"
           \/ pc[p] = "notify" /\ pc'[p] = "put"
           \/ pc[p] = "put" /\ pc'[p] = "clean" /\ Op(p) = "collect"
           \/ pc[p] = "combine" /\ pc'[p] = "finish"
           \/ pc[p] = "leave" /\ pc'[p] = Then(p)
           \/ pc'[p] \in {"outside", "arrive", "leave"}
    BY <1>3, StepPlace
  <2>4. calls[p] > 0
    BY <1>3, InACall
  <2>5. /\ Then(p) \in {"get", "combine", "outside"}
        /\ Then(p) = "get" => Op(p) = "broadcast" /\ p # root
        /\ Then(p) = "combine" => Op(p) \in Reductions
    BY <2>4, ThenPlace
  <2> QED
    BY <2>2, <2>3, <2>4, <2>5 DEF PcMatchesOp
<1>4. ASSUME NEW p \in Member, LandFrom(p)
      PROVE  PcMatchesOp'
  BY <1>4, LandTypes DEF LandFrame, PcMatchesOp, Op
<1> QED
  BY <1>1, <1>2, <1>3, <1>4 DEF Next, Finished

-----------------------------------------------------------------------------
\* The barrier keeps the PEs in step.
Inside == {"leave", "finish"}

\* The numbers that the argument about the barrier counts with.
LEMMA StageTypes ==
  ASSUME TypeOK, NEW p \in Member
  PROVE  /\ Stage(p) \in {0, 1, 2} /\ Barriers(Op(p)) \in {1, 2} /\ Base(p) \in Int
         /\ arrived[p] = Base(p) + Stage(p)
         /\ arrived[p] \in Nat /\ left[p] \in Nat /\ calls[p] \in Nat
<1>1. Stage(p) \in {0, 1, 2} /\ Barriers(Op(p)) \in {1, 2}
  BY DEF Stage, Barriers
<1>2. arrived[p] \in Nat /\ left[p] \in Nat /\ calls[p] \in Nat
  BY DEF TypeOK
<1> QED
  BY <1>1, <1>2 DEF Base

\* A call starts before its first barrier, from where the last one ended.
LEMMA StageOfCall ==
  ASSUME TypeOK, PcMatchesOp, NEW p \in Member, Call(p)
  PROVE  /\ Stage(p) = (IF calls[p] = 0 THEN 0 ELSE Barriers(Op(p)))
         /\ Stage(p)' = 0 /\ Base(p)' = arrived[p]
         /\ \A q \in Member \ {p} : Stage(q)' = Stage(q) /\ Base(q)' = Base(q) /\ Op(q)' = Op(q)
<1>1. Frame(p)
  BY CallTypes
<1>2. pc'[p] \in BeforeBarrier /\ pc[p] = "outside" /\ arrived' = arrived /\ left' = left
  BY CallPlace
<1>3. \A q \in Member \ {p} : Op(q)' = Op(q) /\ pc'[q] = pc[q] /\ calls'[q] = calls[q]
  BY <1>1 DEF Frame, Op
<1>4. \A q \in Member \ {p} : Stage(q)' = Stage(q)
  BY <1>3 DEF Stage
<1>5. Stage(p)' = 0
  BY <1>2 DEF Stage
<1>6. Stage(p) = (IF calls[p] = 0 THEN 0 ELSE Barriers(Op(p)))
  BY <1>2 DEF Stage, BeforeBarrier, AfterFirst
<1>7. arrived[p] \in Nat
  BY DEF TypeOK
<1> QED
  BY <1>2, <1>3, <1>4, <1>5, <1>6, <1>7 DEF Base

\* Within a call, arriving is the only step to the next stage.
LEMMA StageOfStep ==
  ASSUME TypeOK, PcMatchesOp, NEW p \in Member, LibraryStep(p)
  PROVE  /\ Base(p)' = Base(p) /\ calls' = calls
         /\ \A q \in Member : Op(q)' = Op(q)
         /\ \A q \in Member \ {p} : Stage(q)' = Stage(q) /\ Base(q)' = Base(q) /\ pc'[q] = pc[q]
         /\ \/ /\ arrived' = arrived /\ left' = left /\ Stage(p)' = Stage(p)
               /\ pc[p] \notin Inside /\ pc'[p] \notin Inside
            \/ /\ arrived'[p] = arrived[p] + 1 /\ left' = left /\ Stage(p)' = Stage(p) + 1
               /\ Stage(p) < Barriers(Op(p)) /\ arrived[p] = left[p]
               /\ pc[p] \notin Inside /\ pc'[p] \in Inside
               /\ \A q \in Member \ {p} : arrived'[q] = arrived[q]
            \/ /\ arrived' = arrived /\ left'[p] = left[p] + 1 /\ Stage(p)' = Stage(p)
               /\ pc[p] \in Inside /\ pc'[p] \notin Inside
               /\ \A q \in Member : left[p] < arrived[q]
               /\ \A q \in Member \ {p} : left'[q] = left[q]
<1>1. Frame(p) /\ calls' = calls /\ Op(p)' = Op(p) /\ calls[p] > 0 /\ pc[p] # "outside"
  BY StepTypes, StepPlace
<1>2. \A q \in Member \ {p} : Op(q)' = Op(q) /\ pc'[q] = pc[q] /\ calls'[q] = calls[q] /\ arrived'[q] = arrived[q]
  BY <1>1 DEF Frame, Op
<1>3. \A q \in Member \ {p} : Stage(q)' = Stage(q)
  BY <1>2 DEF Stage
<1>4. \A q \in Member \ {p} : Base(q)' = Base(q)
  BY <1>2, <1>3 DEF Base
<1>5. calls[p] # 0 /\ calls'[p] # 0
  BY <1>1 DEF TypeOK
<1>6. "collect" \notin Reductions /\ "fcollect" \notin Reductions /\ "broadcast" \notin Reductions
  BY DEF Reductions
<1>7. /\ pc[p] \in {"offset", "notify", "clean", "get", "put"} => Op(p) \notin Reductions
      /\ pc[p] \in {"initialize", "combine", "finish"} => Op(p) \in Reductions
  BY <1>6 DEF PcMatchesOp
<1>8. CASE arrived' = arrived /\ left' = left
  <2>1. \/ pc'[p] = pc[p] /\ pc[p] = "combine"
        \/ pc[p] = "offset" /\ pc'[p] = "notify"
        \/ pc[p] = "notify" /\ pc'[p] = "put"
        \/ pc[p] = "put" /\ pc'[p] \in {"clean", "arrive"}
        \/ pc[p] = "clean" /\ pc'[p] = "arrive"
        \/ pc[p] = "get" /\ pc'[p] = "outside"
        \/ pc[p] = "initialize" /\ pc'[p] = "arrive"
    <3>1. ~Barrier!Arrive(p) /\ ~Barrier!Leave(p)
      BY <1>8 DEF Barrier!Arrive, Barrier!Leave, TypeOK
    <3> QED
      BY <3>1, StepPlace
  <2>2. Stage(p)' = Stage(p)
    BY <1>1, <1>5, <1>7, <2>1 DEF Stage, BeforeBarrier, AfterFirst, Barriers
  <2>3. pc[p] \notin Inside /\ pc'[p] \notin Inside
    BY <2>1 DEF Inside
  <2>4. Base(p)' = Base(p)
    BY <1>8, <2>2 DEF Base
  <2> QED
    BY <1>1, <1>2, <1>3, <1>4, <1>8, <2>2, <2>3, <2>4
<1>9. CASE ~(arrived' = arrived /\ left' = left) /\ Barrier!Arrive(p)
  <2>1. /\ arrived[p] = left[p] /\ arrived'[p] = arrived[p] + 1 /\ left' = left
        /\ \A q \in Member \ {p} : arrived'[q] = arrived[q]
    BY <1>9 DEF Barrier!Arrive, TypeOK
  <2>2. \/ pc[p] = "arrive" /\ pc'[p] = "leave"
        \/ pc[p] = "combine" /\ pc'[p] = "finish"
    <3>1. ~Barrier!Leave(p)
      <4>1. arrived[p] \in Nat
        BY StageTypes
      <4> QED
        BY <2>1, <4>1 DEF Barrier!Leave
    <3> QED
      BY <1>9, <3>1, StepPlace
  <2>3. Stage(p)' = Stage(p) + 1 /\ Stage(p) < Barriers(Op(p))
    BY <1>7, <2>2 DEF Stage, BeforeBarrier, AfterFirst, Barriers
  <2>4. pc[p] \notin Inside /\ pc'[p] \in Inside
    BY <2>2 DEF Inside
  <2>5. Base(p)' = Base(p)
    <3>1. arrived[p] \in Nat /\ Stage(p) \in {0, 1, 2}
      BY StageTypes
    <3> QED
      BY <2>1, <2>3, <3>1 DEF Base
  <2> QED
    BY <1>1, <1>2, <1>3, <1>4, <2>1, <2>3, <2>4, <2>5
<1>10. CASE ~(arrived' = arrived /\ left' = left) /\ Barrier!Leave(p)
  <2>1. /\ \A q \in Member : left[p] < arrived[q]
        /\ left'[p] = left[p] + 1 /\ arrived' = arrived
        /\ \A q \in Member \ {p} : left'[q] = left[q]
    BY <1>10 DEF Barrier!Leave, TypeOK
  <2>2. \/ pc[p] = "leave" /\ pc'[p] = Then(p)
        \/ pc[p] = "finish" /\ pc'[p] = "outside"
    <3>1. ~Barrier!Arrive(p)
      <4>1. left[p] \in Nat
        BY DEF TypeOK
      <4> QED
        BY <2>1, <4>1 DEF Barrier!Arrive
    <3> QED
      BY <1>10, <3>1, StepPlace
  <2>3. \/ Then(p) = "get" /\ Op(p) \notin Reductions
        \/ Then(p) = "combine" /\ Op(p) \in Reductions
        \/ Then(p) = "outside" /\ Op(p) \notin Reductions
    BY <1>1, <1>6, ThenPlace
  <2>4. Stage(p)' = Stage(p)
    BY <1>1, <1>5, <1>7, <2>2, <2>3 DEF Stage, BeforeBarrier, AfterFirst, Barriers
  <2>5. pc[p] \in Inside /\ pc'[p] \notin Inside
    BY <2>2, <2>3 DEF Inside
  <2>6. Base(p)' = Base(p)
    BY <2>1, <2>4 DEF Base
  <2> QED
    BY <1>1, <1>2, <1>3, <1>4, <2>1, <2>4, <2>5, <2>6
<1> QED
  BY <1>8, <1>9, <1>10, StepPlace

\* No step lets a PE get more than a call ahead of another.
LEMMA LockstepStep ==
  ASSUME IInv, [Next]_vars
  PROVE  Lockstep'
<1> USE DEF IInv
<1>1. CASE UNCHANGED vars
  BY <1>1 DEF vars, Lockstep, InStep, Base, Stage, Op
<1>2. ASSUME NEW p \in Member, Call(p)
      PROVE  Lockstep'
  <2>1. /\ calls'[p] = calls[p] + 1 /\ pc[p] = "outside" /\ pc'[p] \in BeforeBarrier
        /\ arrived' = arrived /\ left' = left
    BY <1>2, CallPlace
  <2>2. /\ Stage(p) = (IF calls[p] = 0 THEN 0 ELSE Barriers(Op(p)))
        /\ Stage(p)' = 0 /\ Base(p)' = arrived[p]
        /\ \A q \in Member \ {p} : Stage(q)' = Stage(q) /\ Base(q)' = Base(q) /\ Op(q)' = Op(q)
    BY <1>2, StageOfCall
  <2>3. \A q \in Member \ {p} : pc'[q] = pc[q] /\ calls'[q] = calls[q]
    BY <1>2, CallTypes DEF Frame
  <2>4. arrived[p] = left[p]
    <3>1. pc[p] \notin {"leave", "finish"} /\ left[p] \in Nat
      BY <2>1, StageTypes
    <3>2. arrived[p] = left[p] + 0
      BY <3>1 DEF Lockstep
    <3> QED
      BY <3>1, <3>2
  <2>5. ASSUME NEW q \in Member \ {p}
        PROVE  InStep(p, q)' /\ InStep(q, p)'
    <3>1. /\ Stage(q) \in {0, 1, 2} /\ Barriers(Op(q)) \in {1, 2} /\ Base(q) \in Int
          /\ arrived[q] = Base(q) + Stage(q) /\ calls[q] \in Nat /\ arrived[q] \in Nat
          /\ Stage(p) \in {0, 1, 2} /\ Barriers(Op(p)) \in {1, 2} /\ Base(p) \in Int
          /\ arrived[p] = Base(p) + Stage(p) /\ calls[p] \in Nat
      BY StageTypes
    <3>2. InStep(p, q) /\ InStep(q, p) /\ left[p] <= arrived[q]
      BY DEF Lockstep
    <3>3. Stage(q) <= (IF calls[q] = 0 THEN 0 ELSE Barriers(Op(q)))
      <4>1. pc[q] \in {"get", "leave"} \cup BeforeBarrier => calls[q] # 0
        BY DEF PcMatchesOp, TypeOK, BeforeBarrier
      <4> QED
        BY <3>1 DEF PcMatchesOp, Stage, BeforeBarrier, AfterFirst, Barriers, TypeOK
    <3>4. CASE calls[p] = calls[q]
      <4>1. Base(p) = Base(q) /\ Op(p) = Op(q)
        BY <3>2, <3>4 DEF InStep, Op
      <4>2. Stage(p) <= Stage(q)
        BY <2>4, <3>1, <3>2, <4>1
      <4>3. Stage(q) = (IF calls[q] = 0 THEN 0 ELSE Barriers(Op(q))) /\ arrived[q] = arrived[p]
        BY <2>2, <3>1, <3>3, <3>4, <4>1, <4>2
      <4>4. calls'[p] # calls'[q] /\ calls'[p] > calls'[q] /\ calls'[p] = calls'[q] + 1
            /\ ~(calls'[q] > calls'[p])
        BY <2>1, <2>3, <3>1, <3>4
      <4> QED
        BY <2>1, <2>2, <2>3, <4>3, <4>4 DEF InStep
    <3>5. CASE calls[p] > calls[q]
      <4>1. Base(p) = arrived[q] /\ calls[p] # 0
        BY <3>1, <3>2, <3>5 DEF InStep
      <4>2. Stage(p) >= 1
        BY <2>2, <3>1, <4>1
      <4> QED
        BY <2>4, <3>1, <3>2, <4>1, <4>2
    <3>6. CASE calls[q] > calls[p]
      <4>1. calls[q] = calls[p] + 1 /\ Base(q) = arrived[p]
        BY <3>2, <3>6 DEF InStep
      <4>2. calls'[p] = calls'[q] /\ ~(calls'[p] > calls'[q]) /\ ~(calls'[q] > calls'[p])
        BY <2>1, <2>3, <3>1, <4>1
      <4>3. Base(p)' = Base(q)'
        BY <2>2, <4>1
      <4> QED
        BY <4>2, <4>3 DEF InStep
    <3> QED
      BY <3>1, <3>4, <3>5, <3>6
  <2>6. InStep(p, p)'
    <3>1. calls'[p] \in Nat
      BY <1>2, CallTypes DEF TypeOK
    <3> QED
      BY <3>1 DEF InStep
  <2>7. \A q, r \in Member \ {p} : InStep(q, r)'
    BY <2>1, <2>2, <2>3 DEF Lockstep, InStep
  <2>8. pc'[p] \notin {"leave", "finish"}
    BY <2>1 DEF BeforeBarrier
  <2> QED
    BY <2>1, <2>3, <2>5, <2>6, <2>7, <2>8 DEF Lockstep
<1>3. ASSUME NEW p \in Member, LibraryStep(p)
      PROVE  Lockstep'
  <2>1. /\ Base(p)' = Base(p) /\ calls' = calls
        /\ \A q \in Member : Op(q)' = Op(q)
        /\ \A q \in Member \ {p} : Stage(q)' = Stage(q) /\ Base(q)' = Base(q) /\ pc'[q] = pc[q]
    BY <1>3, StageOfStep
  <2>2. \A q \in Member : Base(q)' = Base(q)
    BY <2>1
  <2>3. CASE arrived' = arrived /\ left' = left /\ Stage(p)' = Stage(p)
             /\ pc[p] \notin Inside /\ pc'[p] \notin Inside
    <3>1. \A q \in Member : Stage(q)' = Stage(q) /\ (pc'[q] \in Inside <=> pc[q] \in Inside)
      BY <2>1, <2>3
    <3>2. \A q, r \in Member : InStep(q, r)'
      BY <2>1, <2>2, <2>3, <3>1 DEF Lockstep, InStep
    <3> QED
      BY <2>3, <3>1, <3>2 DEF Lockstep, Inside
  <2>4. CASE /\ arrived'[p] = arrived[p] + 1 /\ left' = left /\ Stage(p)' = Stage(p) + 1
             /\ Stage(p) < Barriers(Op(p)) /\ arrived[p] = left[p]
             /\ pc[p] \notin Inside /\ pc'[p] \in Inside
             /\ \A q \in Member \ {p} : arrived'[q] = arrived[q]
    <3>1. calls[p] > 0
      BY <1>3, InACall
    <3>2. ASSUME NEW q \in Member, calls[q] > calls[p]
          PROVE  FALSE
      <4>1. Stage(p) = Barriers(Op(p))
        BY <3>1, <3>2, StageTypes DEF Lockstep, InStep
      <4> QED
        BY <2>4, <4>1, StageTypes
    <3>3. \A q, r \in Member : InStep(q, r)'
      <4> SUFFICES ASSUME NEW q \in Member, NEW r \in Member PROVE InStep(q, r)'
        OBVIOUS
      <4>1. InStep(q, r)
        BY DEF Lockstep
      <4>2. CASE r = p
        <5>1. ~(calls[q] > calls[p])
          BY <3>2
        <5> QED
          BY <2>1, <2>2, <4>1, <4>2, <5>1 DEF InStep
      <4>3. CASE r # p
        BY <2>1, <2>2, <2>4, <4>1, <4>3 DEF InStep
      <4> QED
        BY <4>2, <4>3
    <3>4. \A q \in Member : arrived'[q] = left'[q] + (IF pc'[q] \in Inside THEN 1 ELSE 0)
      BY <2>1, <2>4 DEF Lockstep, Inside
    <3>5. \A q, r \in Member : left'[q] <= arrived'[r]
      <4>1. \A q, r \in Member : left[q] <= arrived[r] /\ left[q] \in Nat /\ arrived[r] \in Nat
        BY StageTypes DEF Lockstep
      <4> QED
        BY <2>4, <4>1
    <3> QED
      BY <3>3, <3>4, <3>5 DEF Lockstep, Inside
  <2>5. CASE /\ arrived' = arrived /\ left'[p] = left[p] + 1 /\ Stage(p)' = Stage(p)
             /\ pc[p] \in Inside /\ pc'[p] \notin Inside
             /\ \A q \in Member : left[p] < arrived[q]
             /\ \A q \in Member \ {p} : left'[q] = left[q]
    <3>1. \A q \in Member : Stage(q)' = Stage(q)
      BY <2>1, <2>5
    <3>2. \A q, r \in Member : InStep(q, r)'
      BY <2>1, <2>2, <2>5, <3>1 DEF Lockstep, InStep
    <3>3. \A q \in Member : left[q] \in Nat /\ arrived[q] \in Nat
      BY StageTypes
    <3>4. \A q \in Member : arrived'[q] = left'[q] + (IF pc'[q] \in Inside THEN 1 ELSE 0)
      BY <2>1, <2>5, <3>3 DEF Lockstep, Inside
    <3>5. \A q, r \in Member : left'[q] <= arrived'[r]
      BY <2>5, <3>3 DEF Lockstep
    <3> QED
      BY <3>2, <3>4, <3>5 DEF Lockstep, Inside
  <2> QED
    BY <1>3, <2>3, <2>4, <2>5, StageOfStep
<1>4. ASSUME NEW p \in Member, LandFrom(p)
      PROVE  Lockstep'
  BY <1>4, LandTypes DEF LandFrame, Lockstep, InStep, Base, Stage, Op
<1> QED
  BY <1>1, <1>2, <1>3, <1>4 DEF Next, Finished

-----------------------------------------------------------------------------
\* What a PE that is through a barrier knows of the others.
LEMMA BehindNobody ==
  ASSUME TypeOK, PcMatchesOp, Lockstep, NEW p \in Member, NEW q \in Member,
         calls[p] > 0, Base(p) < left[p] \/ Stage(p) = 0
  PROVE  /\ Base(p) < left[p] => calls[q] \in {calls[p], calls[p] + 1}
         /\ Base(p) < left[p] /\ calls[q] = calls[p] => left[p] - Base(p) <= Stage(q)
         /\ Stage(p) = 0 => calls[q] <= calls[p]
         /\ calls[q] = calls[p] => Base(q) = Base(p)
         /\ calls[q] > calls[p] => calls[q] = calls[p] + 1 /\ Stage(p) = Barriers(Op(p))
         /\ calls[q] < calls[p] => calls[q] + 1 = calls[p]
                                   /\ Stage(q) = (IF calls[q] = 0 THEN 0 ELSE Barriers(Op(q)))
<1>1. InStep(p, q) /\ InStep(q, p) /\ left[p] <= arrived[q]
  BY DEF Lockstep
<1>2. /\ calls[p] \in Nat /\ calls[q] \in Nat /\ left[p] \in Nat /\ arrived[q] \in Nat
      /\ Base(p) \in Int /\ Base(q) \in Int /\ arrived[q] = Base(q) + Stage(q)
      /\ Stage(p) \in {0, 1, 2} /\ Stage(q) \in {0, 1, 2} /\ Barriers(Op(p)) \in {1, 2}
  BY StageTypes
<1>3. calls[p] # 0
  BY <1>2
<1>4. calls[q] = calls[p] => Base(q) = Base(p)
  BY <1>1 DEF InStep
<1>5. calls[q] > calls[p] => calls[q] = calls[p] + 1 /\ Stage(p) = Barriers(Op(p))
  BY <1>1, <1>3 DEF InStep
<1>6. calls[p] > calls[q] => calls[p] = calls[q] + 1 /\ Base(p) = arrived[q]
         /\ Stage(q) = (IF calls[q] = 0 THEN 0 ELSE Barriers(Op(q)))
  BY <1>1 DEF InStep
<1> QED
  BY <1>1, <1>2, <1>4, <1>5, <1>6

\* The program's own synchronisation keeps all behind the one that still works.
LEMMA SeparationStep ==
  ASSUME IInv, [Next]_vars
  PROVE  Separation'
<1> USE DEF IInv
<1>1. CASE UNCHANGED vars
  BY <1>1 DEF vars, Separation, Op
<1>2. ASSUME NEW p \in Member, Call(p)
      PROVE  Separation'
  <2>1. Lockstep' /\ TypeOK' /\ Frame(p)
    BY <1>2, LockstepStep, CallTypes
  <2>2. calls'[p] = calls[p] + 1 /\ pc[p] = "outside" /\ calls[p] \in Nat
    BY <1>2, CallPlace, StageTypes
  <2> SUFFICES ASSUME NEW x \in Member, NEW q \in Member,
                      calls'[x] > 0, calls'[q] > calls'[x], Op(x)' \in Separated
               PROVE  pc'[x] = "outside"
    BY DEF Separation
  <2>3. x # q /\ calls'[x] \in Nat /\ calls'[q] \in Nat
    BY <2>1 DEF TypeOK
  <2>4. calls'[q] = calls'[x] + 1
    BY <2>1, <2>3 DEF Lockstep, InStep
  <2>5. CASE x = p
    <3>1. calls[q] = calls[p] + 2 /\ calls[q] > calls[p]
      BY <2>1, <2>2, <2>3, <2>4, <2>5 DEF Frame
    <3>2. calls[q] = calls[p] + 1
      BY <3>1 DEF Lockstep, InStep
    <3> QED
      BY <2>2, <3>1, <3>2
  <2>6. CASE q = p
    <3>1. /\ calls[x] = calls[p] /\ pc'[x] = pc[x] /\ Op(x)' = ops[calls[x]] /\ calls[p] > 0
          /\ calls[x] \in Nat
      BY <2>1, <2>2, <2>3, <2>4, <2>6 DEF Frame, Op
    <3>2. Op(p) \in Separated
      BY <3>1 DEF Op
    <3>3. calls[x] > calls[p] \/ (calls[x] = calls[p] /\ pc[x] = "outside")
      BY <1>2, <3>1, <3>2 DEF Call
    <3> QED
      BY <2>2, <3>1, <3>3
  <2>7. CASE x # p /\ q # p
    <3>1. calls'[x] = calls[x] /\ calls'[q] = calls[q] /\ pc'[x] = pc[x] /\ Op(x)' = Op(x)
      BY <2>1, <2>7 DEF Frame, Op
    <3> QED
      BY <3>1 DEF Separation
  <2> QED
    BY <2>5, <2>6, <2>7
<1>3. ASSUME NEW p \in Member, LibraryStep(p)
      PROVE  Separation'
  <2>1. calls' = calls /\ pc[p] # "outside" /\ \A q \in Member : Op(q)' = Op(q)
    BY <1>3, StageOfStep, InACall
  <2>2. \A q \in Member \ {p} : pc'[q] = pc[q]
    BY <1>3, StageOfStep
  <2> QED
    BY <2>1, <2>2 DEF Separation
<1>4. ASSUME NEW p \in Member, LandFrom(p)
      PROVE  Separation'
  BY <1>4, LandTypes DEF LandFrame, Separation, Op
<1> QED
  BY <1>1, <1>2, <1>3, <1>4 DEF Next, Finished

\* No step within a call changes a source, but the end of a reduction in place.
LEMMA SourcesStep ==
  ASSUME IInv, [Next]_vars
  PROVE  SourcesHold'
<1> USE DEF IInv
<1>1. CASE UNCHANGED vars
  BY <1>1 DEF vars, SourcesHold, Op
<1>2. ASSUME NEW p \in Member, Call(p)
      PROVE  SourcesHold'
  <2>1. Frame(p) /\ calls'[p] = calls[p] + 1
    BY <1>2, CallTypes, CallPlace
  <2>2. source'[p] = [i \in Area |-> Datum(p, calls'[p], i)]
    BY <1>2, <2>1 DEF Call, TypeOK
  <2>3. \A q \in Member \ {p} : /\ source'[q] = source[q] /\ calls'[q] = calls[q]
                                /\ pc'[q] = pc[q] /\ Op(q)' = Op(q)
    BY <2>1 DEF Frame, Op
  <2> QED
    BY <2>2, <2>3 DEF SourcesHold
<1>3. ASSUME NEW p \in Member, LibraryStep(p)
      PROVE  SourcesHold'
  <2>1. calls' = calls /\ pc[p] # "outside" /\ \A q \in Member : Op(q)' = Op(q)
    BY <1>3, StageOfStep, InACall
  <2>2. \A q \in Member \ {p} : source'[q] = source[q] /\ pc'[q] = pc[q]
    BY <1>3, StepTypes DEF Frame
  <2>3. source' = source \/ (Op(p) = "reduce in place" /\ pc'[p] = "outside")
    <3>1. CASE LeaveSecond(p)
      BY <3>1 DEF LeaveSecond, Finish, Overlap, Goto, TypeOK
    <3>2. CASE Initialize(p)
      BY <3>2 DEF Initialize, Write
    <3>3. CASE Combine(p)
      BY <3>3 DEF Combine, Write
    <3> QED
      BY <1>3, <3>1, <3>2, <3>3 DEF LibraryStep, Offset, Notify, PutSlices, CleanUp, Arrive, Leave, Get,
         NextPE, ArriveSecond, areas
  <2> QED
    BY <2>1, <2>2, <2>3 DEF SourcesHold
<1>4. ASSUME NEW p \in Member, LandFrom(p)
      PROVE  SourcesHold'
  BY <1>4, LandTypes DEF LandFrame, SourcesHold, Op
<1> QED
  BY <1>1, <1>2, <1>3, <1>4 DEF Next, Finished

-----------------------------------------------------------------------------
\* The wave of offsets.

\* A wave reaches a PE that waits for it, which is not in one already.
LEMMA AwaitsOutsideWave ==
  ASSUME TypeOK, PcMatchesOp, Lockstep, NEW l \in Member, NEW p \in Member,
         calls[l] > 0, Awaits(p, calls[l])
  PROVE  ~InWave(p) /\ (calls[p] > 0 /\ pc[p] = "offset" => calls[p] = calls[l])
<1>1. InStep(l, p) /\ calls[p] \in Nat /\ calls[l] \in Nat
  BY StageTypes DEF Lockstep
<1>2. CASE calls[p] + 1 = calls[l]
  <2>1. Stage(p) = (IF calls[p] = 0 THEN 0 ELSE Barriers(Op(p)))
    BY <1>1, <1>2 DEF InStep
  <2>2. calls[p] > 0 => Stage(p) # 0
    BY <1>1, <2>1, StageTypes
  <2>3. pc[p] \in {"notify", "put", "clean", "offset"} => calls[p] > 0 /\ Stage(p) = 0
    BY <1>1 DEF PcMatchesOp, Stage, BeforeBarrier
  <2> QED
    BY <1>2, <2>2, <2>3 DEF InWave
<1>3. CASE calls[p] = calls[l] /\ pc[p] = "offset"
  BY <1>3 DEF InWave
<1> QED
  BY <1>2, <1>3 DEF Awaits

\* What is due to a PE is due to it after a step, too.
LEMMA DueKept ==
  ASSUME nelems' = nelems
  PROVE  /\ \A p, n : Due(p, n)' = Due(p, n)
         /\ \A p, n : Passed(p, n)' = Passed(p, n)
         /\ \A p, n : Before(p, n)' = Before(p, n)
         /\ \A p, n : WordsOf(p, n)' = WordsOf(p, n)
         /\ \A p, n : Extent(p, n)' = Extent(p, n)
BY DEF Due, Passed, Before, WordsOf, Extent

\* Steps that keep these of p and of its left neighbour keep p's part in the wave.
LEMMA WaveKept ==
  ASSUME nelems' = nelems, NEW p \in Member,
         calls'[p] = calls[p], pc'[p] = pc[p], Op(p)' = Op(p), acc_off'[p] = acc_off[p],
         p # PE_start => /\ calls'[p - step] = calls[p - step] /\ pc'[p - step] = pc[p - step]
                         /\ Op(p - step)' = Op(p - step)
  PROVE  HasOffset(p) /\ HasNextOffset(p) /\ LeftHasSent(p) =>
           HasOffset(p)' /\ HasNextOffset(p)' /\ LeftHasSent(p)'
<1>1. \A n : Due(p, n)' = Due(p, n)
  BY DueKept
<1>2. InWave(p)' <=> InWave(p)
  BY DEF InWave
<1>3. HasOffset(p) => HasOffset(p)'
  BY <1>1, <1>2 DEF HasOffset
<1>4. LeftHasSent(p) => LeftHasSent(p)'
  BY DEF LeftHasSent
<1>5. p - step \in Member => p # PE_start
  BY Neighbours, Places, ActiveSetAssumption
<1>6. \A n : Awaits(p, n)' <=> Awaits(p, n)
  BY DEF Awaits
<1>7. \A S : From(p - step, p, S) => From(p - step, p, S)' /\ calls'[p - step] = calls[p - step]
  BY <1>5, <1>6 DEF From
<1>8. HasNextOffset(p) => HasNextOffset(p)'
  BY <1>1, <1>2, <1>7 DEF HasNextOffset
<1> QED
  BY <1>3, <1>4, <1>8

\* Who calls next finds the offset that may already be there to be its own.
LEMMA WaveCall ==
  ASSUME IInv, NEW r \in Member, Call(r)
  PROVE  Wave'
<1> USE DEF IInv
<1>1. Frame(r) /\ TypeOK'
  BY CallTypes
<1>2. /\ calls'[r] = calls[r] + 1 /\ pc[r] = "outside" /\ Op(r)' = ops[calls[r] + 1]
      /\ pc'[r] = "offset" <=> Op(r)' = "collect"
      /\ pc'[r] \in {"offset", "put", "arrive", "initialize"}
  BY CallPlace
<1>3. nelems' = nelems /\ acc_off' = acc_off /\ \A n : Due(r, n)' = Due(r, n)
  BY <1>1, DueKept DEF Call, program, Frame
<1>4. calls[r] \in Nat
  BY StageTypes
<1>5. \A q \in Member \ {r} : calls'[q] = calls[q] /\ pc'[q] = pc[q] /\ Op(q)' = Op(q)
  BY <1>1 DEF Frame, Op
<1>6. ASSUME NEW p \in Member, p # r, p - step # r
      PROVE  HasOffset(p)' /\ HasNextOffset(p)' /\ LeftHasSent(p)'
  <2>1. p # PE_start => p - step \in Member \ {r}
    BY <1>6, Neighbours
  <2> QED
    BY <1>3, <1>5, <1>6, <2>1, WaveKept DEF Wave
<1>7. HasOffset(r)' /\ LeftHasSent(r)' /\ HasNextOffset(r)'
  <2>1. HasOffset(r)' /\ LeftHasSent(r)'
    BY <1>2 DEF HasOffset, InWave, LeftHasSent
  <2>2. ASSUME acc_off[r] # SYNC
        PROVE  HasNextOffset(r)'
    <3>1. ~InWave(r)
      BY <1>2 DEF InWave
    <3>2. /\ From(r - step, r, {"put", "clean", "arrive", "leave"})
          /\ acc_off[r] = Due(r, calls[r - step])
      BY <2>2, <3>1 DEF Wave, HasNextOffset
    <3>3. r - step \in Member \ {r} /\ Op(r - step) = "collect" /\ calls[r - step] = calls[r] + 1
      BY <1>2, <3>2, ActiveSetAssumption, Places DEF From, Awaits
    <3>4. calls'[r - step] = calls'[r] /\ Op(r)' = "collect" /\ pc'[r] = "offset"
          /\ calls'[r - step] = calls[r - step]
      BY <1>2, <1>5, <3>3 DEF Op
    <3>5. From(r - step, r, {"put", "clean", "arrive", "leave"})'
      BY <1>5, <3>2, <3>3, <3>4 DEF From, Awaits
    <3> QED
      BY <1>3, <3>2, <3>4, <3>5 DEF HasNextOffset
  <2>3. acc_off[r] = SYNC => HasNextOffset(r)'
    BY <1>3 DEF HasNextOffset
  <2> QED
    BY <2>1, <2>2, <2>3
<1>8. ASSUME NEW p \in Member, p - step = r
      PROVE  HasOffset(p)' /\ HasNextOffset(p)' /\ LeftHasSent(p)'
  <2>1. p # r
    BY <1>8, ActiveSetAssumption, Places
  <2>2. calls'[p] = calls[p] /\ pc'[p] = pc[p] /\ Op(p)' = Op(p) /\ acc_off'[p] = acc_off[p]
    BY <1>3, <1>5, <2>1
  <2>3. \A n : Due(p, n)' = Due(p, n)
    BY <1>3, DueKept
  <2>4. HasOffset(p)'
    BY <2>2, <2>3 DEF Wave, HasOffset, InWave
  <2>5. acc_off[p] = SYNC \/ InWave(p)
    BY <1>2, <1>8 DEF Wave, HasNextOffset, From
  <2>6. HasNextOffset(p)'
    BY <2>2, <2>5 DEF HasNextOffset, InWave
  <2>7. LeftHasSent(p)'
    <3>1. calls[p] \in Nat
      BY StageTypes
    <3>2. LeftHasSent(p)
      BY DEF Wave
    <3>3. calls[r] >= calls[p] => calls'[p - step] > calls'[p]
      BY <1>2, <1>4, <1>8, <2>2, <3>1
    <3>4. calls[p] > 0 /\ Op(p) = "collect" /\ pc[p] # "offset" /\ p # PE_start => calls[r] >= calls[p]
      BY <1>4, <1>8, <3>1, <3>2 DEF LeftHasSent
    <3> QED
      BY <2>2, <3>3, <3>4 DEF LeftHasSent
  <2> QED
    BY <2>4, <2>6, <2>7
<1> QED
  BY <1>6, <1>7, <1>8 DEF Wave

\* What a step of r within a call does to its own part of the wave ...
LEMMA WaveOwn ==
  ASSUME IInv, NEW r \in Member, LibraryStep(r)
  PROVE  HasOffset(r)' /\ HasNextOffset(r)' /\ LeftHasSent(r)'
<1> USE DEF IInv
<1>1. Frame(r) /\ calls' = calls /\ Op(r)' = Op(r) /\ calls[r] > 0 /\ pc[r] # "outside"
  BY StepTypes, StepPlace
<1>2. nelems' = nelems /\ \A n : Due(r, n)' = Due(r, n)
  BY <1>1, DueKept DEF Frame
<1>3. r # PE_start => r - step \in Member \ {r}
  BY Neighbours, ActiveSetAssumption, Places
<1>4. r # PE_start => /\ calls'[r - step] = calls[r - step] /\ pc'[r - step] = pc[r - step]
                      /\ Op(r - step)' = Op(r - step)
  BY <1>1, <1>3 DEF Frame, Op
<1>5. r - step \in Member => r # PE_start
  BY Neighbours, Places, ActiveSetAssumption
<1>6. HasOffset(r) /\ HasNextOffset(r) /\ LeftHasSent(r)
  BY DEF Wave
<1>7. CASE Offset(r)
  <2>1. pc[r] = "offset" /\ pc'[r] = "notify" /\ Op(r) = "collect"
    BY <1>7 DEF Offset, Goto, TypeOK, PcMatchesOp
  <2>2. InWave(r)' /\ ~InWave(r)
    BY <1>1, <2>1 DEF InWave
  <2>3. CASE r = PE_start
    <3>1. acc_off'[r] = 0
      BY <1>7, <2>3 DEF Offset, TypeOK
    <3>2. Due(r, calls[r]) = 0
      BY <1>1, <2>3, ElemsTypes, DueInOrder
    <3> QED
      BY <1>1, <1>2, <2>2, <2>3, <3>1, <3>2 DEF HasOffset, HasNextOffset, LeftHasSent
  <2>4. CASE r # PE_start
    <3>1. acc_off[r] # SYNC /\ acc_off' = acc_off
      BY <1>7, <2>4 DEF Offset
    <3>2. /\ From(r - step, r, {"put", "clean", "arrive", "leave"})
          /\ acc_off[r] = Due(r, calls[r - step])
      BY <1>6, <2>2, <3>1 DEF HasNextOffset
    <3>3. calls[r] = calls[r - step] /\ pc[r - step] \in {"put", "clean", "arrive", "leave"}
      BY <1>1, <2>1, <3>2, AwaitsOutsideWave DEF From
    <3> QED
      BY <1>1, <1>2, <1>4, <2>2, <2>4, <3>1, <3>2, <3>3 DEF HasOffset, HasNextOffset, LeftHasSent
  <2> QED
    BY <2>3, <2>4
<1>8. CASE CleanUp(r)
  <2>1. pc[r] = "clean" /\ pc'[r] = "arrive" /\ acc_off'[r] = SYNC
    BY <1>8 DEF CleanUp, Goto, TypeOK
  <2>2. HasOffset(r)' /\ HasNextOffset(r)'
    BY <2>1 DEF HasOffset, HasNextOffset, InWave
  <2> QED
    BY <1>1, <1>4, <1>6, <2>1, <2>2 DEF LeftHasSent
<1>9. CASE ~Offset(r) /\ ~CleanUp(r)
  <2>1. acc_off' = acc_off
    BY <1>9 DEF LibraryStep, Notify, PutSlices, Arrive, Leave, Get, Initialize, NextPE,
                Combine, ArriveSecond, LeaveSecond, Finish
  <2>2. "collect" \notin Reductions /\ Then(r) \in {"get", "combine", "outside"}
    BY DEF Then, Reductions
  <2>3. /\ pc[r] # "offset" /\ pc[r] # "clean"
        /\ pc'[r] # "offset"
        /\ Op(r) = "collect" => (pc'[r] \in {"notify", "put", "clean"} <=> pc[r] \in {"notify", "put", "clean"})
    <3>1. \/ pc'[r] = pc[r] /\ pc[r] = "combine"
          \/ pc[r] = "notify" /\ pc'[r] = "put"
          \/ pc[r] = "put" /\ pc'[r] = "clean"
          \/ pc[r] = "put" /\ pc'[r] = "arrive" /\ Op(r) = "fcollect"
          \/ pc[r] = "get" /\ pc'[r] = "outside"
          \/ pc[r] = "initialize" /\ pc'[r] = "arrive"
          \/ pc[r] = "arrive" /\ pc'[r] = "leave"
          \/ pc[r] = "combine" /\ pc'[r] = "finish"
          \/ pc[r] = "leave" /\ pc'[r] = Then(r)
          \/ pc[r] = "finish" /\ pc'[r] = "outside"
      BY <1>9, StepPlace
    <3> QED
      BY <2>2, <3>1
  <2>4. InWave(r)' <=> InWave(r)
    BY <1>1, <2>3 DEF InWave
  <2>5. HasOffset(r)'
    BY <1>1, <1>2, <1>6, <2>1, <2>4 DEF HasOffset
  <2>6. LeftHasSent(r)'
    BY <1>1, <1>4, <1>6, <2>3 DEF LeftHasSent
  <2>7. \A n : Awaits(r, n) => Awaits(r, n)'
    BY <1>1, <2>3 DEF Awaits
  <2>8. \A S : From(r - step, r, S) => From(r - step, r, S)'
    BY <1>1, <1>4, <1>5, <2>7 DEF From
  <2>9. HasNextOffset(r)'
    BY <1>1, <1>2, <1>6, <2>1, <2>4, <2>8 DEF HasNextOffset
  <2> QED
    BY <2>5, <2>6, <2>9
<1> QED
  BY <1>7, <1>8, <1>9

\* ... and to that of its right neighbour.
LEMMA WaveRight ==
  ASSUME IInv, NEW r \in Member, LibraryStep(r), NEW p \in Member, p - step = r
  PROVE  HasOffset(p)' /\ HasNextOffset(p)' /\ LeftHasSent(p)'
<1> USE DEF IInv
<1>1. Frame(r) /\ calls' = calls /\ Op(r)' = Op(r) /\ calls[r] > 0 /\ pc[r] # "outside"
  BY StepTypes, StepPlace
<1>2. nelems' = nelems /\ \A n : Due(p, n)' = Due(p, n)
  BY <1>1, DueKept DEF Frame
<1>3. p # r
  BY ActiveSetAssumption, Places
<1>4. calls'[p] = calls[p] /\ pc'[p] = pc[p] /\ Op(p)' = Op(p) /\ acc_off'[p] = acc_off[p]
  BY <1>1, <1>3 DEF Frame, Op
<1>5. HasOffset(p) /\ HasNextOffset(p) /\ LeftHasSent(p)
  BY DEF Wave
<1>6. InWave(p)' <=> InWave(p)
  BY <1>4 DEF InWave
<1>7. HasOffset(p)'
  BY <1>2, <1>4, <1>5, <1>6 DEF HasOffset
<1>8. Then(r) \in {"get", "combine", "outside"}
  BY DEF Then
<1>9. \/ pc'[r] = pc[r] /\ pc[r] = "combine"
      \/ pc[r] = "offset" /\ pc'[r] = "notify"
      \/ pc[r] = "notify" /\ pc'[r] = "put"
      \/ pc[r] = "put" /\ pc'[r] \in {"clean", "arrive"}
      \/ pc[r] = "clean" /\ pc'[r] = "arrive"
      \/ pc[r] = "get" /\ pc'[r] = "outside"
      \/ pc[r] = "initialize" /\ pc'[r] = "arrive"
      \/ pc[r] = "arrive" /\ pc'[r] = "leave"
      \/ pc[r] = "combine" /\ pc'[r] = "finish"
      \/ pc[r] = "leave" /\ pc'[r] = Then(r) /\ Barrier!Leave(r)
      \/ pc[r] = "finish" /\ pc'[r] = "outside"
  BY StepPlace
<1>10. LeftHasSent(p)'
  BY <1>1, <1>4, <1>5, <1>8, <1>9 DEF LeftHasSent
<1>11. ASSUME acc_off[p] # SYNC, ~InWave(p)
       PROVE  HasNextOffset(p)'
  <2>1. /\ From(r, p, {"put", "clean", "arrive", "leave"})
        /\ acc_off[p] = Due(p, calls[r])
    BY <1>5, <1>11 DEF HasNextOffset
  <2>2. Awaits(p, calls[r]) /\ Awaits(p, calls[r])'
    BY <1>1, <1>4, <2>1 DEF From, Awaits
  <2>3. pc[r] # "leave"
    <3>0. SUFFICES ASSUME pc[r] = "leave" PROVE FALSE
      OBVIOUS
    <3>1. Barrier!Leave(r)
      BY <3>0, <1>9
    <3>2. left[r] < arrived[p]
      BY <3>1 DEF Barrier!Leave
    <3>3. Stage(r) = 1 /\ arrived[r] = left[r] + 1
      BY <3>0 DEF Stage, BeforeBarrier, AfterFirst, Lockstep
    <3>4. left[r] = Base(r)
      BY <3>3, StageTypes
    <3>5. CASE calls[p] = calls[r] /\ pc[p] = "offset"
      <4>1. Stage(p) = 0
        BY <3>5 DEF Stage, BeforeBarrier
      <4>2. Base(p) = Base(r)
        BY <3>5 DEF Lockstep, InStep
      <4> QED
        BY <3>2, <3>4, <4>1, <4>2, StageTypes
    <3>6. CASE calls[p] + 1 = calls[r]
      <4>1. Base(r) = arrived[p]
        BY <3>6, StageTypes DEF Lockstep, InStep
      <4> QED
        BY <3>2, <3>4, <4>1, StageTypes
    <3> QED
      BY <2>2, <3>5, <3>6 DEF Awaits
  <2>4. pc'[r] \in {"put", "clean", "arrive", "leave"}
    BY <1>9, <2>1, <2>3 DEF From
  <2>5. From(r, p, {"put", "clean", "arrive", "leave"})'
    BY <1>1, <2>1, <2>2, <2>4 DEF From
  <2> QED
    BY <1>1, <1>2, <1>4, <2>1, <2>5 DEF HasNextOffset
<1>12. acc_off[p] = SYNC \/ InWave(p) => HasNextOffset(p)'
  BY <1>4, <1>6 DEF HasNextOffset
<1> QED
  BY <1>7, <1>10, <1>11, <1>12

\* Every step keeps the wave of offsets.
LEMMA WaveStep ==
  ASSUME IInv, [Next]_vars
  PROVE  Wave'
<1> USE DEF IInv
<1>1. CASE UNCHANGED vars
  <2>1. nelems' = nelems /\ calls' = calls /\ pc' = pc /\ acc_off' = acc_off /\ ops' = ops
    BY <1>1 DEF vars
  <2>2. \A p : Op(p)' = Op(p)
    BY <2>1 DEF Op
  <2> QED
    BY <2>1, <2>2, WaveKept DEF Wave
<1>2. ASSUME NEW r \in Member, LibraryStep(r)
      PROVE  Wave'
  <2>1. Frame(r)
    BY <1>2, StepTypes
  <2>2. ASSUME NEW p \in Member, p # r, p - step # r
        PROVE  HasOffset(p)' /\ HasNextOffset(p)' /\ LeftHasSent(p)'
    <3>1. p # PE_start => p - step \in Member \ {r}
      BY <2>2, Neighbours
    <3>2. \A q \in Member \ {r} : /\ calls'[q] = calls[q] /\ pc'[q] = pc[q] /\ Op(q)' = Op(q)
                                  /\ acc_off'[q] = acc_off[q]
      BY <2>1 DEF Frame, Op
    <3> QED
      BY <2>1, <2>2, <3>1, <3>2, WaveKept DEF Wave, Frame
  <2> QED
    BY <1>2, <2>2, WaveOwn, WaveRight DEF Wave
<1>3. ASSUME NEW r \in Member, LandFrom(r)
      PROVE  Wave'
  <2>1. PICK m \in flight : m.src = r /\ Land(m)
    BY <1>3 DEF LandFrom
  <2>2. LandFrame
    BY <1>3, LandTypes
  <2>3. nelems' = nelems /\ calls' = calls /\ pc' = pc /\ ops' = ops /\ \A p : Op(p)' = Op(p)
    BY <2>2 DEF LandFrame, Op
  <2>4. CASE m.what # "offset"
    <3>1. acc_off' = acc_off
      BY <2>1, <2>4 DEF Land
    <3> QED
      BY <2>3, <3>1, WaveKept DEF Wave
  <2>5. CASE m.what = "offset"
    <3>1. m.dst \in Member /\ OffsetMsg(m)
      BY <2>5 DEF FlightIsCurrent, SliceMsg
    <3>2. /\ From(r, m.dst, {"put", "clean", "arrive"}) /\ m.val = Due(m.dst, calls[r])
          /\ Awaits(m.dst, calls[r]) /\ calls[r] > 0
      BY <2>1, <3>1 DEF OffsetMsg, From
    <3>3. acc_off'[m.dst] = m.val /\ \A p \in Member \ {m.dst} : acc_off'[p] = acc_off[p]
      BY <2>1, <2>5, <3>1 DEF Land, TypeOK
    <3>4. ~InWave(m.dst) /\ m.dst - step = r
      <4>1. m.dst = r + step
        BY <3>2 DEF From
      <4>2. r \in Nat /\ step \in Nat
        BY Places, ActiveSetAssumption
      <4>3. m.dst - step = r
        BY <4>1, <4>2
      <4>4. ~InWave(m.dst)
        BY <3>1, <3>2, AwaitsOutsideWave
      <4> QED
        BY <4>3, <4>4
    <3>5. HasOffset(m.dst)' /\ LeftHasSent(m.dst)'
      BY <2>3, <3>1, <3>4 DEF HasOffset, InWave, LeftHasSent, Wave
    <3>6. HasNextOffset(m.dst)'
      <4>1. Due(m.dst, calls[r])' = Due(m.dst, calls[r]) /\ calls'[r] = calls[r]
        BY <2>3, DueKept
      <4>2. From(r, m.dst, {"put", "clean", "arrive", "leave"})'
        BY <2>3, <3>2 DEF From, Awaits
      <4>3. acc_off'[m.dst] = Due(m.dst, calls[r])'
        BY <3>2, <3>3, <4>1
      <4> QED
        BY <3>4, <4>1, <4>2, <4>3 DEF HasNextOffset
    <3>7. \A p \in Member \ {m.dst} : HasOffset(p)' /\ HasNextOffset(p)' /\ LeftHasSent(p)'
      BY <2>3, <3>3, WaveKept DEF Wave
    <3> QED
      BY <3>5, <3>6, <3>7 DEF Wave
  <2> QED
    BY <2>4, <2>5
<1> QED
  BY <1>1, <1>2, <1>3, WaveCall DEF Next, Finished

-----------------------------------------------------------------------------
\* What is in flight.

\* Outside the reductions a PE moves as many words as its call passes.
LEMMA WordsArePassed ==
  ASSUME TypeOK, PcMatchesOp, NEW p \in Member, calls[p] > 0, Op(p) \notin Reductions
  PROVE  /\ Word(p) = Size(calls[p]) \div 4 /\ Word(p) \in {1, 2}
         /\ Words(p) = WordsOf(p, calls[p]) /\ Words(p) \in 0 .. 2 * MaxCount
<1>1. Word(p) = Size(calls[p]) \div 4 /\ Word(p) \in {1, 2}
  <2>1. bits[p] = 8 * Size(calls[p])
    BY DEF PcMatchesOp
  <2> QED
    BY <2>1 DEF Word, Size
<1>2. Words(p) = WordsOf(p, calls[p]) /\ Words(p) \in 0 .. 2 * MaxCount
  <2>1. Elems(p) = Passed(p, calls[p]) /\ MaxCount \in Nat /\ Elems(p) \in 0 .. MaxCount
    BY ElemsTypes, ActiveSetAssumption, CollectivesAssumption DEF Elems
  <2> QED
    BY <1>1, <2>1 DEF Words, WordsOf
<1> QED
  BY <1>1, <1>2

\* A PE puts its own slice where it is due.
LEMMA SliceIsOwn ==
  ASSUME TypeOK, PcMatchesOp, SourcesHold, Wave, NEW p \in Member, pc[p] = "put"
  PROVE  Slice(p, Position(p), Words(p)) = SliceOf(p, calls[p])
<1>1. calls[p] > 0 /\ Op(p) \in {"collect", "fcollect"} /\ calls[p] # 0
  BY StageTypes DEF PcMatchesOp
<1>2. /\ calls[p] \in 1 .. MaxCalls /\ nelems[calls[p]] \in [Member -> Nat]
  BY <1>1, ElemsTypes
<1>3. Op(p) \notin Reductions
  BY <1>1 DEF Reductions
<1>4. /\ Word(p) = Size(calls[p]) \div 4
      /\ Words(p) = WordsOf(p, calls[p]) /\ Words(p) \in 0 .. 2 * MaxCount
  BY <1>1, <1>3, WordsArePassed
<1>5. Before(p, calls[p]) = Word(p) * Due(p, calls[p]) /\ Before(p, calls[p]) \in Nat
  BY <1>2, <1>4, SliceBounds
<1>6. Position(p) = Before(p, calls[p])
  <2>1. CASE Op(p) = "collect"
    <3>1. acc_off[p] = Due(p, calls[p])
      BY <2>1 DEF Wave, HasOffset, InWave
    <3> QED
      BY <1>5, <2>1, <3>1 DEF Position
  <2>2. CASE Op(p) = "fcollect"
    <3>1. nelems[calls[p]] \in SameEverywhere
      BY <1>2, <2>2 DEF TypeOK, Op
    <3>2. Due(p, calls[p]) = vpe(p) * Elems(p)
      BY <1>2, <3>1, EqualSlices DEF Elems
    <3> QED
      BY <1>5, <2>2, <3>2 DEF Position
  <2> QED
    BY <1>1, <2>1, <2>2
<1> DEFINE b == Before(p, calls[p])
           w == WordsOf(p, calls[p])
<1>7. \A k \in b .. b + w - 1 : source[p][k - b] = Datum(p, calls[p], k - b)
  <2>1. source[p] = [i \in Area |-> Datum(p, calls[p], i)]
    BY <1>1 DEF SourcesHold
  <2>2. ASSUME NEW k \in b .. b + w - 1
        PROVE  k - b \in Area
    BY <1>4, <1>5, ActiveSetAssumption, CollectivesAssumption DEF Area
  <2> QED
    BY <2>1, <2>2
<1>8. [k \in b .. b + w - 1 |-> source[p][k - b]] = [k \in b .. b + w - 1 |-> Datum(p, calls[p], k - b)]
  BY <1>7
<1> QED
  BY <1>4, <1>6, <1>8 DEF Slice, SliceOf

\* What is in flight from or to others is not touched by a step of r.
LEMMA MessageKept ==
  ASSUME IInv, NEW r \in Member, Call(r) \/ LibraryStep(r), NEW m \in flight, m.src # r
  PROVE  OffsetMsg(m)' \/ SliceMsg(m)'
<1> USE DEF IInv
<1>1. Frame(r) /\ nelems' = nelems
  BY CallTypes, StepTypes DEF Frame
<1>2. m.src \in Member \ {r} /\ m.dst \in Member /\ (OffsetMsg(m) \/ SliceMsg(m))
  BY DEF FlightIsCurrent
<1>3. /\ calls'[m.src] = calls[m.src] /\ pc'[m.src] = pc[m.src] /\ Op(m.src)' = Op(m.src)
  BY <1>1, <1>2 DEF Frame, Op
<1>4. ASSUME SliceMsg(m)
      PROVE  SliceMsg(m)'
  <2>1. SliceOf(m.src, calls[m.src])' = SliceOf(m.src, calls[m.src])
    BY <1>1, <1>3, DueKept DEF SliceOf
  <2> QED
    BY <1>3, <1>4, <2>1 DEF SliceMsg
<1>5. ASSUME OffsetMsg(m)
      PROVE  OffsetMsg(m)'
  <2>1. Due(m.dst, calls[m.src])' = Due(m.dst, calls[m.src])
    BY <1>1, <1>3, DueKept
  <2>2. From(m.src, m.dst, {"put", "clean", "arrive"}) /\ acc_off[m.dst] = SYNC
    BY <1>5 DEF OffsetMsg
  <2>3. CASE m.dst # r
    <3>1. calls'[m.dst] = calls[m.dst] /\ pc'[m.dst] = pc[m.dst] /\ acc_off'[m.dst] = acc_off[m.dst]
      BY <1>1, <1>2, <2>3 DEF Frame
    <3> QED
      BY <1>3, <1>5, <2>1, <2>2, <3>1 DEF OffsetMsg, From, Awaits
  <2>4. CASE m.dst = r /\ Call(r)
    <3>1. /\ calls'[r] = calls[r] + 1 /\ pc[r] = "outside" /\ Op(r)' = ops[calls[r] + 1]
          /\ pc'[r] = "offset" <=> Op(r)' = "collect"
      BY <2>4, CallPlace
    <3>2. calls[r] + 1 = calls[m.src] /\ Op(m.src) = "collect"
      BY <2>2, <2>4, <3>1 DEF From, Awaits
    <3>3. Awaits(r, calls[m.src])'
      BY <1>3, <3>1, <3>2 DEF Awaits, Op
    <3>4. acc_off' = acc_off
      BY <2>4 DEF Call
    <3> QED
      BY <1>3, <1>5, <2>1, <2>2, <2>4, <3>3, <3>4 DEF OffsetMsg, From
  <2>5. CASE m.dst = r /\ LibraryStep(r)
    <3>1. calls' = calls
      BY <2>5, StepPlace
    <3>2. r # PE_start
      <4>1. m.src \in Nat /\ step \in Nat \ {0} /\ PE_start \in Nat /\ PE_start <= m.src
        BY <1>2, ActiveSetAssumption, Places, Neighbours
      <4>2. r = m.src + step
        BY <2>2, <2>5 DEF From
      <4> QED
        BY <4>1, <4>2
    <3>3. ~Offset(r)
      BY <2>2, <2>5, <3>2 DEF Offset
    <3>4. pc[r] # "offset"
      BY <2>5, <3>3, StepPlace
    <3>5. Awaits(r, calls[m.src])'
      BY <2>2, <2>5, <3>1, <3>4 DEF From, Awaits
    <3>6. acc_off'[r] = SYNC
      <4>1. CleanUp(r) => acc_off'[r] = SYNC
        BY DEF CleanUp, TypeOK
      <4>2. ~CleanUp(r) => acc_off' = acc_off
        BY <2>5, <3>3 DEF LibraryStep, Notify, PutSlices, Arrive, Leave, Get, Initialize, NextPE,
                  Combine, ArriveSecond, LeaveSecond, Finish
      <4> QED
        BY <2>2, <2>5, <4>1, <4>2
    <3> QED
      BY <1>3, <1>5, <2>1, <2>2, <2>5, <3>5, <3>6 DEF OffsetMsg, From
  <2> QED
    BY <2>3, <2>4, <2>5
<1> QED
  BY <1>2, <1>4, <1>5

\* r's own puts stay current until they have landed: it arrives only then.
LEMMA OwnMessageKept ==
  ASSUME IInv, NEW r \in Member, Call(r) \/ LibraryStep(r), NEW m \in flight, m.src = r
  PROVE  OffsetMsg(m)' \/ SliceMsg(m)'
<1> USE DEF IInv
<1>1. Frame(r) /\ nelems' = nelems
  BY CallTypes, StepTypes DEF Frame
<1>2. m.dst \in Member /\ (OffsetMsg(m) \/ SliceMsg(m))
  BY DEF FlightIsCurrent
<1>3. pc[r] \in {"put", "clean", "arrive"} /\ ~Arrive(r)
  BY <1>2 DEF OffsetMsg, SliceMsg, From, Arrive
<1>4. LibraryStep(r)
  BY <1>3 DEF Call
<1>5. /\ \/ pc[r] = "put" /\ pc'[r] \in {"clean", "arrive"}
         \/ pc[r] = "clean" /\ pc'[r] = "arrive"
      /\ calls' = calls /\ Op(r)' = Op(r)
  BY <1>3, <1>4, StepPlace
<1>6. ASSUME SliceMsg(m)
      PROVE  SliceMsg(m)'
  <2>1. SliceOf(r, calls[r])' = SliceOf(r, calls[r])
    BY <1>1, <1>5, DueKept DEF SliceOf
  <2> QED
    BY <1>5, <1>6, <2>1 DEF SliceMsg
<1>7. ASSUME OffsetMsg(m)
      PROVE  OffsetMsg(m)'
  <2>1. Due(m.dst, calls[r])' = Due(m.dst, calls[r])
    BY <1>1, <1>5, DueKept
  <2>2. From(r, m.dst, {"put", "clean", "arrive"}) /\ acc_off[m.dst] = SYNC
    BY <1>7 DEF OffsetMsg
  <2>3. m.dst # r
    BY <2>2, ActiveSetAssumption, Places DEF From
  <2>4. pc'[m.dst] = pc[m.dst] /\ acc_off'[m.dst] = acc_off[m.dst]
    BY <1>1, <1>2, <2>3 DEF Frame
  <2> QED
    BY <1>5, <1>7, <2>1, <2>2, <2>4 DEF OffsetMsg, From, Awaits
<1> QED
  BY <1>2, <1>6, <1>7

\* The offset that r sends is the one its neighbour waits for.
LEMMA OffsetIsDue ==
  ASSUME IInv, NEW r \in Member, Notify(r), r < last_pe
  PROVE  OffsetMsg([src |-> r, dst |-> r + step, what |-> "offset", val |-> acc_off[r] + Elems(r)])'
<1> USE DEF IInv
<1> DEFINE q == r + step
<1>1. q \in Member /\ q - step = r /\ q # r /\ q # PE_start
  BY Neighbours, Places, ActiveSetAssumption
<1>2. pc[r] = "notify" /\ pc'[r] = "put" /\ calls' = calls /\ acc_off' = acc_off /\ ops' = ops
      /\ nelems' = nelems /\ \A x \in Member \ {r} : pc'[x] = pc[x]
  BY DEF Notify, Goto, TypeOK, program
<1>3. calls[r] > 0 /\ Op(r) = "collect" /\ calls[r] # 0
  BY <1>2, StageTypes DEF PcMatchesOp
<1>4. Stage(r) = 0
  BY <1>2 DEF Stage, BeforeBarrier
<1>5. calls[q] <= calls[r] /\ (calls[q] < calls[r] => calls[q] + 1 = calls[r])
  BY <1>1, <1>3, <1>4, BehindNobody
<1>6. LeftHasSent(q) /\ HasNextOffset(q) /\ HasOffset(r)
  BY <1>1 DEF Wave
<1>7. Awaits(q, calls[r])
  <2>1. calls[q] \in Nat /\ calls[r] \in Nat
    BY <1>1, StageTypes
  <2>2. calls[q] = calls[r] => pc[q] = "offset"
    BY <1>1, <1>2, <1>3, <1>6, <2>1 DEF LeftHasSent, Op
  <2> QED
    BY <1>5, <2>1, <2>2 DEF Awaits
<1>8. ~InWave(q)
  BY <1>1, <1>3, <1>7, AwaitsOutsideWave
<1>9. acc_off[q] = SYNC
  BY <1>1, <1>2, <1>6, <1>8 DEF HasNextOffset, From
<1>10. acc_off[r] + Elems(r) = Due(q, calls[r])
  <2>1. acc_off[r] = Due(r, calls[r])
    BY <1>2, <1>3, <1>6 DEF HasOffset, InWave
  <2>2. Due(q, calls[r]) = Due(r, calls[r]) + Passed(r, calls[r])
    BY <1>3, ElemsTypes, DueInOrder
  <2> QED
    BY <2>1, <2>2 DEF Elems
<1> DEFINE m == [src |-> r, dst |-> q, what |-> "offset", val |-> acc_off[r] + Elems(r)]
<1>11. m' = m
  BY <1>2 DEF Elems, Passed
<1>12. m.src = r /\ m.dst = q /\ m.what = "offset" /\ m.val = acc_off[r] + Elems(r)
  OBVIOUS
<1>13. Due(q, calls[r])' = Due(q, calls[r])
  BY <1>2, DueKept
<1>14. From(r, q, {"put", "clean", "arrive"})'
  BY <1>1, <1>2, <1>3, <1>7 DEF From, Awaits, Op
<1>15. acc_off'[q] = SYNC
  BY <1>2, <1>9
<1> HIDE DEF q
<1> QED
  BY <1>10, <1>11, <1>12, <1>13, <1>14, <1>15 DEF OffsetMsg, q

\* What is in flight stays the current call's.
LEMMA FlightStep ==
  ASSUME IInv, [Next]_vars
  PROVE  FlightIsCurrent'
<1> USE DEF IInv
<1>1. CASE UNCHANGED vars
  <2>1. /\ nelems' = nelems /\ calls' = calls /\ pc' = pc /\ acc_off' = acc_off /\ ops' = ops
        /\ flight' = flight
    BY <1>1 DEF vars
  <2>2. \A n, p : SliceOf(p, n)' = SliceOf(p, n) /\ Due(p, n)' = Due(p, n)
    BY <2>1, DueKept DEF SliceOf
  <2> QED
    BY <2>1, <2>2 DEF FlightIsCurrent, OffsetMsg, SliceMsg, From, Awaits, Op
<1>2. ASSUME NEW r \in Member, Call(r)
      PROVE  FlightIsCurrent'
  <2>1. flight' = flight
    BY <1>2 DEF Call
  <2> QED
    BY <1>2, <2>1, MessageKept, OwnMessageKept DEF FlightIsCurrent
<1>3. ASSUME NEW r \in Member, LibraryStep(r)
      PROVE  FlightIsCurrent'
  <2>1. ASSUME NEW m \in flight
        PROVE  m.src \in Member /\ m.dst \in Member /\ (OffsetMsg(m)' \/ SliceMsg(m)')
    BY <1>3, MessageKept, OwnMessageKept DEF FlightIsCurrent
  <2>2. CASE Notify(r)
    <3> DEFINE new == [src |-> r, dst |-> r + step, what |-> "offset", val |-> acc_off[r] + Elems(r)]
    <3>1. flight' = flight \cup (IF r < last_pe THEN {new} ELSE {})
      BY <2>2 DEF Notify
    <3>2. r < last_pe => OffsetMsg(new)' /\ new.src \in Member /\ new.dst \in Member /\ new' = new
      <4>1. new' = new
        BY <2>2 DEF Notify, program, Elems, Passed
      <4> QED
        BY <2>2, <4>1, OffsetIsDue, Neighbours
    <3> HIDE DEF new
    <3> QED
      BY <2>1, <3>1, <3>2 DEF FlightIsCurrent
  <2>3. CASE PutSlices(r)
    <3>1. pc[r] = "put" /\ calls' = calls /\ nelems' = nelems /\ ops' = ops /\ pc'[r] \in {"clean", "arrive"}
      BY <2>3 DEF PutSlices, Goto, TypeOK, program
    <3>2. ASSUME NEW m \in flight' \ flight
          PROVE  m.src \in Member /\ m.dst \in Member /\ SliceMsg(m)'
      <4>1. PICK q \in Member : m = [src |-> r, dst |-> q, what |-> "slice", call |-> calls[r],
                                     val |-> SliceOf(r, calls[r])]
        BY <2>3, <3>1, SliceIsOwn DEF PutSlices
      <4>2. m.src = r /\ m.dst = q
        BY <4>1
      <4>3. SliceOf(r, calls[r])' = SliceOf(r, calls[r]) /\ Op(r)' = Op(r)
        BY <3>1, DueKept DEF SliceOf, Op
      <4>4. calls[r] > 0 /\ Op(r) \in {"collect", "fcollect"}
        BY <3>1, StageTypes DEF PcMatchesOp
      <4> QED
        BY <3>1, <4>1, <4>2, <4>3, <4>4 DEF SliceMsg
    <3> QED
      BY <2>1, <3>2 DEF FlightIsCurrent
  <2>4. CASE ~Notify(r) /\ ~PutSlices(r)
    <3>1. flight' = flight
      BY <1>3, <2>4 DEF LibraryStep, Offset, CleanUp, Arrive, Leave, Get, Initialize, NextPE,
                Combine, ArriveSecond, LeaveSecond, Finish
    <3> QED
      BY <2>1, <3>1 DEF FlightIsCurrent
  <2> QED
    BY <2>2, <2>3, <2>4
<1>4. ASSUME NEW r \in Member, LandFrom(r)
      PROVE  FlightIsCurrent'
  <2>1. PICK m \in flight : m.src = r /\ Land(m)
    BY <1>4 DEF LandFrom
  <2>2. nelems' = nelems /\ calls' = calls /\ pc' = pc /\ ops' = ops
    BY <1>4, LandTypes DEF LandFrame
  <2>3. \A n, p : SliceOf(p, n)' = SliceOf(p, n) /\ Due(p, n)' = Due(p, n)
    BY <2>2, DueKept DEF SliceOf
  <2>4. ASSUME NEW x \in flight \ {m}
        PROVE  x.src \in Member /\ x.dst \in Member /\ (OffsetMsg(x)' \/ SliceMsg(x)')
    <3>1. x.src \in Member /\ x.dst \in Member /\ m.dst \in Member /\ m.src \in Member
      BY DEF FlightIsCurrent
    <3>2. SliceMsg(x) => SliceMsg(x)'
      BY <2>2, <2>3 DEF SliceMsg, Op
    <3>3. ASSUME OffsetMsg(x)
          PROVE  acc_off'[x.dst] = SYNC
      <4>1. m.what # "offset" => acc_off' = acc_off
        BY <2>1 DEF Land
      <4>2. ASSUME m.what = "offset"
            PROVE  acc_off'[x.dst] = SYNC
        <5>1. OffsetMsg(m)
          BY <4>2 DEF FlightIsCurrent, SliceMsg
        <5>2. x.dst = m.dst => x.src = m.src
          <6>1. x.dst = x.src + step /\ m.dst = m.src + step
            BY <3>3, <5>1 DEF OffsetMsg, From
          <6>2. x.src \in Nat /\ m.src \in Nat /\ step \in Nat
            BY <3>1, Places, ActiveSetAssumption
          <6> QED
            BY <6>1, <6>2
        <5>3. x.dst = m.dst => x = m
          <6>1. /\ m = [src |-> m.src, dst |-> m.dst, what |-> "offset", val |-> Due(m.dst, calls[m.src])]
                /\ x = [src |-> x.src, dst |-> x.dst, what |-> "offset", val |-> Due(x.dst, calls[x.src])]
            BY <3>3, <5>1 DEF OffsetMsg
          <6> QED
            BY <5>2, <6>1
        <5>4. acc_off' = [acc_off EXCEPT ![m.dst] = m.val]
          BY <2>1, <4>2 DEF Land
        <5> QED
          BY <3>1, <3>3, <5>3, <5>4 DEF TypeOK, OffsetMsg
      <4> QED
        BY <3>3, <4>1, <4>2 DEF OffsetMsg
    <3>4. OffsetMsg(x) => OffsetMsg(x)'
      BY <2>2, <2>3, <3>3 DEF OffsetMsg, From, Awaits, Op
    <3> QED
      BY <3>1, <3>2, <3>4 DEF FlightIsCurrent
  <2>5. flight' = flight \ {m}
    BY <2>1 DEF Land
  <2> QED
    BY <2>4, <2>5 DEF FlightIsCurrent
<1> QED
  BY <1>1, <1>2, <1>3, <1>4 DEF Next, Finished

-----------------------------------------------------------------------------
\* The slices in their places.

\* Only slices that land are written to the target of a gathering call.
LEMMA GatheredKept ==
  ASSUME TypeOK, PcMatchesOp, NEW r \in Member, Call(r) \/ LibraryStep(r),
         NEW p \in Member, NEW n, Gathered(n)
  PROVE  target'[p][n] = target[p][n]
<1>1. Frame(r)
  BY CallTypes, StepTypes
<1>2. n \in 1 .. MaxCalls /\ ops[n] \notin Reductions /\ ops[n] # "broadcast"
  BY DEF Gathered, Reductions
<1>3. CASE p # r
  BY <1>1, <1>3 DEF Frame
<1>4. CASE p = r /\ target' = target
  BY <1>4
<1>5. CASE p = r /\ Get(r)
  <2>1. Op(r) = "broadcast" /\ target' = [target EXCEPT ![r][calls[r]] = Slice(root, 0, Words(r))]
    BY <1>5 DEF Get, PcMatchesOp
  <2>2. n # calls[r]
    BY <1>2, <2>1 DEF Op
  <2> QED
    BY <1>2, <1>5, <2>1, <2>2 DEF TypeOK
<1>6. CASE p = r /\ (Initialize(r) \/ Combine(r))
  <2>1. Op(r) \in Reductions /\ calls[r] > 0
    BY <1>6, InACall DEF Initialize, Combine, PcMatchesOp, LibraryStep
  <2>2. PICK v : Write(r, v)
    BY <1>6 DEF Initialize, Combine
  <2>3. n # calls[r]
    BY <1>2, <2>1 DEF Op
  <2> QED
    BY <1>2, <1>6, <2>1, <2>2, <2>3, WriteTypes
<1>7. target' = target \/ Get(r) \/ Initialize(r) \/ Combine(r)
  BY DEF Call, LibraryStep, Offset, Notify, PutSlices, CleanUp, Arrive, Leave,
         NextPE, ArriveSecond, LeaveSecond, Finish, areas
<1> QED
  BY <1>3, <1>4, <1>5, <1>6, <1>7

\* Who has put its slices after a step had before, or puts them now.
LEMMA PutNow ==
  ASSUME TypeOK, PcMatchesOp, NEW r \in Member, Call(r) \/ LibraryStep(r),
         NEW q \in Member, NEW n, Gathered(n), HasPut(q, n)', ~HasPut(q, n)
  PROVE  q = r /\ n = calls[r] /\ PutSlices(r)
<1>1. Frame(r) /\ n \in Nat /\ calls[r] \in Nat
  BY CallTypes, StepTypes, StageTypes DEF Gathered
<1>2. q = r
  BY <1>1 DEF Frame, HasPut
<1>3. CASE Call(r)
  <2>1. /\ calls'[r] = calls[r] + 1 /\ pc[r] = "outside" /\ Op(r)' = ops[calls[r] + 1]
        /\ pc'[r] = "arrive" <=> Op(r)' = "broadcast"
        /\ pc'[r] \in {"offset", "put", "arrive", "initialize"}
    BY <1>3, CallPlace
  <2>2. calls[r] < n
    BY <1>1, <1>2, <2>1 DEF HasPut
  <2>3. calls'[r] = n /\ pc'[r] = "arrive"
    BY <1>1, <1>2, <2>1, <2>2 DEF HasPut
  <2> QED
    BY <2>1, <2>3 DEF Gathered
<1>4. CASE LibraryStep(r)
  <2>1. calls' = calls /\ calls[r] = n /\ Op(r) \in {"collect", "fcollect"} /\ Op(r) \notin Reductions
    BY <1>1, <1>2, <1>4, StepPlace DEF HasPut, Gathered, Op, Reductions
  <2>2. pc[r] \notin {"get", "initialize", "combine", "finish"}
    BY <2>1 DEF PcMatchesOp
  <2>3. /\ pc'[r] \in {"clean", "arrive", "leave", "outside"}
        /\ pc[r] \notin {"clean", "arrive", "leave", "outside"}
    BY <1>2, <2>1 DEF HasPut
  <2>4. PutSlices(r)
    BY <1>4, <2>2, <2>3, StepPlace
  <2> QED
    BY <1>2, <2>1, <2>4
<1> QED
  BY <1>3, <1>4

\* A slice that lands is written over what is there.
LEMMA SliceLands ==
  ASSUME TypeOK, FlightIsCurrent, NEW m \in flight, Land(m)
  PROVE  /\ m.what # "slice" => target' = target
         /\ m.what = "slice" =>
              /\ m.dst \in Member /\ m.src \in Member /\ m.call = calls[m.src] /\ Gathered(m.call)
              /\ target'[m.dst][m.call] = Over(SliceOf(m.src, m.call), target[m.dst][m.call])
              /\ \A p \in Member, n \in 1 .. MaxCalls :
                   p # m.dst \/ n # m.call => target'[p][n] = target[p][n]
<1>1. m.src \in Member /\ m.dst \in Member /\ (OffsetMsg(m) \/ SliceMsg(m))
  BY DEF FlightIsCurrent
<1>2. m.what # "slice" => target' = target
  BY <1>1 DEF OffsetMsg, SliceMsg, Land
<1>3. ASSUME m.what = "slice"
      PROVE  /\ m.call = calls[m.src] /\ Gathered(m.call)
             /\ target'[m.dst][m.call] = Over(SliceOf(m.src, m.call), target[m.dst][m.call])
             /\ \A p \in Member, n \in 1 .. MaxCalls :
                  p # m.dst \/ n # m.call => target'[p][n] = target[p][n]
  <2>1. SliceMsg(m)
    BY <1>1, <1>3 DEF OffsetMsg
  <2>2. /\ m = [src |-> m.src, dst |-> m.dst, what |-> "slice", call |-> calls[m.src],
                val |-> SliceOf(m.src, calls[m.src])]
        /\ calls[m.src] > 0 /\ Op(m.src) \in {"collect", "fcollect"}
    BY <2>1 DEF SliceMsg
  <2>3. m.call = calls[m.src] /\ m.val = SliceOf(m.src, m.call)
    BY <2>2
  <2>4. calls[m.src] \in 1 .. MaxCalls
    BY <1>1, <2>2, ElemsTypes
  <2>5. target' = [target EXCEPT ![m.dst][m.call] = Over(SliceOf(m.src, m.call), target[m.dst][m.call])]
    BY <1>3, <2>3 DEF Land
  <2>6. DOMAIN target = Member /\ DOMAIN target[m.dst] = 1 .. MaxCalls
    BY <1>1 DEF TypeOK
  <2> HIDE <2>2
  <2>7. target'[m.dst][m.call] = Over(SliceOf(m.src, m.call), target[m.dst][m.call])
    BY <1>1, <2>3, <2>4, <2>5, <2>6
  <2>8. \A p \in Member, n \in 1 .. MaxCalls :
          p # m.dst \/ n # m.call => target'[p][n] = target[p][n]
    BY <1>1, <2>5, <2>6
  <2>9. Gathered(m.call)
    BY <2>2, <2>3, <2>4 DEF Gathered, Op
  <2> QED
    BY <2>3, <2>7, <2>8, <2>9
<1> QED
  BY <1>1, <1>2, <1>3

\* A slice that was put is in flight until it is in its place.
LEMMA SlicesArriveStep ==
  ASSUME IInv, [Next]_vars
  PROVE  SlicesArrive'
<1> USE DEF IInv
<1> DEFINE OnItsWay(p, q, n) ==
             \E m \in flight : m.what = "slice" /\ m.src = q /\ m.dst = p /\ m.call = n
           InPlace(p, q, n) == \A i \in Extent(q, n) : Before(q, n) + i \in DOMAIN target[p][n]
<1>0. SlicesArrive <=> \A p, q \in Member, n \in 1 .. MaxCalls :
                         Gathered(n) /\ HasPut(q, n) => OnItsWay(p, q, n) \/ InPlace(p, q, n)
  BY DEF SlicesArrive
<1>1. CASE UNCHANGED vars
  <2>1. /\ nelems' = nelems /\ calls' = calls /\ pc' = pc /\ target' = target /\ ops' = ops
        /\ flight' = flight
    BY <1>1 DEF vars
  <2> QED
    BY <2>1, DueKept DEF SlicesArrive, HasPut, Gathered
<1>2. ASSUME NEW r \in Member, Call(r) \/ LibraryStep(r)
      PROVE  SlicesArrive'
  <2>1. Frame(r) /\ nelems' = nelems /\ ops' = ops /\ flight \subseteq flight'
    BY <1>2, CallTypes, StepTypes DEF Frame
  <2>2. ASSUME NEW p \in Member, NEW q \in Member, NEW n \in 1 .. MaxCalls,
               Gathered(n)', HasPut(q, n)'
        PROVE  OnItsWay(p, q, n)' \/ InPlace(p, q, n)'
    <3>1. Gathered(n)
      BY <2>1, <2>2 DEF Gathered
    <3>2. target'[p][n] = target[p][n]
      BY <1>2, <3>1, GatheredKept
    <3>3. OnItsWay(p, q, n) => OnItsWay(p, q, n)'
      BY <2>1
    <3>4. InPlace(p, q, n) => InPlace(p, q, n)'
      BY <2>1, <3>2, DueKept
    <3>5. CASE HasPut(q, n)
      BY <3>1, <3>3, <3>4, <3>5, <1>0
    <3>6. CASE ~HasPut(q, n)
      <4>1. q = r /\ n = calls[r] /\ PutSlices(r)
        BY <1>2, <2>2, <3>1, <3>6, PutNow
      <4> DEFINE m == [src |-> r, dst |-> p, what |-> "slice", call |-> calls[r],
                       val |-> Slice(r, Position(r), Words(r))]
      <4>2. m \in flight'
        BY <4>1 DEF PutSlices
      <4>3. m.what = "slice" /\ m.src = q /\ m.dst = p /\ m.call = n
        BY <4>1
      <4> HIDE DEF m
      <4> QED
        BY <4>2, <4>3
    <3> QED
      BY <3>5, <3>6
  <2> QED
    BY <2>2 DEF SlicesArrive
<1>3. ASSUME NEW r \in Member, LandFrom(r)
      PROVE  SlicesArrive'
  <2>1. PICK m \in flight : m.src = r /\ Land(m)
    BY <1>3 DEF LandFrom
  <2>2. nelems' = nelems /\ calls' = calls /\ pc' = pc /\ ops' = ops
    BY <1>3, LandTypes DEF LandFrame
  <2>3. flight' = flight \ {m}
    BY <2>1 DEF Land
  <2>4. ASSUME NEW p \in Member, NEW q \in Member, NEW n \in 1 .. MaxCalls,
               Gathered(n)', HasPut(q, n)'
        PROVE  OnItsWay(p, q, n)' \/ InPlace(p, q, n)'
    <3>1. Gathered(n) /\ HasPut(q, n)
      BY <2>2, <2>4 DEF Gathered, HasPut
    <3>2. Extent(q, n)' = Extent(q, n) /\ Before(q, n)' = Before(q, n)
      BY <2>2, DueKept
    <3>3. CASE InPlace(p, q, n)
      <4>1. DOMAIN target[p][n] \subseteq DOMAIN target'[p][n]
        <5>1. CASE m.what = "slice" /\ p = m.dst /\ n = m.call
          <6>1. target'[p][n] = Over(SliceOf(m.src, n), target[p][n])
            BY <2>1, <5>1, SliceLands
          <6> QED
            BY <6>1 DEF Over
        <5>2. CASE ~(m.what = "slice" /\ p = m.dst /\ n = m.call)
          BY <2>1, <5>2, SliceLands
        <5> QED
          BY <5>1, <5>2
      <4> QED
        BY <3>2, <3>3, <4>1
    <3>4. CASE OnItsWay(p, q, n)
      <4>1. PICK x \in flight : x.what = "slice" /\ x.src = q /\ x.dst = p /\ x.call = n
        BY <3>4
      <4>2. CASE x # m
        BY <2>3, <4>1, <4>2
      <4>3. CASE x = m
        <5>1. target'[p][n] = Over(SliceOf(q, n), target[p][n])
          BY <2>1, <4>1, <4>3, SliceLands
        <5>2. Before(q, n) .. Before(q, n) + WordsOf(q, n) - 1 \subseteq DOMAIN target'[p][n]
          BY <5>1 DEF Over, SliceOf
        <5>3. \A i \in Extent(q, n) : Before(q, n) + i \in Before(q, n) .. Before(q, n) + WordsOf(q, n) - 1
          BY SliceBounds, CountTypes DEF Extent
        <5> QED
          BY <3>2, <5>2, <5>3
      <4> QED
        BY <4>2, <4>3
    <3> QED
      BY <1>0, <3>1, <3>3, <3>4
  <2> QED
    BY <2>4 DEF SlicesArrive
<1> QED
  BY <1>1, <1>2, <1>3 DEF Next, Finished

\* Nothing but the slices is written.
LEMMA OnlySlicesStep ==
  ASSUME IInv, [Next]_vars
  PROVE  OnlySlices'
<1> USE DEF IInv
<1> DEFINE OfSome(x, n, v) == \E q \in Member : \E i \in Extent(q, n) : x = Before(q, n) + i /\ v = Datum(q, n, i)
<1>0. OnlySlices <=> \A p \in Member, n \in 1 .. MaxCalls : Gathered(n) =>
                       \A x \in DOMAIN target[p][n] : OfSome(x, n, target[p][n][x])
  BY DEF OnlySlices
<1>1. CASE UNCHANGED vars
  <2>1. nelems' = nelems /\ target' = target /\ ops' = ops
    BY <1>1 DEF vars
  <2> QED
    BY <2>1, DueKept DEF OnlySlices, Gathered
<1>2. ASSUME NEW r \in Member, Call(r) \/ LibraryStep(r)
      PROVE  OnlySlices'
  <2>1. nelems' = nelems /\ ops' = ops
    BY <1>2, CallTypes, StepTypes DEF Frame
  <2>2. \A p \in Member, n \in 1 .. MaxCalls : Gathered(n) => target'[p][n] = target[p][n]
    BY <1>2, GatheredKept
  <2> QED
    BY <2>1, <2>2, DueKept DEF OnlySlices, Gathered
<1>3. ASSUME NEW r \in Member, LandFrom(r)
      PROVE  OnlySlices'
  <2>1. PICK m \in flight : m.src = r /\ Land(m)
    BY <1>3 DEF LandFrom
  <2>2. nelems' = nelems /\ ops' = ops
    BY <1>3, LandTypes DEF LandFrame
  <2>3. ASSUME NEW p \in Member, NEW n \in 1 .. MaxCalls, Gathered(n)', NEW x \in DOMAIN target'[p][n]
        PROVE  OfSome(x, n, target'[p][n][x])
    <3>1. Gathered(n)
      BY <2>2, <2>3 DEF Gathered
    <3>2. CASE ~(m.what = "slice" /\ p = m.dst /\ n = m.call)
      <4>1. target'[p][n] = target[p][n]
        BY <2>1, <3>2, SliceLands
      <4> QED
        BY <1>0, <2>3, <3>1, <4>1
    <3>3. CASE m.what = "slice" /\ p = m.dst /\ n = m.call
      <4>1. m.src \in Member /\ target'[p][n] = Over(SliceOf(m.src, n), target[p][n])
        BY <2>1, <3>3, SliceLands
      <4> DEFINE b == Before(m.src, n)
                 w == WordsOf(m.src, n)
      <4>2. CASE x \in DOMAIN SliceOf(m.src, n)
        <5>1. b \in Nat /\ w \in Nat
          BY <4>1, CountTypes, SliceBounds
        <5>2. x \in b .. b + w - 1 /\ target'[p][n][x] = Datum(m.src, n, x - b)
          BY <4>1, <4>2 DEF Over, SliceOf
        <5>3. x - b \in 0 .. w - 1 /\ x = b + (x - b)
          BY <5>1, <5>2
        <5> QED
          BY <4>1, <5>2, <5>3 DEF Extent
      <4>3. CASE x \notin DOMAIN SliceOf(m.src, n)
        <5>1. x \in DOMAIN target[p][n] /\ target'[p][n][x] = target[p][n][x]
          BY <2>3, <4>1, <4>3 DEF Over
        <5> QED
          BY <1>0, <3>1, <5>1
      <4> QED
        BY <4>2, <4>3
    <3> QED
      BY <3>2, <3>3
  <2>4. \A x, n, v : OfSome(x, n, v) =>
          \E q \in Member : \E i \in Extent(q, n)' : x = Before(q, n)' + i /\ v = Datum(q, n, i)
    BY <2>2, DueKept
  <2> HIDE DEF OfSome
  <2> QED
    BY <2>3, <2>4 DEF OnlySlices, Gathered
<1> QED
  BY <1>1, <1>2, <1>3 DEF Next, Finished

-----------------------------------------------------------------------------
\* The reductions.

\* One more PE's element is combined.
LEMMA OneMore ==
  ASSUME NEW n, NEW j, NEW S, NEW t, IsOf(t, n, j, S), NEW q, q \notin S
  PROVE  IsOf(t \o Datum(q, n, j), n, j, S \cup {q})
<1> DEFINE item == [pe |-> q, call |-> n, elem |-> j]
           R == ItemsOf(S \cup {q}, n, j)
<1>1. t \in Seq(ItemsOf(S, n, j))
  BY DEF IsOf
<1>2. ItemsOf(S, n, j) \subseteq R /\ item \in R
  BY DEF ItemsOf
<1>3. \A x \in ItemsOf(S, n, j) : x.pe \in S
  BY DEF ItemsOf
<1>4. item.pe = q /\ Datum(q, n, j) = <<item>>
  BY DEF Datum
<1> HIDE DEF item, R
<1> DEFINE u == t \o <<item>>
<1>5. \A k \in DOMAIN t : t[k] \in ItemsOf(S, n, j)
  BY <1>1
<1>6. /\ Len(u) = Len(t) + 1 /\ Len(t) \in Nat /\ DOMAIN t = 1 .. Len(t)
      /\ \A k \in DOMAIN t : u[k] = t[k]
      /\ u[Len(t) + 1] = item /\ DOMAIN u = 1 .. Len(t) + 1
  BY <1>1
<1>7. u \in Seq(R)
  BY <1>1, <1>2
<1> HIDE DEF u
<1>8. DOMAIN u = DOMAIN t \cup {Len(t) + 1} /\ Len(t) + 1 \notin DOMAIN t
  BY <1>6
<1>9. \A x \in S \cup {q} : \E k \in DOMAIN u : u[k].pe = x
  BY <1>4, <1>6, <1>8 DEF IsOf
<1>10. \A k \in DOMAIN t : t[k].pe \in S
  BY <1>3, <1>5
<1>11. \A k, l \in DOMAIN u : u[k].pe = u[l].pe => k = l
  BY <1>4, <1>6, <1>8, <1>10 DEF IsOf
<1> QED
  BY <1>4, <1>7, <1>9, <1>11 DEF IsOf, R, u

\* One PE's element alone.
LEMMA OneItem ==
  ASSUME NEW n, NEW j, NEW q
  PROVE  IsOf(Datum(q, n, j), n, j, {q})
<1> DEFINE item == [pe |-> q, call |-> n, elem |-> j]
<1>1. item \in ItemsOf({q}, n, j) /\ item.pe = q /\ Datum(q, n, j) = <<item>>
  BY DEF ItemsOf, Datum
<1> HIDE DEF item
<1>2. <<item>> \in Seq(ItemsOf({q}, n, j)) /\ DOMAIN <<item>> = {1} /\ <<item>>[1] = item
  BY <1>1
<1> QED
  BY <1>1, <1>2 DEF IsOf

\* What a chunk holds.
LEMMA ChunkBounds ==
  ASSUME NEW i \in Nat, NEW e \in Nat, i < e
  PROVE  \E c \in Nat \ {0} : /\ Cardinality(Chunk(i, e)) = c /\ i + c <= e
                              /\ Chunk(i, e) = i .. i + c - 1
<1> DEFINE w == SHMEM_REDUCE_MIN_WRKDATA_SIZE
           c == IF i + w <= e THEN w ELSE e - i
<1>1. w \in Nat \ {0}
  BY ActiveSetAssumption, CollectivesAssumption
<1>2. c \in Nat \ {0} /\ i + c <= e
  BY <1>1
<1>3. Chunk(i, e) = i .. i + c - 1
  BY <1>1 DEF Chunk
<1> HIDE DEF c
<1>4. Cardinality(i .. i + c - 1) = c
  <2>1. i + c - 1 \in Int /\ (i + c - 1) - i + 1 = c /\ ~(i > i + c - 1)
    BY <1>2
  <2> QED
    BY <2>1, FS_Interval
<1> QED
  BY <1>2, <1>3, <1>4

\* While p combines, all others are in the call and hold their data.
LEMMA OthersHold ==
  ASSUME IInv, NEW p \in Member, pc[p] = "combine", NEW q \in Member
  PROVE  calls[q] = calls[p] /\ source[q] = [i \in Area |-> Datum(q, calls[p], i)]
<1> USE DEF IInv
<1>1. calls[p] > 0 /\ Op(p) \in Reductions /\ Barriers(Op(p)) = 2 /\ calls[p] # 0
  <2>1. calls[p] # 0 /\ Op(p) \in Reductions
    BY DEF PcMatchesOp
  <2> QED
    BY <2>1, StageTypes DEF Barriers
<1>2. Stage(p) = 1
  BY DEF Stage, BeforeBarrier, AfterFirst
<1>3. arrived[p] = left[p] /\ arrived[p] = Base(p) + 1 /\ Base(p) \in Int
  BY <1>2, StageTypes DEF Lockstep
<1>4. calls[q] = calls[p] /\ Base(q) = Base(p)
  <2>1. Base(p) < left[p]
    BY <1>3
  <2>2. /\ calls[q] \in {calls[p], calls[p] + 1}
        /\ calls[q] > calls[p] => Stage(p) = Barriers(Op(p))
        /\ calls[q] = calls[p] => Base(q) = Base(p)
    BY <1>1, <2>1, BehindNobody
  <2> QED
    BY <1>1, <1>2, <2>2, StageTypes
<1>5. pc[q] # "outside"
  <2> SUFFICES ASSUME pc[q] = "outside" PROVE FALSE
    OBVIOUS
  <2>1. Stage(q) = 2
    BY <1>1, <1>4 DEF Stage, BeforeBarrier, AfterFirst, Op
  <2>2. arrived[q] = left[q] /\ left[q] <= arrived[p]
    BY StageTypes DEF Lockstep
  <2> QED
    BY <1>3, <1>4, <2>1, <2>2, StageTypes
<1> QED
  BY <1>1, <1>4, <1>5 DEF SourcesHold

\* A step that leaves a reduction's areas and place alone keeps its progress.
LEMMA ProgressKept ==
  ASSUME nelems' = nelems, NEW p \in Member, calls'[p] = calls[p], Op(p)' = Op(p),
         pe'[p] = pe[p], si'[p] = si[p], source'[p] = source[p], tmptrg'[p] = tmptrg[p],
         target'[p][calls[p]] = target[p][calls[p]]
  PROVE  /\ Progress(p) => Progress(p)'
         /\ pc'[p] = pc[p] /\ Reduces(p) => Reduces(p)'
<1>1. Elems(p)' = Elems(p) /\ Overlap(p)' = Overlap(p)
  BY DEF Elems, Passed, Overlap
<1>2. write_to(p)' = write_to(p) /\ \A j : Done(p, j)' = Done(p, j)
  BY <1>1 DEF write_to, Done
<1>3. \A j : Items(p, j)' = Items(p, j)
  BY <1>1 DEF Items
<1>4. Progress(p) => Progress(p)'
  BY <1>1, <1>2 DEF Progress
<1> QED
  BY <1>1, <1>3, <1>4 DEF Reduces

\* Each starts with its own element.
LEMMA Initialized ==
  ASSUME IInv, NEW p \in Member, Initialize(p)
  PROVE  Reduces(p)'
<1> USE DEF IInv
<1>1. LibraryStep(p)
  BY DEF LibraryStep
<1>2. /\ pc[p] = "initialize" /\ pc'[p] = "arrive" /\ pe'[p] = PE_start /\ si'[p] = 0
      /\ calls' = calls /\ nelems' = nelems /\ Op(p)' = Op(p) /\ calls[p] > 0
      /\ Write(p, Slice(p, 0, Elems(p)))
  BY <1>1, StepPlace DEF Initialize, Goto, TypeOK, program
<1>3. Op(p) \in Reductions
  BY <1>2 DEF PcMatchesOp
<1>4. Elems(p) \in 0 .. MaxCount /\ MaxCount \in Nat
  BY <1>2, ElemsTypes, ActiveSetAssumption, CollectivesAssumption
<1>5. source[p] = [i \in Area |-> Datum(p, calls[p], i)]
  BY <1>2 DEF SourcesHold
<1>6. Elems(p)' = Elems(p)
  BY <1>2 DEF Elems, Passed
<1>7. write_to(p)' = Slice(p, 0, Elems(p))
  BY <1>2, WriteTypes DEF write_to, Overlap
<1>8. /\ DOMAIN Slice(p, 0, Elems(p)) = 0 .. Elems(p) - 1
      /\ \A j \in 0 .. Elems(p) - 1 : Slice(p, 0, Elems(p))[j] = Datum(p, calls[p], j)
  <2>1. \A j \in 0 .. Elems(p) - 1 : j \in Area /\ j - 0 = j
    BY <1>4 DEF Area
  <2>2. 0 + Elems(p) - 1 = Elems(p) - 1
    BY <1>4
  <2> QED
    BY <1>5, <2>1, <2>2 DEF Slice
<1>9. \A j \in 0 .. Elems(p) - 1 : Done(p, j)' = {p}
  <2>1. \A q \in Member : ~(q < PE_start)
    BY Neighbours, Places, ActiveSetAssumption
  <2> QED
    BY <1>2, <2>1 DEF Done
<1>10. \A j \in 0 .. Elems(p) - 1 : IsOf(write_to(p)'[j], calls[p], j, Done(p, j)')
  BY <1>7, <1>8, <1>9, OneItem
<1>11. PE_start \in Member
  BY Places
<1>12. Progress(p)'
  BY <1>2, <1>4, <1>6, <1>7, <1>8, <1>10, <1>11 DEF Progress
<1> QED
  BY <1>2, <1>12 DEF Reduces

\* The next PE's elements are still to be combined.
LEMMA NextStarted ==
  ASSUME IInv, NEW p \in Member, NextPE(p)
  PROVE  Reduces(p)'
<1> USE DEF IInv
<1>1. /\ pc[p] = "combine" /\ pc'[p] = "combine" /\ pe'[p] = pe[p] + step /\ si'[p] = 0
      /\ calls' = calls /\ nelems' = nelems /\ Op(p)' = Op(p)
      /\ source' = source /\ target' = target /\ tmptrg' = tmptrg
      /\ pe[p] = p \/ (pe[p] # End /\ si[p] = Elems(p))
  BY DEF NextPE, TypeOK, program, areas, Op
<1>2. calls[p] > 0 /\ Op(p) \in Reductions
  BY <1>1, StageTypes DEF PcMatchesOp
<1>3. Progress(p)
  BY <1>1, <1>2 DEF Reducing, Reduces
<1>4. pe[p] \in Member
  <2>1. p \in Member
    OBVIOUS
  <2> QED
    BY <1>1, <1>3, <2>1 DEF Progress
<1>5. \A q \in Member : q < pe[p] + step <=> q <= pe[p]
  BY <1>4, Neighbours
<1>6. \A q \in Member : q \in Nat
  BY Places
<1>7. Elems(p)' = Elems(p) /\ Elems(p) \in Nat /\ write_to(p)' = write_to(p)
  BY <1>1, <1>2, ElemsTypes, ActiveSetAssumption DEF Elems, Passed, write_to, Overlap
<1>8. pe[p] # p => si[p] = Elems(p)
  BY <1>1
<1>9. ASSUME NEW j \in 0 .. Elems(p) - 1
      PROVE  Done(p, j)' = Done(p, j)
  <2>1. Done(p, j)' = {q \in Member : q = p \/ q <= pe[p]}
    BY <1>1, <1>5, <1>7 DEF Done
  <2>2. Done(p, j) = {q \in Member : q = p \/ q <= pe[p]}
    <3>1. \A q \in Member : q <= pe[p] <=> q < pe[p] \/ q = pe[p]
      BY <1>4, <1>6
    <3>2. pe[p] = p \/ j < si[p]
      BY <1>7, <1>8
    <3> QED
      BY <3>1, <3>2 DEF Done
  <2> QED
    BY <2>1, <2>2
<1>10. pe[p] + step \in Member \cup {End}
  BY <1>4, Neighbours
<1>11. Progress(p)'
  BY <1>1, <1>3, <1>7, <1>9, <1>10 DEF Progress
<1> QED
  BY <1>1, <1>11 DEF Reduces

\* The elements of a chunk are combined, the others stay as they are.
LEMMA Combined ==
  ASSUME IInv, NEW p \in Member, Combine(p)
  PROVE  Reduces(p)'
<1> USE DEF IInv
<1> DEFINE q == pe[p]
           n == calls[p]
           now == Chunk(si[p], Elems(p))
           v == Over([j \in now |-> write_to(p)[j] \o source[q][j]], write_to(p))
<1> HIDE DEF now, v
<1>1. LibraryStep(p)
  BY DEF LibraryStep
<1>2. /\ pc[p] = "combine" /\ pc'[p] = "combine" /\ pe'[p] = q /\ si'[p] = si[p] + Cardinality(now)
      /\ calls' = calls /\ nelems' = nelems /\ Op(p)' = Op(p) /\ calls[p] > 0
      /\ Write(p, v) /\ q \in Member \ {p} /\ si[p] < Elems(p)
  BY <1>1, StepPlace DEF Combine, TypeOK, program, now, v
<1>3. Op(p) \in Reductions
  BY <1>2 DEF PcMatchesOp
<1>4. Progress(p)
  BY <1>2, <1>3 DEF Reducing, Reduces
<1>5. Elems(p) \in Nat /\ Elems(p) <= MaxCount /\ MaxCount \in Nat /\ si[p] \in Nat
  <2>1. Elems(p) \in 0 .. MaxCount
    BY <1>2, ElemsTypes
  <2> QED
    BY <2>1, ActiveSetAssumption, CollectivesAssumption DEF TypeOK
<1>6. PICK c \in Nat \ {0} : Cardinality(now) = c /\ si[p] + c <= Elems(p) /\ now = si[p] .. si[p] + c - 1
  BY <1>2, <1>5, ChunkBounds DEF now
<1>7. Elems(p)' = Elems(p)
  BY <1>2 DEF Elems, Passed
<1>8. write_to(p)' = v
  <2>1. (~Overlap(p) => target'[p][calls[p]] = v) /\ (Overlap(p) => tmptrg'[p] = v)
    BY <1>2, WriteTypes
  <2>2. Overlap(p)' = Overlap(p)
    BY <1>2 DEF Overlap
  <2> QED
    BY <1>2, <2>1, <2>2 DEF write_to
<1>9. \A j \in 0 .. Elems(p) - 1 : source[q][j] = Datum(q, n, j)
  <2>1. source[q] = [i \in Area |-> Datum(q, n, i)]
    BY <1>2, OthersHold
  <2> QED
    BY <1>5, <2>1 DEF Area
<1>10. now \subseteq 0 .. Elems(p) - 1
  BY DEF Chunk, now
<1>11. /\ DOMAIN v = 0 .. Elems(p) - 1
       /\ \A j \in now : v[j] = write_to(p)[j] \o source[q][j]
       /\ \A j \in (0 .. Elems(p) - 1) \ now : v[j] = write_to(p)[j]
  BY <1>4, <1>10 DEF Over, Progress, v
<1>12. ASSUME NEW j \in 0 .. Elems(p) - 1
       PROVE  IsOf(v[j], n, j, Done(p, j)')
  <2>1. IsOf(write_to(p)[j], n, j, Done(p, j))
    BY <1>4 DEF Progress
  <2>2. Done(p, j)' = {x \in Member : x = p \/ x < q \/ (x = q /\ j < si[p] + c)}
    BY <1>2, <1>6 DEF Done
  <2>3. CASE j \in now
    <3>1. j >= si[p] /\ j < si[p] + c
      BY <1>5, <1>6, <2>3
    <3>2. Done(p, j)' = Done(p, j) \cup {q}
      BY <1>2, <1>5, <2>2, <3>1 DEF Done
    <3>3. q \notin Done(p, j)
      <4>1. q \in Nat
        BY <1>2, Places
      <4> QED
        BY <1>2, <1>5, <3>1, <4>1 DEF Done, TypeOK
    <3>4. v[j] = write_to(p)[j] \o Datum(q, n, j)
      BY <1>9, <1>11, <2>3
    <3>5. IsOf(write_to(p)[j] \o Datum(q, n, j), n, j, Done(p, j) \cup {q})
      BY <2>1, <3>3, OneMore
    <3> QED
      BY <3>2, <3>4, <3>5
  <2>4. CASE j \notin now
    <3>1. j < si[p] <=> j < si[p] + c
      BY <1>5, <1>6, <2>4
    <3>2. Done(p, j)' = Done(p, j)
      BY <2>2, <3>1 DEF Done
    <3> QED
      BY <1>11, <2>1, <2>4, <3>2
  <2> QED
    BY <2>3, <2>4
<1>13. si[p] + c \in Nat
  BY <1>5, <1>6
<1>14. Progress(p)'
  <2>1. DOMAIN write_to(p)' = 0 .. Elems(p)' - 1
    BY <1>7, <1>8, <1>11
  <2>2. \A j \in 0 .. Elems(p)' - 1 : IsOf(write_to(p)'[j], calls'[p], j, Done(p, j)')
    BY <1>2, <1>7, <1>8, <1>12
  <2>3. pe'[p] \in Member \ {p} /\ si'[p] <= Elems(p)'
    BY <1>2, <1>6, <1>7
  <2> QED
    BY <2>1, <2>2, <2>3 DEF Progress
<1> QED
  BY <1>2, <1>14 DEF Reduces

\* What has been combined in the end is every PE's.
LEMMA AllDone ==
  ASSUME NEW p \in Member, Progress(p), pe[p] = End, NEW j \in 0 .. Elems(p) - 1
  PROVE  IsOf(write_to(p)[j], calls[p], j, Member)
<1>1. \A q \in Member : q < End
  BY Neighbours
<1>2. Done(p, j) = Member
  BY <1>1 DEF Done
<1> QED
  BY <1>2 DEF Progress

\* Every step keeps what a reduction has combined so far.
LEMMA ReducingStep ==
  ASSUME IInv, [Next]_vars
  PROVE  Reducing'
<1> USE DEF IInv
<1>1. CASE UNCHANGED vars
  <2>1. /\ nelems' = nelems /\ ops' = ops /\ calls' = calls /\ pc' = pc /\ pe' = pe /\ si' = si
        /\ source' = source /\ target' = target /\ tmptrg' = tmptrg
    BY <1>1 DEF vars
  <2>2. \A p : Op(p)' = Op(p)
    BY <2>1 DEF Op
  <2> QED
    BY <2>1, <2>2, ProgressKept DEF Reducing
<1>2. ASSUME NEW r \in Member, Call(r) \/ LibraryStep(r), NEW p \in Member \ {r}
      PROVE  Reduces(p)'
  <2>1. Frame(r)
    BY <1>2, CallTypes, StepTypes
  <2>2. Op(p)' = Op(p)
    BY <2>1 DEF Frame, Op
  <2> QED
    BY <2>1, <2>2, ProgressKept DEF Frame, Reducing
<1>3. ASSUME NEW r \in Member, Call(r)
      PROVE  Reducing'
  <2>1. /\ pc'[r] = "initialize" <=> Op(r)' \in Reductions
        /\ pc'[r] \in {"offset", "put", "arrive", "initialize"}
    BY <1>3, CallPlace
  <2>2. Reduces(r)'
    BY <2>1 DEF Reduces
  <2> QED
    BY <1>2, <1>3, <2>2 DEF Reducing
<1>4. ASSUME NEW r \in Member, LibraryStep(r)
      PROVE  Reducing'
  <2>1. /\ nelems' = nelems /\ calls' = calls /\ Op(r)' = Op(r) /\ calls[r] > 0
    BY <1>4, StepTypes, StepPlace DEF Frame
  <2>2. ASSUME Op(r) \notin Reductions
        PROVE  Reduces(r)'
    BY <2>1, <2>2 DEF Reduces
  <2>3. ASSUME Op(r) \in Reductions, Arrive(r) \/ Leave(r) \/ ArriveSecond(r)
        PROVE  Reduces(r)'
    <3>1. /\ pe' = pe /\ si' = si /\ source' = source /\ target' = target /\ tmptrg' = tmptrg
          /\ pc[r] \in {"arrive", "leave", "combine"}
      BY <2>3 DEF Arrive, Leave, ArriveSecond, loops, areas
    <3>2. Progress(r)'
      BY <2>1, <2>3, <3>1, ProgressKept DEF Reducing, Reduces
    <3>3. \/ pc[r] = "arrive" /\ pc'[r] = "leave"
          \/ pc'[r] = "combine"
          \/ pc'[r] = "finish" /\ pe[r] = End
      <4>1. Leave(r) => pc'[r] = "combine"
        <5>1. Then(r) = "combine"
          BY <2>1, <2>3, ThenPlace DEF Reductions
        <5> QED
          BY <5>1 DEF Leave, Goto, TypeOK
      <4>2. Arrive(r) => pc[r] = "arrive" /\ pc'[r] = "leave"
        BY DEF Arrive, Goto, TypeOK
      <4>3. ArriveSecond(r) => pc'[r] = "finish" /\ pe[r] = End
        BY DEF ArriveSecond, Goto, TypeOK
      <4> QED
        BY <2>3, <4>1, <4>2, <4>3
    <3>4. pc[r] = "arrive" => pe[r] = PE_start /\ si[r] = 0
      BY <2>1, <2>3 DEF Reducing, Reduces
    <3> QED
      BY <3>1, <3>2, <3>3, <3>4 DEF Reduces
  <2>4. ASSUME Op(r) \in Reductions, LeaveSecond(r)
        PROVE  Reduces(r)'
    <3>1. /\ pc[r] = "finish" /\ pc'[r] = "outside" /\ target' = target /\ tmptrg' = tmptrg
          /\ source' = IF Overlap(r) THEN [source EXCEPT ![r] = Over(tmptrg[r], @)] ELSE source
      BY <2>4 DEF LeaveSecond, Finish, Goto, TypeOK
    <3>2. Progress(r) /\ pe[r] = End
      BY <2>1, <2>4, <3>1 DEF Reducing, Reduces
    <3>3. Elems(r)' = Elems(r) /\ Overlap(r)' = Overlap(r)
      BY <2>1 DEF Elems, Passed, Overlap
    <3>4. ASSUME NEW j \in 0 .. Elems(r) - 1
          PROVE  Items(r, j)' = write_to(r)[j]
      <4>1. CASE Overlap(r)
        <5>1. j \in DOMAIN tmptrg[r]
          BY <3>2, <4>1 DEF Progress, write_to
        <5>2. source'[r] = Over(tmptrg[r], source[r])
          BY <3>1, <4>1 DEF TypeOK
        <5> QED
          BY <3>3, <4>1, <5>1, <5>2 DEF Items, write_to, Over
      <4>2. CASE ~Overlap(r)
        BY <2>1, <3>1, <3>3, <4>2 DEF Items, write_to
      <4> QED
        BY <4>1, <4>2
    <3>5. \A j \in 0 .. Elems(r) - 1 : IsOf(Items(r, j)', calls[r], j, Member)
      BY <3>2, <3>4, AllDone
    <3> QED
      BY <2>1, <3>1, <3>3, <3>5 DEF Reduces
  <2>5. \/ Initialize(r) \/ NextPE(r) \/ Combine(r) \/ Op(r) \notin Reductions
        \/ Arrive(r) \/ Leave(r) \/ ArriveSecond(r) \/ LeaveSecond(r)
    <3>1. Offset(r) \/ Notify(r) \/ PutSlices(r) \/ CleanUp(r) \/ Get(r) => Op(r) \notin Reductions
      BY DEF Offset, Notify, PutSlices, CleanUp, Get, PcMatchesOp, Reductions
    <3> QED
      BY <1>4, <3>1 DEF LibraryStep
  <2>6. Reduces(r)'
    BY <2>2, <2>3, <2>4, <2>5, Initialized, NextStarted, Combined
  <2> QED
    BY <1>2, <1>4, <2>6 DEF Reducing
<1>5. ASSUME NEW r \in Member, LandFrom(r)
      PROVE  Reducing'
  <2>1. PICK m \in flight : m.src = r /\ Land(m)
    BY <1>5 DEF LandFrom
  <2>2. LandFrame
    BY <1>5, LandTypes
  <2>3. ASSUME NEW p \in Member
        PROVE  Reduces(p)'
    <3>1. Op(p)' = Op(p)
      BY <2>2 DEF LandFrame, Op
    <3>2. CASE calls[p] > 0 /\ Op(p) \in Reductions
      <4>1. calls[p] \in 1 .. MaxCalls /\ ~Gathered(calls[p])
        BY <3>2, ElemsTypes DEF Gathered, Op, Reductions
      <4>2. target'[p][calls[p]] = target[p][calls[p]]
        BY <2>1, <4>1, SliceLands
      <4> QED
        BY <2>2, <3>1, <4>2, ProgressKept DEF LandFrame, Reducing
    <3>3. CASE ~(calls[p] > 0 /\ Op(p) \in Reductions)
      BY <2>2, <3>1, <3>3 DEF LandFrame, Reduces
    <3> QED
      BY <3>2, <3>3
  <2> QED
    BY <2>3 DEF Reducing
<1> QED
  BY <1>1, <1>3, <1>4, <1>5 DEF Next, Finished

-----------------------------------------------------------------------------
\* The inductive invariant holds.

\* The invariant holds before the first call ...
LEMMA InitIInv == Init => IInv
<1> SUFFICES ASSUME Init PROVE IInv
  OBVIOUS
<1>1. TypeOK
  BY TypeInit
<1>2. \A p \in Member : calls[p] = 0 /\ pc[p] = "outside" /\ acc_off[p] = SYNC
  BY DEF Init
<1>3. flight = {} /\ \A p \in Member : \A n \in 1 .. MaxCalls : target[p][n] = Nothing
  BY DEF Init
<1>4. \A p \in Member : arrived[p] = 0 /\ left[p] = 0
  BY DEF Init, Barrier!Init
<1>5. PcMatchesOp
  BY <1>2 DEF PcMatchesOp
<1>6. Separation
  BY <1>2 DEF Separation
<1>7. SourcesHold
  <2>1. \A p \in Member : ~(calls[p] > 0)
    BY <1>2
  <2> QED
    BY <2>1 DEF SourcesHold
<1>8. Reducing
  BY <1>2 DEF Reducing, Reduces
<1>9. Lockstep
  <2>1. \A p \in Member : Base(p) = 0
    BY <1>2, <1>4 DEF Base, Stage, BeforeBarrier, AfterFirst
  <2> QED
    BY <1>2, <1>4, <2>1 DEF Lockstep, InStep
<1>10. Wave
  BY <1>2 DEF Wave, HasOffset, HasNextOffset, LeftHasSent, InWave
<1>11. FlightIsCurrent
  BY <1>3 DEF FlightIsCurrent
<1>12. SlicesArrive
  BY <1>2 DEF SlicesArrive, HasPut
<1>13. OnlySlices
  BY <1>3 DEF OnlySlices, Nothing
<1> QED
  BY <1>1, <1>5, <1>9, <1>10, <1>11, <1>12, <1>13, <1>6, <1>8, <1>7 DEF IInv

\* ... and every step keeps it.
LEMMA StepIInv ==
  ASSUME IInv, [Next]_vars
  PROVE  IInv'
<1>1. TypeOK'
  <2>1. CASE UNCHANGED vars
    BY <2>1 DEF IInv, vars, TypeOK
  <2> QED
    BY <2>1, CallTypes, StepTypes, LandTypes DEF IInv, Next, Finished
<1> QED
  BY <1>1, PcStep, LockstepStep, SeparationStep, SourcesStep, WaveStep, FlightStep,
     SlicesArriveStep, OnlySlicesStep, ReducingStep DEF IInv

\* Whatever collectives the PEs call in whatever order, they stay in step as
\* shmem_barrier keeps them, the wave of collect's offsets passes through the PEs
\* of one call only, and what is in flight, in the targets and in the parts of a
\* reduction is what the call it belongs to has put there.
THEOREM CollectivesInvariant == Spec => []IInv
<1>1. IInv /\ [Next]_vars => IInv'
  BY StepIInv
<1> QED
  BY <1>1, InitIInv, PTL DEF Spec

-----------------------------------------------------------------------------
\* collect and fcollect

\* When p returns, all have put their slices and none is in flight any more.
LEMMA GatheredInPlace ==
  ASSUME IInv, NEW p \in Member, Returned(p), Op(p) \in {"collect", "fcollect"}
  PROVE  LET n == calls[p]
         IN  /\ DOMAIN target[p][n] = 0 .. Before(last_pe, n) + WordsOf(last_pe, n) - 1
             /\ \A q \in Member : \A i \in 0 .. WordsOf(q, n) - 1 :
                  target[p][n][Before(q, n) + i] = Datum(q, n, i)
<1> USE DEF IInv
<1> DEFINE n == calls[p]
<1>1. /\ calls[p] > 0 /\ pc[p] = "outside" /\ n \in 1 .. MaxCalls /\ Gathered(n) /\ n # 0
      /\ nelems[n] \in [Member -> Nat]
  BY ElemsTypes DEF Returned, Gathered, Op
<1>2. Stage(p) = 1 /\ Op(p) \notin Reductions
  BY <1>1 DEF Stage, BeforeBarrier, AfterFirst, Barriers, Reductions
<1>3. Base(p) < left[p] /\ left[p] - Base(p) = 1
  BY <1>1, <1>2, StageTypes DEF Lockstep
<1>4. ASSUME NEW q \in Member
      PROVE  HasPut(q, n) /\ ~(calls[q] = n /\ pc[q] \in {"clean", "arrive"})
  <2>1. calls[q] \in {n, n + 1} /\ (calls[q] = n => 1 <= Stage(q)) /\ n \in Nat
    BY <1>1, <1>3, BehindNobody, StageTypes
  <2>2. CASE calls[q] = n + 1
    BY <2>1, <2>2 DEF HasPut
  <2>3. CASE calls[q] = n
    <3>1. pc[q] \notin BeforeBarrier
      BY <2>1, <2>3 DEF Stage
    <3>2. Op(q) = Op(p) /\ Op(q) # "broadcast"
      BY <2>3 DEF Op
    <3>3. pc[q] \notin {"get", "combine", "finish"}
      BY <1>2, <3>2 DEF PcMatchesOp
    <3>4. pc[q] \in {"leave", "outside"}
      BY <3>1, <3>3 DEF TypeOK, AfterFirst
    <3> QED
      BY <2>3, <3>4 DEF HasPut
  <2> QED
    BY <2>1, <2>2, <2>3
<1>5. ~\E m \in flight : m.what = "slice" /\ m.dst = p /\ m.call = n
  <2> SUFFICES ASSUME NEW m \in flight, m.what = "slice", m.call = n PROVE FALSE
    OBVIOUS
  <2>1. m.src \in Member /\ SliceMsg(m)
    BY DEF FlightIsCurrent, OffsetMsg
  <2>2. m.call = calls[m.src] /\ pc[m.src] \in {"clean", "arrive"}
    BY <2>1 DEF SliceMsg
  <2> QED
    BY <1>4, <2>1, <2>2
<1>6. \A q \in Member : \A i \in Extent(q, n) : Before(q, n) + i \in DOMAIN target[p][n]
  BY <1>1, <1>4, <1>5 DEF SlicesArrive
<1>7. \A x \in DOMAIN target[p][n] : \E q \in Member : \E i \in Extent(q, n) :
        x = Before(q, n) + i /\ target[p][n][x] = Datum(q, n, i)
  BY <1>1 DEF OnlySlices
<1>8. /\ \A x \in 0 .. Before(last_pe, n) + WordsOf(last_pe, n) - 1 :
           \E q \in Member : \E i \in Extent(q, n) : x = Before(q, n) + i
      /\ \A q \in Member : \A i \in Extent(q, n) : Before(q, n) + i \in
           0 .. Before(last_pe, n) + WordsOf(last_pe, n) - 1
      /\ \A r, q \in Member : \A i \in Extent(r, n), j \in Extent(q, n) :
           Before(r, n) + i = Before(q, n) + j => r = q /\ i = j
  BY <1>1, SlicesFill
<1> HIDE DEF n
<1>9. DOMAIN target[p][n] \subseteq 0 .. Before(last_pe, n) + WordsOf(last_pe, n) - 1
  BY <1>7, <1>8
<1>10. 0 .. Before(last_pe, n) + WordsOf(last_pe, n) - 1 \subseteq DOMAIN target[p][n]
  BY <1>6, <1>8
<1>11. ASSUME NEW q \in Member, NEW i \in Extent(q, n)
       PROVE  target[p][n][Before(q, n) + i] = Datum(q, n, i)
  BY <1>6, <1>7, <1>8, <1>11
<1> QED
  BY <1>9, <1>10, <1>11 DEF Extent, n

\* Whoever returns from collect or fcollect has the slices of all PEs whole, in
\* order and without gaps: for every number of PEs, every number of elements each
\* passes and every order in which the puts land.
THEOREM SlicesArriveInPlace == Spec => []SlicesInPlace
<1>1. IInv => SlicesInPlace
  BY GatheredInPlace DEF SlicesInPlace
<1> QED
  BY <1>1, CollectivesInvariant, PTL

-----------------------------------------------------------------------------
\* The reductions

\* What is combined of each PE once is combined in some order of the PEs.
LEMMA OnceEach ==
  ASSUME NEW n, NEW j, NEW t, IsOf(t, n, j, Member)
  PROVE  /\ [k \in DOMAIN t |-> t[k].pe] \in Orders
         /\ \A k \in DOMAIN t : t[k] = Datum(t[k].pe, n, j)[1]
<1> DEFINE s == [k \in DOMAIN t |-> t[k].pe]
<1>1. t \in Seq(ItemsOf(Member, n, j))
  BY DEF IsOf
<1>2. DOMAIN t = 1 .. Len(t) /\ Len(t) \in Nat /\ \A k \in DOMAIN t : t[k] \in ItemsOf(Member, n, j)
  BY <1>1
<1>3. \A x \in ItemsOf(Member, n, j) : x.pe \in Member /\ x = Datum(x.pe, n, j)[1]
  BY DEF ItemsOf, Datum
<1>4. s \in [1 .. Len(t) -> Member] /\ IsInjective(s)
  BY <1>2, <1>3 DEF IsOf, IsInjective
<1>5. \A q \in Member : \E k \in 1 .. Len(t) : s[k] = q
  BY <1>2 DEF IsOf
<1>6. ExistsBijection(1 .. Len(t), Member)
  <2>1. s \in Bijection(1 .. Len(t), Member)
    BY <1>4, <1>5 DEF Bijection, Injection, Surjection
  <2> QED
    BY <2>1 DEF ExistsBijection
<1>7. IsFiniteSet(1 .. Len(t)) /\ Cardinality(1 .. Len(t)) = Len(t)
  <2>1. 1 \in Int /\ Len(t) \in Int /\ (IF 1 > Len(t) THEN 0 ELSE Len(t) - 1 + 1) = Len(t)
    BY <1>2
  <2> QED
    BY <2>1, FS_Interval
<1>8. Len(t) = PE_size
  BY <1>6, <1>7, FS_Bijection, Places
<1> QED
  BY <1>2, <1>3, <1>4, <1>8 DEF Orders

\* Whoever returns from a reduction has combined every element of every PE of the
\* active set once: for every size of the work array, also when the target is the
\* source and others have begun the next call.
THEOREM ReductionsCombineOnce == Spec => []AllCombinedOnce
<1>1. ASSUME IInv, NEW p \in Member, Returned(p), Op(p) \in Reductions, NEW i \in 0 .. Elems(p) - 1
      PROVE  /\ Order(p, i) \in Orders
             /\ \A k \in DOMAIN Items(p, i) : Items(p, i)[k] = Datum(Order(p, i)[k], calls[p], i)[1]
  <2>1. IsOf(Items(p, i), calls[p], i, Member)
    BY <1>1 DEF IInv, Reducing, Reduces, Returned
  <2> QED
    BY <2>1, OnceEach DEF Order
<1>2. IInv => AllCombinedOnce
  BY <1>1 DEF AllCombinedOnce
<1> QED
  BY <1>2, CollectivesInvariant, PTL

-----------------------------------------------------------------------------
\* The linear broadcast

\* While p gets, the root is in the same call, if the program synchronises after
\* broadcasts.
LEMMA RootWaits ==
  ASSUME IInv, "broadcast" \in Separated, NEW p \in Member, pc[p] = "get"
  PROVE  calls[root] = calls[p] /\ source[root] = [i \in Area |-> Datum(root, calls[p], i)]
<1> USE DEF IInv
<1>1. root \in Member
  BY Places
<1>2. Op(p) = "broadcast" /\ calls[p] > 0 /\ Op(p) \notin Reductions
  <2>1. Op(p) = "broadcast" /\ calls[p] # 0
    BY DEF PcMatchesOp
  <2> QED
    BY <2>1, StageTypes DEF Reductions
<1>3. Stage(p) = 1
  BY DEF Stage, BeforeBarrier, AfterFirst
<1>4. Base(p) < left[p]
  BY <1>3, StageTypes DEF Lockstep
<1>5. calls[root] \in {calls[p], calls[p] + 1}
  BY <1>1, <1>2, <1>4, BehindNobody
<1>6. ~(calls[root] > calls[p])
  BY <1>1, <1>2 DEF Separation
<1>7. calls[root] = calls[p]
  BY <1>5, <1>6, StageTypes
<1> QED
  BY <1>1, <1>2, <1>7 DEF SourcesHold, Op

\* What has been got stays, and what is got now is the root's of this call.
LEMMA RootsDataStep ==
  ASSUME IInv, "broadcast" \in Separated, RootsData, [Next]_vars
  PROVE  RootsData'
<1> USE DEF IInv
<1> DEFINE HasData(p) == Returned(p) /\ Op(p) = "broadcast" =>
             target[p][calls[p]] =
               [i \in 0 .. WordsOf(p, calls[p]) - 1 |-> Datum(root, calls[p], i)]
<1>1. ASSUME NEW p \in Member \ {root}, nelems' = nelems, calls'[p] = calls[p], pc'[p] = pc[p],
             Op(p)' = Op(p), Returned(p) /\ Op(p) = "broadcast" =>
                               target'[p][calls[p]] = target[p][calls[p]]
      PROVE  HasData(p)'
  <2>1. HasData(p)
    BY DEF RootsData
  <2>2. WordsOf(p, calls[p])' = WordsOf(p, calls[p])
    BY <1>1 DEF WordsOf, Passed
  <2> QED
    BY <1>1, <2>1, <2>2 DEF Returned
<1>2. CASE UNCHANGED vars
  <2>1. nelems' = nelems /\ calls' = calls /\ pc' = pc /\ ops' = ops /\ target' = target
    BY <1>2 DEF vars
  <2>2. \A p : Op(p)' = Op(p)
    BY <2>1 DEF Op
  <2> QED
    BY <1>1, <2>1, <2>2 DEF RootsData
<1>3. ASSUME NEW r \in Member, Call(r) \/ LibraryStep(r), NEW p \in Member \ {root}, p # r
      PROVE  HasData(p)'
  <2>1. Frame(r)
    BY <1>3, CallTypes, StepTypes
  <2>2. Op(p)' = Op(p)
    BY <1>3, <2>1 DEF Frame, Op
  <2> QED
    BY <1>1, <1>3, <2>1, <2>2 DEF Frame
<1>4. ASSUME NEW r \in Member \ {root}, Call(r)
      PROVE  HasData(r)'
  BY <1>4, CallPlace DEF Returned, BeforeBarrier
<1>5. ASSUME NEW r \in Member \ {root}, LibraryStep(r)
      PROVE  HasData(r)'
  <2>1. calls' = calls /\ Op(r)' = Op(r) /\ calls[r] > 0 /\ nelems' = nelems
    BY <1>5, StepPlace, StepTypes DEF Frame
  <2>2. CASE Get(r)
    <3>1. pc[r] = "get" /\ Op(r) = "broadcast" /\ Op(r) \notin Reductions
      BY <2>2 DEF Get, PcMatchesOp, Reductions
    <3>2. source[root] = [i \in Area |-> Datum(root, calls[r], i)]
      BY <3>1, RootWaits
    <3>3. Words(r) = WordsOf(r, calls[r]) /\ Words(r) \in 0 .. 2 * MaxCount
      BY <2>1, <3>1, WordsArePassed
    <3>4. /\ \A i \in 0 .. WordsOf(r, calls[r]) - 1 : i \in Area /\ i - 0 = i
          /\ 0 + Words(r) - 1 = WordsOf(r, calls[r]) - 1
      BY <3>3, ActiveSetAssumption, CollectivesAssumption DEF Area
    <3>5. Slice(root, 0, Words(r)) =
            [i \in 0 .. WordsOf(r, calls[r]) - 1 |-> Datum(root, calls[r], i)]
      BY <3>2, <3>4 DEF Slice
    <3>6. target'[r][calls[r]] = Slice(root, 0, Words(r))
      BY <2>1, <2>2, ElemsTypes DEF Get, TypeOK
    <3> QED
      BY <2>1, <3>5, <3>6, DueKept
  <2>3. CASE ~Get(r)
    <3>1. Op(r) = "broadcast" => pc'[r] # "outside"
      <4>1. Op(r) = "broadcast" => Then(r) = "get"
        BY <2>1, ThenPlace DEF Reductions
      <4>2. Op(r) = "broadcast" => pc[r] # "finish"
        BY DEF PcMatchesOp, Reductions
      <4> QED
        BY <1>5, <2>3, <4>1, <4>2, StepPlace
    <3> QED
      BY <2>1, <3>1 DEF Returned
  <2> QED
    BY <2>2, <2>3
<1>6. ASSUME NEW r \in Member, LandFrom(r), NEW p \in Member \ {root}
      PROVE  HasData(p)'
  <2>1. PICK m \in flight : m.src = r /\ Land(m)
    BY <1>6 DEF LandFrom
  <2>2. LandFrame
    BY <1>6, LandTypes
  <2>3. Returned(p) /\ Op(p) = "broadcast" => target'[p][calls[p]] = target[p][calls[p]]
    <3> SUFFICES ASSUME Returned(p), Op(p) = "broadcast"
                 PROVE  target'[p][calls[p]] = target[p][calls[p]]
      OBVIOUS
    <3>1. calls[p] \in 1 .. MaxCalls /\ ~Gathered(calls[p])
      BY ElemsTypes DEF Returned, Gathered, Op
    <3> QED
      BY <2>1, <3>1, SliceLands
  <2>4. Op(p)' = Op(p)
    BY <2>2 DEF LandFrame, Op
  <2> QED
    BY <1>1, <2>2, <2>3, <2>4 DEF LandFrame
<1>7. CASE UNCHANGED vars \/ \A p \in Member \ {root} : HasData(p)'
  BY <1>2, <1>7 DEF RootsData
<1>8. \/ UNCHANGED vars
      \/ \E r \in Member : Call(r) \/ LibraryStep(r) \/ LandFrom(r)
  BY DEF Next, Finished
<1> HIDE DEF HasData
<1> QED
  BY <1>3, <1>4, <1>5, <1>6, <1>7, <1>8

\* Whoever returns from a linear broadcast has all of the root's data of this call,
\* if the program synchronises after broadcasts, as it must before the root's source
\* changes: the others get it after the barrier.
THEOREM RootsDataReaches ==
  ASSUME "broadcast" \in Separated
  PROVE  Spec => []RootsData
<1>1. Init => RootsData
  BY DEF Init, RootsData, Returned
<1>2. IInv /\ RootsData /\ [Next]_vars => RootsData'
  BY RootsDataStep
<1> QED
  BY <1>1, <1>2, CollectivesInvariant, PTL DEF Spec

-----------------------------------------------------------------------------
(* The tree broadcast. Its program passes any roots and synchronises       *)
(* before it passes another than the last. The argument: parents and       *)
(* children agree about the tree; a PE has the data of a call only if its  *)
(* parent has put it there, and counts itself only when its children have  *)
(* (Ordered); and the calls that some PE has not returned from have the    *)
(* same tree (Uniform), so that a flag that says a child is waiting is of  *)
(* the parent's call.                                                      *)

Index == 0 .. PE_size - 1

-----------------------------------------------------------------------------
(* The tree.                                                               *)

\* Places in the tree, from 0 at its root: who is in place i when PE_root = r.
PeAt(i) == PE_start + i * step
InPlace(r, i) == IF i = 0 THEN PeAt(r) ELSE IF i = r THEN PeAt(0) ELSE PeAt(i)
OrNone(r, i) == IF i \in Index THEN InPlace(r, i) ELSE NoPE
NodeAt(r, i) ==
  Node(IF i = 0 THEN NoPE ELSE InPlace(r, (i - 1) \div 2),
         OrNone(r, 2 * i + 1), OrNone(r, 2 * i + 2))

\* Multiples of the stride are in the order of what they are multiples of.
LEMMA Multiples ==
  ASSUME NEW i \in Int, NEW j \in Int
  PROVE  /\ i * step \in Int
         /\ i * step = j * step <=> i = j
         /\ i * step <= j * step <=> i <= j
         /\ (i + 1) * step = i * step + step
<1>. DEFINE s == step
<1>1. s \in Nat \ {0}  BY ActiveSetAssumption
<1>. HIDE DEF s
<1>2. i * s \in Int /\ j * s \in Int  BY <1>1
<1>3. ASSUME NEW a \in Int, NEW b \in Int, a < b PROVE a * s < b * s
  <2>1. PICK d \in Nat \ {0} : b = a + d  BY <1>3
  <2>2. d * s > 0  BY <1>1
  <2>3. b * s = a * s + d * s  BY <1>1, <2>1
  <2>. QED  BY <1>1, <2>2, <2>3
<1>4. i < j => i * s < j * s  BY <1>3
<1>5. j < i => j * s < i * s  BY <1>3
<1>6. (i + 1) * s = i * s + s  BY <1>1
<1>. QED  BY <1>1, <1>2, <1>4, <1>5, <1>6 DEF s

\* Places in the order of the set belong to PEs in the order of their numbers.
LEMMA PeAtIs ==
  ASSUME NEW i \in Int, NEW j \in Int
  PROVE  /\ PeAt(i) \in Int
         /\ PeAt(i) = PeAt(j) <=> i = j
         /\ PeAt(i) <= PeAt(j) <=> i <= j
BY Multiples, ActiveSetAssumption DEF PeAt

\* The parent's place, rounded to a multiple of the stride.
LEMMA ParentIs ==
  ASSUME NEW i \in Index, i # 0
  PROVE  ParentOf(PE_start, step, PeAt(i)) = PeAt((i - 1) \div 2)
<1>. DEFINE s == step
            j == (i - 1) \div 2
            half == (PeAt(i) - PE_start - s) \div 2
<1>1. s \in Nat \ {0} /\ PE_start \in Nat /\ PE_size \in Nat  BY ActiveSetAssumption
<1>2. i \in Nat \ {0} /\ j \in Nat /\ (i - 1 = 2 * j \/ i - 1 = 2 * j + 1)
  BY <1>1 DEF Index
<1>. HIDE DEF s, j
<1>3. PeAt(i) - PE_start - s = (i - 1) * s
  <2>1. (i - 1) * s = i * s - s  BY <1>1, <1>2
  <2>2. i * s \in Int  BY <1>1, <1>2
  <2>. QED  BY <1>1, <2>1, <2>2 DEF PeAt, s
<1>4. j * s \in Nat  BY <1>1, <1>2
<1>5. ASSUME i - 1 = 2 * j PROVE half = j * s
  <2>1. (i - 1) * s = 2 * (j * s)  BY <1>1, <1>2, <1>5
  <2>. QED  BY <1>3, <1>4, <2>1
<1>6. ASSUME i - 1 = 2 * j + 1 PROVE half = j * s + s \div 2
  <2>1. (i - 1) * s = 2 * (j * s) + s  BY <1>1, <1>2, <1>6
  <2>. QED  BY <1>1, <1>3, <1>4, <2>1
<1>7. (j * s) % s = 0  BY <1>1, <1>2
<1>8. (j * s + s \div 2) % s = s \div 2
  <2>1. s \div 2 \in 0 .. s - 1  BY <1>1
  <2>2. ASSUME NEW r \in 0 .. s - 1 PROVE (j * s + r) % s = r
    BY <1>1, <1>2, <2>2
  <2>. QED  BY <2>1, <2>2
<1>9. half - (half % s) = j * s
  <2>1. s \div 2 \in Nat  BY <1>1
  <2>2. CASE i - 1 = 2 * j  BY <1>4, <1>5, <1>7, <2>2
  <2>3. CASE i - 1 = 2 * j + 1
    <3>. HIDE DEF half
    <3>. QED  BY <1>4, <1>6, <1>8, <2>1, <2>3
  <2>. QED  BY <1>2, <2>2, <2>3
<1>10. PeAt(i) # PE_start
  <2>1. PeAt(i) # PeAt(0)  BY <1>2, PeAtIs
  <2>. QED  BY <2>1, <1>1 DEF PeAt, s
<1>. QED  BY <1>1, <1>4, <1>9, <1>10 DEF ParentOf, PeAt, s, j

\* Before build_tree the first PE is the root.
LEMMA Set2TreeIs ==
  ASSUME NEW i \in Index
  PROVE  set_2tree(PE_start, step, PE_size, PeAt(i)) =
           Node(IF i = 0 THEN NoPE ELSE PeAt((i - 1) \div 2),
                IF 2 * i + 1 \in Index THEN PeAt(2 * i + 1) ELSE NoPE,
                IF 2 * i + 2 \in Index THEN PeAt(2 * i + 2) ELSE NoPE)
<1>1. step \in Nat \ {0} /\ PE_start \in Nat /\ PE_size \in Nat \ {0}  BY ActiveSetAssumption
<1>2. i \in Nat /\ i < PE_size  BY <1>1 DEF Index
<1>. DEFINE max_pe == PE_start + step * (PE_size - 1)
            lchild == 2 * (PeAt(i) - PE_start) + step + PE_start
            rchild == lchild + step
<1>3. max_pe = PeAt(PE_size - 1)
  <2>1. step * (PE_size - 1) = (PE_size - 1) * step  BY <1>1
  <2>. QED  BY <2>1 DEF PeAt
<1>4. lchild = PeAt(2 * i + 1)
  <2>1. i * step \in Nat  BY <1>1, <1>2
  <2>2. (2 * i) * step = 2 * (i * step)  BY <1>1, <1>2
  <2>3. (2 * i + 1) * step = (2 * i) * step + step  BY <1>1, <1>2
  <2>. QED  BY <1>1, <2>1, <2>2, <2>3 DEF PeAt
<1>5. rchild = PeAt(2 * i + 2)
  <2>1. (2 * i + 1 + 1) * step = (2 * i + 1) * step + step  BY <1>1, <1>2
  <2>2. 2 * i + 1 + 1 = 2 * i + 2 /\ (2 * i + 1) * step \in Int  BY <1>1, <1>2
  <2>. QED  BY <1>1, <1>4, <2>1, <2>2 DEF PeAt
<1>. HIDE DEF max_pe, lchild, rchild
<1>6. ASSUME NEW j \in Nat PROVE PeAt(j) > max_pe <=> j \notin Index
  <2>1. PeAt(j) <= PeAt(PE_size - 1) <=> j <= PE_size - 1  BY <1>1, PeAtIs
  <2>2. PeAt(j) \in Int /\ PeAt(PE_size - 1) \in Int  BY <1>1, PeAtIs
  <2>. QED  BY <1>1, <1>3, <2>1, <2>2 DEF Index
<1>7. ParentOf(PE_start, step, PeAt(i)) = IF i = 0 THEN NoPE ELSE PeAt((i - 1) \div 2)
  <2>1. CASE i = 0
    <3>1. PeAt(0) = PE_start  BY <1>1 DEF PeAt
    <3>. QED  BY <2>1, <3>1 DEF ParentOf
  <2>. QED  BY <2>1, ParentIs
<1>8. 2 * i + 1 \in Nat /\ 2 * i + 2 \in Nat  BY <1>2
<1>9. lchild > max_pe <=> 2 * i + 1 \notin Index  BY <1>4, <1>6, <1>8
<1>10. rchild > max_pe <=> 2 * i + 2 \notin Index  BY <1>5, <1>6, <1>8
<1>11. set_2tree(PE_start, step, PE_size, PeAt(i)) =
         Node(ParentOf(PE_start, step, PeAt(i)), IF lchild > max_pe THEN NoPE ELSE lchild,
              IF rchild > max_pe THEN NoPE ELSE rchild)
  BY DEF set_2tree, lchild, rchild, max_pe
<1>. QED  BY <1>4, <1>5, <1>7, <1>9, <1>10, <1>11

\* A PE of the active set is in one place.
LEMMA PlaceOfMember ==
  ASSUME NEW r \in Index
  PROVE  /\ \A i \in Index : InPlace(r, i) \in Member
         /\ \A i, j \in Index : InPlace(r, i) = InPlace(r, j) => i = j
         /\ \A p \in Member : \E i \in Index : p = InPlace(r, i)
         /\ InPlace(r, 0) = PE_start + step * r
         /\ NoPE \notin Member
<1>1. step \in Nat \ {0} /\ PE_start \in Nat /\ PE_size \in Nat \ {0}  BY ActiveSetAssumption
<1>2. Member = {PeAt(i) : i \in Index}  BY DEF Member, PeAt, Index
<1>3. 0 \in Index /\ Index \subseteq Int  BY <1>1 DEF Index
<1>4. \A i, j \in Index : PeAt(i) = PeAt(j) => i = j  BY <1>3, PeAtIs
<1>5. \A i \in Index : InPlace(r, i) \in Member  BY <1>2, <1>3 DEF InPlace
<1>6. \A i, j \in Index : InPlace(r, i) = InPlace(r, j) => i = j  BY <1>3, <1>4 DEF InPlace
<1>7. ASSUME NEW p \in Member PROVE \E i \in Index : p = InPlace(r, i)
  <2>1. PICK j \in Index : p = PeAt(j)  BY <1>2
  <2>2. j = 0 => p = InPlace(r, r)  BY <2>1 DEF InPlace
  <2>3. j = r => p = InPlace(r, 0)  BY <2>1 DEF InPlace
  <2>4. j # 0 /\ j # r => p = InPlace(r, j)  BY <2>1 DEF InPlace
  <2>. QED  BY <1>3, <2>2, <2>3, <2>4
<1>8. InPlace(r, 0) = PE_start + step * r
  <2>1. r * step = step * r  BY <1>1, <1>3
  <2>. QED  BY <2>1 DEF InPlace, PeAt
<1>9. NoPE \notin Member
  <2>. SUFFICES ASSUME NEW n \in 0 .. PE_size - 1 PROVE NoPE # PE_start + n * step
    BY DEF Member
  <2>1. n * step \in Nat  BY <1>1
  <2>. QED  BY <1>1, <2>1 DEF NoPE
<1>. QED  BY <1>5, <1>6, <1>7, <1>8, <1>9

\* With the root and the first PE exchanged everyone agrees about the tree.
LEMMA BuildTreeIs ==
  ASSUME NEW r \in Index, NEW i \in Index
  PROVE  LET node == build_tree(PE_start, step, r, PE_size, InPlace(r, i))
         IN  /\ node.parent = NodeAt(r, i).parent
             /\ node.child_l = NodeAt(r, i).child_l
             /\ node.child_r = NodeAt(r, i).child_r
<1>1. step \in Nat \ {0} /\ PE_start \in Nat /\ PE_size \in Nat \ {0}  BY ActiveSetAssumption
<1>2. 0 \in Index /\ Index \subseteq Nat  BY <1>1 DEF Index
<1>. DEFINE top == PE_start + step * r
            half(j) == (j - 1) \div 2
            mine(j) == set_2tree(PE_start, step, PE_size, PeAt(j))
            Own(k) == IF k \in Index THEN PeAt(k) ELSE NoPE
<1>3. top = PeAt(r) /\ PE_start = PeAt(0)
  <2>1. step * r = r * step  BY <1>1, <1>2
  <2>. QED  BY <1>1, <2>1 DEF PeAt
<1>4. ASSUME NEW j \in Index
      PROVE  /\ j # 0 => half(j) \in Index
             /\ mine(j) = Node(IF j = 0 THEN NoPE ELSE PeAt(half(j)),
                              Own(2 * j + 1), Own(2 * j + 2))
             /\ 2 * j + 1 # 0 /\ 2 * j + 2 # 0
  <2>1. j # 0 => half(j) \in Index  BY <1>1, <1>2 DEF Index
  <2>2. 2 * j + 1 # 0 /\ 2 * j + 2 # 0  BY <1>2
  <2>. QED  BY <2>1, <2>2, Set2TreeIs
<1>. HIDE DEF top, half, mine
<1>5. \A j, k \in Index : PeAt(j) = PeAt(k) <=> j = k  BY <1>2, PeAtIs
<1>6. \A j \in Index : PeAt(j) # NoPE
  <2>. SUFFICES ASSUME NEW j \in Index PROVE PeAt(j) # NoPE
    OBVIOUS
  <2>1. j * step \in Nat  BY <1>1, <1>2
  <2>. QED  BY <1>1, <2>1 DEF PeAt, NoPE
<1>7. \A k : Own(k) = PeAt(r) <=> k = r
  BY <1>5, <1>6
<1>8. CASE r = 0
  <2>1. InPlace(r, i) = PeAt(i)  BY <1>8 DEF InPlace
  <2>2. build_tree(PE_start, step, r, PE_size, InPlace(r, i)) = mine(i)
    BY <1>8, <2>1 DEF build_tree, mine
  <2>3. \A k : OrNone(r, k) = Own(k)  BY <1>8 DEF OrNone, InPlace
  <2>4. \A k : InPlace(r, k) = PeAt(k)  BY <1>8 DEF InPlace
  <2>. QED  BY <1>4, <2>2, <2>3, <2>4 DEF NodeAt, half
<1>9. CASE r # 0
  <2>1. \A k : k # 0 => OrNone(r, k) = IF Own(k) = top THEN PE_start ELSE Own(k)
    BY <1>2, <1>3, <1>7 DEF OrNone, InPlace
  <2>2. \A k \in Index : InPlace(r, k) = CASE PeAt(k) = PE_start -> top
                                           [] PeAt(k) = top -> PE_start
                                           [] OTHER -> PeAt(k)
    BY <1>3, <1>5, <1>2, <1>9 DEF InPlace
  <2>3. CASE i = r
    <3>1. InPlace(r, i) = PE_start  BY <1>3, <1>9, <2>3 DEF InPlace
    <3>2. build_tree(PE_start, step, r, PE_size, InPlace(r, i)) =
            [mine(r) EXCEPT !.parent = IF @ = PE_start THEN top ELSE @]
      BY <1>3, <1>9, <3>1 DEF build_tree, Exchanged, top, mine
    <3>3. half(r) # r  BY <1>2, <1>9 DEF half
    <3>4. PeAt(half(r)) # top  BY <1>3, <1>4, <1>5, <1>9, <3>3
    <3>5. InPlace(r, half(r)) = IF PeAt(half(r)) = PE_start THEN top ELSE PeAt(half(r))
      BY <1>4, <1>9, <2>2, <3>4
    <3>6. 2 * r + 1 # r /\ 2 * r + 2 # r  BY <1>2
    <3>7. OrNone(r, 2 * r + 1) = Own(2 * r + 1) /\ OrNone(r, 2 * r + 2) = Own(2 * r + 2)
      BY <1>3, <1>4, <1>7, <2>1, <3>6
    <3>. QED  BY <1>4, <1>9, <2>3, <3>2, <3>5, <3>7 DEF NodeAt, Node, half
  <2>4. CASE i = 0
    <3>1. InPlace(r, i) = top  BY <1>3, <2>4 DEF InPlace
    <3>2. top # PE_start  BY <1>2, <1>3, <1>5, <1>9
    <3>3. mine(0) = set_2tree(PE_start, step, PE_size, PE_start)  BY <1>3 DEF mine
    <3>4. build_tree(PE_start, step, r, PE_size, InPlace(r, i)) =
            [mine(0) EXCEPT !.child_l = IF @ = top THEN PE_start ELSE @,
                            !.child_r = IF @ = top THEN PE_start ELSE @]
      BY <1>9, <3>1, <3>2, <3>3 DEF build_tree, Exchanged, top
    <3>5. OrNone(r, 2 * i + 1) = IF Own(2 * i + 1) = top THEN PE_start ELSE Own(2 * i + 1)
      BY <1>4, <2>1
    <3>6. OrNone(r, 2 * i + 2) = IF Own(2 * i + 2) = top THEN PE_start ELSE Own(2 * i + 2)
      BY <1>4, <2>1
    <3>7. mine(0) = Node(NoPE, Own(2 * i + 1), Own(2 * i + 2))  BY <1>2, <1>4, <2>4
    <3>. HIDE DEF Own
    <3>. DEFINE node == build_tree(PE_start, step, r, PE_size, InPlace(r, i))
    <3>8. node.parent = mine(0).parent  BY <3>4, <3>7 DEF Node
    <3>9. node.child_l = OrNone(r, 2 * i + 1)  BY <3>4, <3>5, <3>7 DEF Node
    <3>10. node.child_r = OrNone(r, 2 * i + 2)  BY <3>4, <3>6, <3>7 DEF Node
    <3>. HIDE DEF node
    <3>11. NodeAt(r, i) = Node(NoPE, OrNone(r, 2 * i + 1), OrNone(r, 2 * i + 2))
      BY <2>4 DEF NodeAt
    <3>12. mine(0).parent = NoPE  BY <3>7 DEF Node
    <3>13. node.parent = NodeAt(r, i).parent /\ node.child_l = NodeAt(r, i).child_l
           /\ node.child_r = NodeAt(r, i).child_r
      BY <3>8, <3>9, <3>10, <3>11, <3>12 DEF Node
    <3>. QED  BY <3>13 DEF node
  <2>5. CASE i # 0 /\ i # r
    <3>1. InPlace(r, i) = PeAt(i)  BY <2>5 DEF InPlace
    <3>2. PeAt(i) # top /\ PeAt(i) # PE_start  BY <1>2, <1>3, <1>5, <2>5
    <3>3. build_tree(PE_start, step, r, PE_size, InPlace(r, i)) =
            Relinked(PE_start, top, mine(i))
      BY <1>9, <3>1, <3>2 DEF build_tree, top, mine
    <3>4. InPlace(r, half(i)) = CASE PeAt(half(i)) = PE_start -> top
                                  [] PeAt(half(i)) = top -> PE_start
                                  [] OTHER -> PeAt(half(i))
      BY <1>4, <2>2, <2>5
    <3>5. OrNone(r, 2 * i + 1) = IF Own(2 * i + 1) = top THEN PE_start ELSE Own(2 * i + 1)
      BY <1>4, <2>1
    <3>6. OrNone(r, 2 * i + 2) = IF Own(2 * i + 2) = top THEN PE_start ELSE Own(2 * i + 2)
      BY <1>4, <2>1
    <3>7. mine(i) = Node(PeAt(half(i)), Own(2 * i + 1), Own(2 * i + 2))  BY <1>4, <2>5
    <3>. HIDE DEF Own
    <3>. QED  BY <2>5, <3>3, <3>4, <3>5, <3>6, <3>7 DEF Node, NodeAt, Relinked, half
  <2>. QED  BY <2>3, <2>4, <2>5
<1>. QED  BY <1>8, <1>9

\* Parents and children agree about who is whose, the root is nobody's child and
\* every other PE is somebody's.
LEMMA TreeShape ==
  ASSUME NEW r \in Index
  PROVE  LET tree(p) == build_tree(PE_start, step, r, PE_size, p)
             top == PE_start + step * r
         IN  /\ \A p \in Member, s \in {"child_l", "child_r"} : tree(p)[s] # NoPE =>
                  /\ tree(p)[s] \in Member \ {top}
                  /\ tree(tree(p)[s]).parent = p
             /\ \A p \in Member :
                  /\ tree(p).child_l = NoPE => tree(p).child_r = NoPE
                  /\ tree(p).child_l # NoPE => tree(p).child_l # tree(p).child_r
             /\ \A c \in Member \ {top} :
                  /\ tree(c).parent \in Member
                  /\ c \in {tree(tree(c).parent).child_l, tree(tree(c).parent).child_r}
<1>. DEFINE tree(p) == build_tree(PE_start, step, r, PE_size, p)
            top == PE_start + step * r
            pl(i) == InPlace(r, i)
<1>1. PE_size \in Nat \ {0} /\ Index \subseteq Nat /\ 0 \in Index
  BY ActiveSetAssumption DEF Index
<1>2. ASSUME NEW i \in Index
      PROVE  /\ tree(pl(i)).parent = IF i = 0 THEN NoPE ELSE pl((i - 1) \div 2)
             /\ tree(pl(i)).child_l = IF 2 * i + 1 \in Index THEN pl(2 * i + 1) ELSE NoPE
             /\ tree(pl(i)).child_r = IF 2 * i + 2 \in Index THEN pl(2 * i + 2) ELSE NoPE
  BY BuildTreeIs DEF NodeAt, Node, OrNone
<1>3. /\ \A i \in Index : pl(i) \in Member
      /\ \A i, j \in Index : pl(i) = pl(j) => i = j
      /\ \A p \in Member : \E i \in Index : p = pl(i)
      /\ pl(0) = top
      /\ NoPE \notin Member
  BY PlaceOfMember
<1>. HIDE DEF tree, top, pl
<1>4. ASSUME NEW p \in Member
      PROVE  /\ tree(p).child_l # NoPE => tree(p).child_l \in Member \ {top}
                                          /\ tree(tree(p).child_l).parent = p
             /\ tree(p).child_r # NoPE => tree(p).child_r \in Member \ {top}
                                          /\ tree(tree(p).child_r).parent = p
             /\ tree(p).child_l = NoPE => tree(p).child_r = NoPE
             /\ tree(p).child_l # NoPE => tree(p).child_l # tree(p).child_r
  <2>1. PICK i \in Index : p = pl(i)  BY <1>3
  <2>2. ASSUME NEW j \in Index, j = 2 * i + 1 \/ j = 2 * i + 2
        PROVE  pl(j) \in Member \ {top} /\ tree(pl(j)).parent = p
    <3>1. j # 0 /\ (j - 1) \div 2 = i  BY <1>1, <2>2
    <3>. QED  BY <1>1, <1>2, <1>3, <2>1, <3>1
  <2>3. 2 * i + 2 \in Index => 2 * i + 1 \in Index /\ 2 * i + 1 # 2 * i + 2
    BY <1>1 DEF Index
  <2>. QED  BY <1>2, <1>3, <2>1, <2>2, <2>3
<1>5. ASSUME NEW c \in Member \ {top}
      PROVE  /\ tree(c).parent \in Member
             /\ c \in {tree(tree(c).parent).child_l, tree(tree(c).parent).child_r}
  <2>1. PICK i \in Index : c = pl(i)  BY <1>3
  <2>2. i # 0  BY <1>3, <2>1
  <2>. DEFINE h == (i - 1) \div 2
  <2>3. h \in Index /\ (i = 2 * h + 1 \/ i = 2 * h + 2)  BY <1>1, <2>2 DEF Index
  <2>. HIDE DEF h
  <2>4. tree(c).parent = pl(h)  BY <1>2, <2>1, <2>2 DEF h
  <2>. QED  BY <1>2, <1>3, <2>1, <2>3, <2>4
<1>6. \A p \in Member, s \in {"child_l", "child_r"} : tree(p)[s] # NoPE =>
        tree(p)[s] \in Member \ {top} /\ tree(tree(p)[s]).parent = p
  BY <1>4
<1>. QED  BY <1>4, <1>5, <1>6 DEF tree, top

\* Whoever has what its parent has is everyone, if the root has it.
LEMMA DownTheTree ==
  ASSUME NEW r \in Index, NEW S \in SUBSET Member, PE_start + step * r \in S,
         \A c \in Member \ {PE_start + step * r} :
           build_tree(PE_start, step, r, PE_size, c).parent \in S => c \in S
  PROVE  S = Member
<1>. DEFINE pl(i) == InPlace(r, i)
            B == {i \in Nat : i \in Index /\ pl(i) \notin S}
<1>1. PE_size \in Nat \ {0} /\ Index \subseteq Nat /\ 0 \in Index
  BY ActiveSetAssumption DEF Index
<1>2. /\ \A i \in Index : pl(i) \in Member
      /\ \A i, j \in Index : pl(i) = pl(j) => i = j
      /\ \A p \in Member : \E i \in Index : p = pl(i)
      /\ pl(0) = PE_start + step * r
  BY PlaceOfMember
<1>3. ASSUME NEW i \in Index, i # 0
      PROVE  build_tree(PE_start, step, r, PE_size, pl(i)).parent = pl((i - 1) \div 2)
  BY <1>3, BuildTreeIs DEF NodeAt, Node
<1>. HIDE DEF pl
<1>4. SUFFICES ASSUME B # {} PROVE FALSE
  BY <1>1, <1>2
<1>5. PICK i \in B : \A j \in B : i <= j
  <2>. DEFINE R == {s \in Nat \X Nat : s[1] < s[2]}
  <2>1. IsWellFoundedOn(R, Nat)  BY NatLessThanWellFounded DEF OpToRel
  <2>2. PICK i \in B : \A j \in B : ~ (<<j, i>> \in R)
    <3>. HIDE DEF R
    <3>1. B \subseteq Nat  OBVIOUS
    <3>. HIDE DEF B
    <3>. QED  BY <1>4, <2>1, <3>1, WFMin
  <2>3. ASSUME NEW j \in B PROVE i <= j
    <3>1. <<j, i>> \in Nat \X Nat /\ ~ (<<j, i>> \in R)  BY <2>2
    <3>. QED  BY <3>1
  <2>. QED  BY <2>3
<1>6. i # 0  BY <1>2
<1>7. (i - 1) \div 2 \in Index /\ (i - 1) \div 2 < i  BY <1>1, <1>6 DEF Index
<1>8. pl((i - 1) \div 2) \in S  BY <1>1, <1>2, <1>5, <1>7
<1>. QED  BY <1>2, <1>3, <1>6, <1>8

-----------------------------------------------------------------------------
(* The steps of the tree broadcast.                                        *)

\* The types of the constants of the tree broadcast.
LEMMA TreeConstants ==
  /\ PE_start \in Nat /\ step \in Nat \ {0} /\ PE_size \in Nat \ {0} /\ MaxCalls \in Nat
  /\ Roots \subseteq Index
BY ActiveSetAssumption, BroadcastAssumption DEF Index

\* Who is a child, of whom.
LEMMA Kids ==
  ASSUME TreeTypeOK, NEW n \in 1 .. MaxCalls, NEW p \in Member
  PROVE  /\ \A side \in DOMAIN Side : Kid(n, p, side) # NoPE =>
              /\ Kid(n, p, side) \in Member
              /\ Kid(n, p, side) # RootPE(n)
              /\ \A q \in Member, s \in DOMAIN Side :
                   Kid(n, q, s) = Kid(n, p, side) => q = p /\ s = side
         /\ Kid(n, p, "left") = NoPE => Kid(n, p, "right") = NoPE
         /\ p # RootPE(n) => /\ PlaceIn(n, p).parent \in Member
                             /\ \E side \in DOMAIN Side :
                                  Kid(n, PlaceIn(n, p).parent, side) = p
         /\ NoPE \notin Member
<1>1. roots[n] \in Index  BY TreeConstants DEF TreeTypeOK
<1>2. NoPE \notin Member  BY <1>1, PlaceOfMember
<1>3. /\ \A q \in Member, s \in {"child_l", "child_r"} : PlaceIn(n, q)[s] # NoPE =>
           PlaceIn(n, q)[s] \in Member \ {RootPE(n)}
             /\ PlaceIn(n, PlaceIn(n, q)[s]).parent = q
      /\ \A q \in Member :
           /\ PlaceIn(n, q).child_l = NoPE => PlaceIn(n, q).child_r = NoPE
           /\ PlaceIn(n, q).child_l # NoPE =>
                PlaceIn(n, q).child_l # PlaceIn(n, q).child_r
      /\ \A c \in Member \ {RootPE(n)} :
           /\ PlaceIn(n, c).parent \in Member
           /\ c \in {PlaceIn(n, PlaceIn(n, c).parent).child_l,
                     PlaceIn(n, PlaceIn(n, c).parent).child_r}
  BY <1>1, TreeShape DEF PlaceIn, RootPE
<1>4. DOMAIN Side = {"left", "right"} /\ Side["left"] = "child_l"
        /\ Side["right"] = "child_r"
  BY DEF Side
<1>5. \A q : Kid(n, q, "left") = PlaceIn(n, q).child_l
        /\ Kid(n, q, "right") = PlaceIn(n, q).child_r
  BY <1>4 DEF Kid
<1>6. ASSUME NEW q \in Member, NEW s \in DOMAIN Side, Kid(n, q, s) # NoPE
      PROVE  Kid(n, q, s) \in Member /\ Kid(n, q, s) # RootPE(n)
        /\ PlaceIn(n, Kid(n, q, s)).parent = q
  BY <1>3, <1>4, <1>6 DEF Kid
<1>7. ASSUME NEW side \in DOMAIN Side, Kid(n, p, side) # NoPE,
             NEW q \in Member, NEW s \in DOMAIN Side, Kid(n, q, s) = Kid(n, p, side)
      PROVE  q = p /\ s = side
  <2>1. q = p  BY <1>6, <1>7
  <2>. QED  BY <1>3, <1>4, <1>5, <1>7, <2>1
<1>8. ASSUME p # RootPE(n)
      PROVE  /\ PlaceIn(n, p).parent \in Member
             /\ \E side \in DOMAIN Side : Kid(n, PlaceIn(n, p).parent, side) = p
  BY <1>3, <1>4, <1>5, <1>8
<1>. QED  BY <1>2, <1>3, <1>5, <1>6, <1>7, <1>8

\* A PE is the child of one PE, on one side.
LEMMA OneParent ==
  ASSUME TreeTypeOK, NEW n \in 1 .. MaxCalls, NEW c, c # NoPE,
         NEW p \in Member, NEW side \in DOMAIN Side, Kid(n, p, side) = c,
         NEW q \in Member, NEW s \in DOMAIN Side, Kid(n, q, s) = c
  PROVE  q = p /\ s = side
BY Kids

\* In a set of one there are no children.
LEMMA LoneHasNone ==
  ASSUME TreeTypeOK, PE_size = 1, NEW n \in 1 .. MaxCalls, NEW p \in Member,
    NEW side \in DOMAIN Side
  PROVE  Kid(n, p, side) = NoPE
<1>1. Member = {PE_start + 0 * step}  BY TreeConstants DEF Member
<1>2. roots[n] = 0
  <2>1. roots[n] \in Index  BY TreeConstants DEF TreeTypeOK
  <2>. QED  BY <2>1 DEF Index
<1>3. RootPE(n) = PE_start + 0 * step  BY <1>2, TreeConstants DEF RootPE
<1>. QED  BY <1>1, <1>3, Kids

\* A PE goes on in its call, from one place to a later one.
TreeMoves(p, l) ==
  /\ roots' = roots /\ calls' = calls
  /\ pc' = [pc EXCEPT ![p] = l]
  /\ l \in DOMAIN Rank /\ Rank[l] > Rank[pc[p]]

\* How far a PE is in a call is a number from 1 to 10.
LEMMA RankType == \A l \in DOMAIN Rank : Rank[l] \in 1 .. 10
BY DEF Rank

\* A move changes how far its PE is in its call, and for nobody else.
LEMMA ReachedAfter ==
  ASSUME TreeTypeOK, NEW p \in Member, NEW l, TreeMoves(p, l)
  PROVE  \A q \in Member, n \in 1 .. MaxCalls, k \in 1 .. 10 :
           Reached(q, n, k)' <=>
             Reached(q, n, k) \/ (q = p /\ calls[p] = n /\ Rank[l] >= k)
<1>. SUFFICES ASSUME NEW q \in Member, NEW n \in 1 .. MaxCalls, NEW k \in 1 .. 10
              PROVE  Reached(q, n, k)' <=>
                Reached(q, n, k) \/ (q = p /\ calls[p] = n /\ Rank[l] >= k)
  OBVIOUS
<1>1. pc'[q] = IF q = p THEN l ELSE pc[q]  BY DEF TreeTypeOK, TreeMoves
<1>2. Rank[pc[p]] \in 1 .. 10 /\ Rank[l] \in 1 .. 10 /\ Rank[l] > Rank[pc[p]]
  BY RankType DEF TreeMoves, TreeTypeOK
<1>3. calls' = calls  BY DEF TreeMoves
<1>. QED  BY <1>1, <1>2, <1>3 DEF Reached

\* The tree of a call depends on its root only.
LEMMA KidAfter ==
  ASSUME roots' = roots
  PROVE  \A n, p, side : Kid(n, p, side)' = Kid(n, p, side)
BY DEF Kid, PlaceIn

\* What the order of parents and children asks of a move.
LEMMA OrderedAfter ==
  ASSUME TreeIInv, NEW p \in Member, NEW l, TreeMoves(p, l),
         Rank[pc[p]] < 3 /\ Rank[l] >= 3 => \A q \in Member, side \in DOMAIN Side :
           Kid(calls[p], q, side) = p => Flagged(q, calls[p], side),
         Rank[pc[p]] < 9 /\ Rank[l] >= 9 => \A side \in DOMAIN Side :
           Kid(calls[p], p, side) # NoPE =>
             Reported(Kid(calls[p], p, side), calls[p])
  PROVE  Ordered' /\ Uniform'
<1>. USE DEF TreeIInv
<1>1. ASSUME NEW q \in Member, NEW n \in 1 .. MaxCalls, NEW k \in 1 .. 10
      PROVE  Reached(q, n, k)' <=>
        Reached(q, n, k) \/ (q = p /\ calls[p] = n /\ Rank[l] >= k)
  BY ReachedAfter
<1>2. Rank[pc[p]] \in 1 .. 10 /\ Rank[l] \in 1 .. 10 /\ calls' = calls
        /\ roots' = roots
  BY RankType DEF TreeMoves, TreeTypeOK
<1>3. Ordered'
  <2>. SUFFICES ASSUME NEW n \in 1 .. MaxCalls, NEW q \in Member, NEW side \in DOMAIN Side,
                       NEW c, c = Kid(n, q, side), c # NoPE
                PROVE  /\ Received(c, n)' => Flagged(q, n, side)'
                       /\ Counted(q, n)' => Reported(c, n)'
    BY <1>2, KidAfter DEF Ordered
  <2>1. c \in Member  BY Kids
  <2>2. (Received(c, n) => Flagged(q, n, side)) /\ (Counted(q, n) => Reported(c, n))
    BY DEF Ordered
  <2>3. ASSUME Received(c, n)' PROVE Flagged(q, n, side)'
    <3>1. Flagged(q, n, side) => Flagged(q, n, side)'  BY <1>1 DEF Flagged
    <3>2. CASE Received(c, n)  BY <2>2, <3>1, <3>2
    <3>3. CASE ~Received(c, n)
      <4>1. c = p /\ calls[p] = n /\ Rank[l] >= 3  BY <1>1, <2>1, <2>3, <3>3 DEF Received
      <4>2. Rank[pc[p]] < 3  BY <1>2, <3>3, <4>1 DEF Received, Reached
      <4>. QED  BY <3>1, <4>1, <4>2
    <3>. QED  BY <3>2, <3>3
  <2>4. ASSUME Counted(q, n)' PROVE Reported(c, n)'
    <3>1. Reported(c, n) => Reported(c, n)'  BY <1>1, <2>1 DEF Reported
    <3>2. CASE Counted(q, n)  BY <2>2, <3>1, <3>2
    <3>3. CASE ~Counted(q, n)
      <4>1. q = p /\ calls[p] = n /\ Rank[l] >= 9  BY <1>1, <2>4, <3>3 DEF Counted
      <4>2. Rank[pc[p]] < 9  BY <1>2, <3>3, <4>1 DEF Counted, Reached
      <4>. QED  BY <3>1, <4>1, <4>2
    <3>. QED  BY <3>2, <3>3
  <2>. QED  BY <2>3, <2>4
<1>4. Uniform'
  <2>. SUFFICES ASSUME NEW q \in Member, NEW r \in Member, NEW n \in 1 .. calls[q],
         ~Reported(r, n)'
                PROVE  roots[n] = roots[calls[q]]
    BY <1>2 DEF Uniform
  <2>1. n \in 1 .. MaxCalls  BY TreeConstants DEF TreeTypeOK
  <2>2. ~Reported(r, n)  BY <1>1, <2>1 DEF Reported
  <2>. QED  BY <2>2 DEF Uniform
<1>. QED  BY <1>3, <1>4

\* A move that puts nothing: who is waited for or written to stays where it is.
LEMMA QuietMove ==
  ASSUME TreeIInv, NEW p \in Member, NEW l, TreeMoves(p, l), calls[p] > 0,
         flight' = flight, target' = target,
         pc[p] \notin {"fence_left", "fence_right"}, l \notin {"fence_left", "fence_right"},
         pc[p] = "receive" => PE_size > 1 /\ pSync[p][0] = IsReady,
         Rank[pc[p]] < 3 /\ Rank[l] >= 3 => PE_size = 1 \/ pc[p] \in {"root", "receive"},
         Rank[pc[p]] < 9 /\ Rank[l] >= 9 => \A side \in DOMAIN Side :
           Kid(calls[p], p, side) # NoPE =>
             Reported(Kid(calls[p], p, side), calls[p])
  PROVE  /\ Ordered' /\ Uniform' /\ Targets' /\ InFlight' /\ Fences'
         /\ \A q \in Member \ {p} : PE_size > 1 /\ pSync'[q][0] = pSync[q][0] => Flags(q)'
<1>. USE DEF TreeIInv
<1>1. ASSUME NEW q \in Member, NEW n \in 1 .. MaxCalls, NEW k \in 1 .. 10
      PROVE  Reached(q, n, k)' <=>
        Reached(q, n, k) \/ (q = p /\ calls[p] = n /\ Rank[l] >= k)
  BY ReachedAfter
<1>2. /\ Rank[pc[p]] \in 1 .. 10 /\ Rank[l] \in 1 .. 10 /\ calls' = calls
           /\ roots' = roots
      /\ \A q \in Member : pc'[q] = IF q = p THEN l ELSE pc[q]
      /\ calls[p] \in 1 .. MaxCalls
  BY RankType DEF TreeMoves, TreeTypeOK
<1>3. pc[p] = "receive" =>
        /\ \A side \in DOMAIN Side, q \in Member :
             Kid(calls[p], q, side) = p => Flagged(q, calls[p], side)
        /\ target[p] = calls[p]
        /\ \A m \in flight : m.dst # p
  BY DEF Flags, IsReady, NotReady
<1>4. Rank[pc[p]] < 3 /\ Rank[l] >= 3 => \A q \in Member, side \in DOMAIN Side :
        Kid(calls[p], q, side) = p => Flagged(q, calls[p], side)
  <2>1. CASE PE_size = 1
    <3>1. NoPE # p  BY <1>2, Kids
    <3>. QED  BY <1>2, <2>1, <3>1, LoneHasNone
  <2>2. CASE pc[p] = "root"
    <3>1. p = RootPE(calls[p])  BY <2>2 DEF PcOK, IsRoot
    <3>2. PICK n \in 1 .. MaxCalls : n = calls[p]  BY <1>2
    <3>3. \A q \in Member, side \in DOMAIN Side : Kid(n, q, side) # RootPE(n)
      <4>1. RootPE(n) # NoPE  BY <1>2, <3>1, <3>2, Kids
      <4>. QED  BY <4>1, Kids
    <3>4. \A q \in Member, side \in DOMAIN Side : Kid(calls[p], q, side) # p
      BY <3>1, <3>2, <3>3
    <3>. QED  BY <3>4
  <2>. QED  BY <1>3, <2>1, <2>2
<1>5. Ordered' /\ Uniform'  BY <1>4, OrderedAfter
<1>6. Targets'
  <2>. SUFFICES ASSUME NEW q \in Member
                PROVE  /\ target[q] <= calls[q]
                       /\ \A n \in 1 .. MaxCalls : q # RootPE(n) /\ Received(q, n)' =>
                            target[q] >= n
    BY <1>2 DEF Targets, RootPE
  <2>1. target[q] <= calls[q]  BY DEF Targets
  <2>2. ASSUME NEW n \in 1 .. MaxCalls, q # RootPE(n), Received(q, n)' PROVE target[q] >= n
    <3>1. CASE Received(q, n)  BY <2>2, <3>1 DEF Targets
    <3>2. CASE ~Received(q, n)
      <4>1. q = p /\ calls[p] = n /\ Rank[l] >= 3  BY <1>1, <2>2, <3>2 DEF Received
      <4>2. Rank[pc[p]] < 3  BY <1>2, <3>2, <4>1 DEF Received, Reached
      <4>3. PE_size # 1
        <5>1. ASSUME PE_size = 1 PROVE FALSE
          <6>1. \A side \in DOMAIN Side : Kid(n, PlaceIn(n, p).parent, side) = NoPE
            BY <2>2, <4>1, <5>1, Kids, LoneHasNone
          <6>. QED  BY <2>2, <4>1, <6>1, Kids
        <5>. QED  BY <5>1
      <4>4. pc[p] = "receive"  BY <2>2, <4>1, <4>2, <4>3 DEF PcOK, IsRoot
      <4>. QED  BY <1>2, <1>3, <4>1, <4>4
    <3>. QED  BY <3>1, <3>2
  <2>. QED  BY <2>1, <2>2
<1>7. InFlight'
  <2>. SUFFICES ASSUME NEW m \in flight
                PROVE  /\ m.src \in Member /\ m.dst \in Member
                       /\ calls[m.src] = calls[m.dst] /\ pc'[m.dst] = "receive"
                       /\ \E side \in DOMAIN Side :
                            /\ m.dst = Kid(calls[m.src], m.src, side)
                            /\ \/ m = Data(m.src, m.dst, calls[m.src])
                                    /\ pc'[m.src] = Fence[side]
                               \/ /\ m = Flag(m.src, m.dst)
                                       /\ Flagged(m.src, calls[m.src], side)'
                                  /\ target[m.dst] = calls[m.src]
    BY <1>2, KidAfter DEF InFlight
  <2>1. PICK side \in DOMAIN Side :
          /\ m.src \in Member /\ m.dst \in Member
          /\ calls[m.src] = calls[m.dst] /\ pc[m.dst] = "receive"
          /\ m.dst = Kid(calls[m.src], m.src, side)
          /\ \/ m = Data(m.src, m.dst, calls[m.src]) /\ pc[m.src] = Fence[side]
             \/ /\ m = Flag(m.src, m.dst) /\ Flagged(m.src, calls[m.src], side)
                /\ target[m.dst] = calls[m.src]
    BY DEF InFlight
  <2>2. m.dst # p  BY <1>3, <2>1
  <2>3. pc[m.src] = Fence[side] => m.src # p  BY DEF Fence, Side
  <2>4. calls[m.src] \in 1 .. MaxCalls  BY <2>1 DEF PcOK, TreeTypeOK
  <2>5. Flagged(m.src, calls[m.src], side) => Flagged(m.src, calls[m.src], side)'
    BY <1>1, <1>2, <2>1, <2>4 DEF Flagged
  <2>. QED  BY <1>2, <2>1, <2>2, <2>3, <2>5
<1>8. Fences'
  <2>. SUFFICES ASSUME NEW q \in Member, NEW side \in DOMAIN Side, pc'[q] = Fence[side],
                       NEW c, c = Kid(calls[q], q, side)
                PROVE  /\ c # NoPE /\ calls[c] = calls[q] /\ pc'[c] = "receive"
                       /\ Data(q, c, calls[q]) \in flight \/ target[c] = calls[q]
    BY <1>2, KidAfter DEF Fences
  <2>1. q # p /\ pc[q] = Fence[side]  BY <1>2 DEF Fence, Side
  <2>2. /\ c # NoPE /\ calls[c] = calls[q] /\ pc[c] = "receive"
        /\ Data(q, c, calls[q]) \in flight \/ target[c] = calls[q]
    BY <2>1 DEF Fences
  <2>3. calls[q] \in 1 .. MaxCalls  BY <2>1 DEF PcOK, TreeTypeOK, Fence, Side
  <2>4. c \in Member  BY <2>2, <2>3, Kids
  <2>5. c # p
    <3>1. ASSUME c = p PROVE FALSE
      <4>1. Flagged(q, calls[q], side)  BY <1>3, <2>2, <3>1
      <4>. QED  BY <2>1, <2>3, <4>1 DEF Flagged, Reached, Fence, Side, Rank
    <3>. QED  BY <3>1
  <2>. QED  BY <1>2, <2>2, <2>4, <2>5
<1>9. ASSUME NEW q \in Member \ {p}, PE_size > 1, pSync'[q][0] = pSync[q][0]
      PROVE  Flags(q)'
  <2>1. Flags(q) /\ pc'[q] = pc[q]  BY <1>2, <1>9
  <2>2. pc[q] = "receive" => calls[q] \in 1 .. MaxCalls  BY DEF PcOK, TreeTypeOK
  <2>3. ASSUME pc[q] = "receive", NEW r \in Member, NEW side \in DOMAIN Side,
               Flagged(r, calls[q], side)
        PROVE  Flagged(r, calls[q], side)'
    BY <1>1, <1>2, <2>2, <2>3 DEF Flagged
  <2>. QED  BY <1>2, <1>9, <2>1, <2>3, KidAfter DEF Flags
<1>. QED  BY <1>5, <1>6, <1>7, <1>8, <1>9

\* The count of a PE whose children stay where they are.
LEMMA CountsAfter ==
  ASSUME TreeIInv, PE_size > 1, NEW p \in Member, NEW l, TreeMoves(p, l), Rank[l] < 10,
         NEW q \in Member, pSync'[q][1] = pSync[q][1],
         pc[q] \in {"enter", "report", "outside"} <=>
           pc'[q] \in {"enter", "report", "outside"}
  PROVE  Counters(q)'
<1>. USE DEF TreeIInv
<1>1. calls' = calls /\ roots' = roots  BY DEF TreeMoves
<1>2. CASE pc[q] \in {"enter", "report", "outside"}  BY <1>2 DEF Counters
<1>3. CASE pc[q] \notin {"enter", "report", "outside"}
  <2>1. calls[q] \in 1 .. MaxCalls  BY <1>3 DEF PcOK, TreeTypeOK
  <2>2. ASSUME NEW side \in DOMAIN Side
        PROVE  Has(calls[q], q, side)' = Has(calls[q], q, side)
    <3>1. ASSUME NEW n, n = calls[q], NEW c \in Member, c = Kid(n, q, side)
          PROVE  Reported(c, n)' <=> Reported(c, n)
      <4>1. 10 \in 1 .. 10 /\ n \in 1 .. MaxCalls  BY <2>1, <3>1
      <4>2. Reached(c, n, 10)' <=>
              Reached(c, n, 10) \/ (c = p /\ calls[p] = n /\ Rank[l] >= 10)
        BY <4>1, ReachedAfter
      <4>3. Rank[l] \in 1 .. 10  BY RankType DEF TreeMoves
      <4>. QED  BY <4>2, <4>3 DEF Reported
    <3>2. Kid(calls[q], q, side) # NoPE => Kid(calls[q], q, side) \in Member
      BY <2>1, Kids
    <3>3. ASSUME NEW n, n = calls[q] PROVE Has(n, q, side)' = Has(n, q, side)
      BY <1>1, <3>1, <3>2, <3>3, KidAfter DEF Has
    <3>. QED  BY <1>1, <3>3
  <2>3. "left" \in DOMAIN Side /\ "right" \in DOMAIN Side  BY DEF Side
  <2>4. calls'[q] = calls[q]  BY <1>1
  <2>5. Has(calls[q], q, "left")' = Has(calls[q], q, "left")
        /\ Has(calls[q], q, "right")' = Has(calls[q], q, "right")
    BY <2>2, <2>3
  <2>. QED  BY <1>3, <2>4, <2>5 DEF Counters
<1>. QED  BY <1>2, <1>3

\* Before the first call the invariant holds.
LEMMA InitTree == ASSUME TreeInit PROVE TreeIInv
<1>1. TreeTypeOK
  <2>1. "outside" \in DOMAIN Rank  BY DEF Rank
  <2>2. 0 \in 0 .. MaxCalls /\ SYNC \in Int  BY TreeConstants DEF SYNC
  <2>. QED  BY <2>1, <2>2 DEF TreeInit, TreeTypeOK
<1>2. \A p \in Member : calls[p] = 0 /\ pc[p] = "outside" /\ pSync[p][0] = SYNC
        /\ pSync[p][1] = SYNC
                        /\ target[p] = 0
  BY DEF TreeInit
<1>3. PcOK /\ Sources /\ Fences /\ \A p \in Member : Flags(p) /\ Counters(p)
  BY <1>2 DEF PcOK, Sources, Fences, Flags, Counters, Fence, Side
<1>4. \A p \in Member, n \in 1 .. MaxCalls, k \in 1 .. 10 : ~Reached(p, n, k)
  BY <1>2 DEF Reached
<1>5. Ordered /\ Targets
  BY <1>1, <1>2, <1>4, Kids DEF Ordered, Targets, Received, Counted
<1>6. Uniform  BY <1>2 DEF Uniform
<1>7. InFlight  BY DEF TreeInit, InFlight
<1>. QED  BY <1>1, <1>3, <1>5, <1>6, <1>7 DEF TreeIInv

\* Before a PE is past a child, the child is before its own children.
LEMMA NotFedNotReceived ==
  ASSUME TreeIInv, NEW p \in Member, calls[p] > 0, NEW side \in DOMAIN Side,
         Kid(calls[p], p, side) # NoPE, ~Flagged(p, calls[p], side)
  PROVE  /\ ~Received(Kid(calls[p], p, side), calls[p])
         /\ ~Reported(Kid(calls[p], p, side), calls[p])
<1>1. calls[p] \in 1 .. MaxCalls  BY DEF TreeIInv, TreeTypeOK
<1>2. ~Received(Kid(calls[p], p, side), calls[p])  BY <1>1 DEF TreeIInv, Ordered
<1>3. Kid(calls[p], p, side) \in Member  BY <1>1, Kids DEF TreeIInv
<1>4. Rank[pc[Kid(calls[p], p, side)]] \in 1 .. 10  BY <1>3, RankType DEF TreeIInv, TreeTypeOK
<1>. QED  BY <1>2, <1>4 DEF Received, Reported, Reached

\* A PE enters: it clears its flags, and none of its children has reported yet.
LEMMA EnterStep == ASSUME TreeIInv, NEW p \in Member, Enter(p) PROVE TreeIInv'
<1>. USE DEF TreeIInv
<1>. DEFINE l == CASE PE_size = 1 -> "outside"
                   [] PE_size > 1 /\ IsRoot(p) -> "root"
                   [] OTHER -> "receive"
<1>1. /\ pc[p] = "enter" /\ calls[p] \in 1 .. MaxCalls /\ PE_size \in Nat \ {0}
      /\ l \in {"outside", "root", "receive"}
      /\ l = "outside" <=> PE_size = 1
      /\ l = "root" <=> PE_size > 1 /\ IsRoot(p)
  BY TreeConstants DEF Enter, PcOK, TreeTypeOK
<1>2. /\ TreeMoves(p, l)
      /\ source' = source /\ target' = target /\ flight' = flight
           /\ calls' = calls /\ roots' = roots
      /\ \A q \in Member : pc'[q] = IF q = p THEN l ELSE pc[q]
      /\ \A q \in Member :
           pSync'[q] = IF q = p THEN [i \in {0, 1} |-> NotReady] ELSE pSync[q]
  BY <1>1 DEF Enter, TreeMoves, Goto, Rank, TreeTypeOK
<1>. HIDE DEF l
<1>3. TreeTypeOK'
  BY <1>1, <1>2 DEF TreeTypeOK, Enter, Goto, TreeMoves, NotReady
<1>4. PcOK'
  BY <1>1, <1>2 DEF PcOK, IsRoot, RootPE
<1>5. Rank["outside"] = 10 /\ Rank["root"] = 2 /\ Rank["receive"] = 2 /\ Rank["enter"] = 1
  BY DEF Rank
<1>6. /\ Ordered' /\ Uniform' /\ Targets' /\ InFlight' /\ Fences'
      /\ \A q \in Member \ {p} : PE_size > 1 /\ pSync'[q][0] = pSync[q][0] => Flags(q)'
  <2>1. Rank[l] >= 3 => PE_size = 1  BY <1>1, <1>5
  <2>2. PE_size = 1 => \A side \in DOMAIN Side : Kid(calls[p], p, side) = NoPE
    BY <1>1, LoneHasNone
  <2>3. l \notin {"fence_left", "fence_right"}  BY <1>1
  <2>4. calls[p] > 0 /\ (Rank[l] >= 9 => Rank[l] >= 3)  BY <1>1, <1>5
  <2>. QED  BY <1>1, <1>2, <2>1, <2>2, <2>3, <2>4, QuietMove
<1>7. Sources'
  BY <1>1, <1>2 DEF Sources, IsRoot, RootPE
<1>8. ASSUME PE_size > 1, NEW q \in Member PROVE Flags(q)' /\ Counters(q)'
  <2>1. CASE q # p
    <3>1. Rank[l] < 10  BY <1>1, <1>5, <1>8
    <3>. QED  BY <1>2, <1>6, <1>8, <2>1, <3>1, CountsAfter
  <2>2. CASE q = p
    <3>1. Flags(q)'  BY <1>1, <1>2, <1>8, <2>2 DEF Flags
    <3>2. ASSUME NEW side \in DOMAIN Side PROVE Has(calls[p], p, side)' = 0
      <4>1. ASSUME NEW n, n = calls[p], NEW c, c = Kid(n, p, side), c # NoPE
            PROVE  ~Reported(c, n)'
        <5>1. ~Flagged(p, calls[p], side)  BY <1>1, <1>5 DEF Flagged, Reached
        <5>2. ~Reported(c, n)  BY <1>1, <4>1, <5>1, NotFedNotReceived
        <5>3. c \in Member  BY <1>1, <4>1, Kids
        <5>4. Rank[l] \in 1 .. 9 /\ 10 \in 1 .. 10 /\ n \in 1 .. MaxCalls
          BY <1>1, <1>5, <1>8, <4>1
        <5>5. Reached(c, n, 10)' <=>
                Reached(c, n, 10) \/ (c = p /\ calls[p] = n /\ Rank[l] >= 10)
          BY <1>2, <5>3, <5>4, ReachedAfter
        <5>. QED  BY <5>2, <5>4, <5>5 DEF Reported
      <4>2. ASSUME NEW n, n = calls[p] PROVE Has(n, p, side)' = 0
        BY <1>2, <4>1, <4>2, KidAfter DEF Has
      <4>. QED  BY <1>2, <4>2
    <3>3. "left" \in DOMAIN Side /\ "right" \in DOMAIN Side  BY DEF Side
    <3>4. Has(calls[p], p, "left")' = 0 /\ Has(calls[p], p, "right")' = 0  BY <3>2, <3>3
    <3>5. l \notin {"enter", "report", "outside"}  BY <1>1, <1>8
    <3>6. pSync'[q][1] = 0 /\ pc'[q] = l /\ calls'[q] = calls[p]
      BY <1>2, <2>2 DEF NotReady
    <3>7. Counters(q)'  BY <2>2, <3>4, <3>5, <3>6 DEF Counters
    <3>. QED  BY <3>1, <3>7
  <2>. QED  BY <2>1, <2>2
<1>. QED  BY <1>3, <1>4, <1>6, <1>7, <1>8

\* Steps of a PE that is on its way through its call.
LEMMA OnTheWay ==
  ASSUME TreeIInv, NEW p \in Member, NEW l, TreeMoves(p, l), PE_size > 1,
         pc[p] \in {"root", "receive", "left", "right", "fed"},
         l \in {"left", "right", "fed", "count"},
         l = "fed" => ~IsRoot(p),
         pc[p] = "receive" => pSync[p][0] = IsReady,
         pSync' = [pSync EXCEPT ![p] = [@ EXCEPT ![0] = SYNC]],
         \A q \in Member \ {p} : source'[q] = source[q],
         source' \in [Member -> Nat],
         l \in {"left", "right"} => source'[p] = calls[p],
         target' = target, flight' = flight
  PROVE  TreeIInv'
<1>. USE DEF TreeIInv
<1>1. /\ calls[p] \in 1 .. MaxCalls /\ calls' = calls /\ roots' = roots
      /\ \A q \in Member : pc'[q] = IF q = p THEN l ELSE pc[q]
  BY DEF PcOK, TreeTypeOK, TreeMoves
<1>2. pSync' \in [Member -> [{0, 1} -> Int]] /\ \A q \in Member :
        /\ pSync'[q][1] = pSync[q][1]
        /\ pSync'[q][0] = IF q = p THEN SYNC ELSE pSync[q][0]
  BY DEF TreeTypeOK, SYNC
<1>3. /\ TreeTypeOK'
  BY <1>1, <1>2 DEF TreeTypeOK, TreeMoves
<1>4. PcOK'
  BY <1>1 DEF PcOK, IsRoot, RootPE
<1>5. Rank["root"] = 2 /\ Rank["receive"] = 2 /\ Rank["left"] = 3 /\ Rank["right"] = 5
      /\ Rank["fed"] = 7 /\ Rank["count"] = 8
  BY DEF Rank
<1>6. /\ Ordered' /\ Uniform' /\ Targets' /\ InFlight' /\ Fences'
      /\ \A q \in Member \ {p} : PE_size > 1 /\ pSync'[q][0] = pSync[q][0] => Flags(q)'
  <2>1. Rank[l] < 9  BY <1>5
  <2>2. pc[p] \notin {"fence_left", "fence_right"} /\ l \notin {"fence_left", "fence_right"}
    OBVIOUS
  <2>3. Rank[pc[p]] < 3 => pc[p] \in {"root", "receive"}  BY <1>5
  <2>4. Rank[l] \in Int /\ calls[p] > 0  BY <1>1, <1>5
  <2>. QED  BY <2>1, <2>2, <2>3, <2>4, QuietMove
<1>7. Sources'
  BY <1>1 DEF Sources, IsRoot, RootPE
<1>8. ASSUME NEW q \in Member PROVE Flags(q)'
  <2>1. CASE q # p  BY <1>2, <1>6, <2>1
  <2>2. CASE q = p  BY <1>1, <1>2, <2>2 DEF Flags
  <2>. QED  BY <2>1, <2>2
<1>9. ASSUME NEW q \in Member PROVE Counters(q)'
  <2>1. Rank[l] < 10  BY <1>5
  <2>. QED  BY <1>1, <1>2, <2>1, CountsAfter
<1>. QED  BY <1>3, <1>4, <1>6, <1>7, <1>8, <1>9

\* The root has its data from the start.
LEMMA RootStartStep == ASSUME TreeIInv, NEW p \in Member, RootStart(p) PROVE TreeIInv'
<1>1. PE_size > 1 /\ pc[p] = "root" /\ IsRoot(p)
  BY TreeConstants DEF RootStart, TreeIInv, PcOK
<1>2. TreeMoves(p, "left")  BY DEF RootStart, TreeMoves, Goto, Rank
<1>3. source'[p] = calls[p]  BY <1>1 DEF RootStart, TreeIInv, Sources
<1>. QED  BY <1>1, <1>2, <1>3, OnTheWay DEF RootStart, SetSync, TreeIInv, TreeTypeOK

\* A PE that finds its flag up has the data of this call.
LEMMA ReceiveStep == ASSUME TreeIInv, NEW p \in Member, Receive(p) PROVE TreeIInv'
<1>1. PE_size > 1 /\ pc[p] = "receive"
  BY TreeConstants DEF Receive, TreeIInv, PcOK
<1>2. TreeMoves(p, "left")  BY DEF Receive, TreeMoves, Goto, Rank
<1>3. target[p] = calls[p]  BY <1>1 DEF Receive, TreeIInv, Flags, IsReady, NotReady
<1>4. source' \in [Member -> Nat] /\ source'[p] = calls[p]
        /\ \A q \in Member \ {p} : source'[q] = source[q]
  BY <1>3 DEF Receive, TreeIInv, TreeTypeOK
<1>. QED  BY <1>1, <1>2, <1>4, OnTheWay DEF Receive, SetSync

\* Where a PE goes after a child.
LEMMA AfterIs ==
  ASSUME NEW p, NEW side \in DOMAIN Side
  PROVE  /\ side = "left" => After(p, side) = "right"
         /\ side = "right" => After(p, side) = IF IsRoot(p) THEN "count" ELSE "fed"
         /\ side \in {"left", "right"}
BY DEF After, Side

\* A PE without a child on this side goes on.
LEMMA NoChildStep == ASSUME TreeIInv, NEW p \in Member, NoChild(p) PROVE TreeIInv'
<1>. DEFINE l == After(p, pc[p])
<1>1. /\ PE_size > 1 /\ pc[p] \in {"left", "right"} /\ l \in {"right", "count", "fed"}
      /\ l = "fed" => ~IsRoot(p)
      /\ pc[p] = "left" => l = "right"
      /\ l = "right" => pc[p] = "left"
  BY TreeConstants, AfterIs DEF NoChild, TreeIInv, PcOK
<1>2. TreeMoves(p, l)
  <2>1. /\ Rank["left"] = 3 /\ Rank["right"] = 5 /\ Rank["fed"] = 7 /\ Rank["count"] = 8
        /\ {"left", "right", "fed", "count"} \subseteq DOMAIN Rank
    BY DEF Rank
  <2>. HIDE DEF l
  <2>2. Rank[l] > Rank[pc[p]] /\ l \in DOMAIN Rank  BY <1>1, <2>1
  <2>. QED  BY <2>2 DEF NoChild, TreeMoves, Goto, l
<1>3. l = "right" => source[p] = calls[p]  BY <1>1 DEF TreeIInv, Sources
<1>4. pSync' = [pSync EXCEPT ![p] = [@ EXCEPT ![0] = SYNC]]
  <2>1. pSync[p][0] = SYNC  BY <1>1 DEF TreeIInv, Flags
  <2>. QED  BY <2>1 DEF NoChild, TreeIInv, TreeTypeOK
<1>. HIDE DEF l
<1>5. source' = source /\ target' = target /\ flight' = flight  BY DEF NoChild
<1>. QED  BY <1>1, <1>2, <1>3, <1>4, <1>5, OnTheWay DEF TreeIInv, TreeTypeOK

\* Resetting the flag once more changes nothing.
LEMMA FedStep == ASSUME TreeIInv, NEW p \in Member, Fed(p) PROVE TreeIInv'
<1>1. PE_size > 1 /\ pc[p] = "fed"
  BY TreeConstants DEF Fed, TreeIInv, PcOK
<1>2. TreeMoves(p, "count")  BY DEF Fed, TreeMoves, Goto, Rank
<1>. QED  BY <1>1, <1>2, OnTheWay DEF Fed, SetSync, TreeIInv, TreeTypeOK

\* A PE that finds the count of its children has seen all of them report.
LEMMA CountStep == ASSUME TreeIInv, NEW p \in Member, Count(p) PROVE TreeIInv'
<1>. USE DEF TreeIInv
<1>. DEFINE l == IF IsRoot(p) THEN "outside" ELSE "report"
<1>1. /\ PE_size > 1 /\ pc[p] = "count" /\ calls[p] \in 1 .. MaxCalls
      /\ l \in {"outside", "report"} /\ (l = "report" => ~IsRoot(p))
  BY TreeConstants DEF Count, PcOK, TreeTypeOK
<1>2. Rank["count"] = 8 /\ Rank["report"] = 9 /\ Rank["outside"] = 10
      /\ {"count", "report", "outside"} \subseteq DOMAIN Rank
  BY DEF Rank
<1>3. pc' = [pc EXCEPT ![p] = l]  BY DEF Count, Goto
<1>. HIDE DEF l
<1>4. /\ TreeMoves(p, l)
      /\ source' = source /\ target' = target /\ flight' = flight
           /\ calls' = calls /\ roots' = roots
      /\ \A q \in Member : pc'[q] = IF q = p THEN l ELSE pc[q]
  BY <1>1, <1>2, <1>3 DEF Count, TreeMoves, TreeTypeOK
<1>5. pSync' \in [Member -> [{0, 1} -> Int]] /\ \A q \in Member :
        /\ pSync'[q][0] = pSync[q][0]
        /\ pSync'[q][1] = IF q = p THEN SYNC ELSE pSync[q][1]
  BY DEF Count, SetSync, TreeTypeOK, SYNC
<1>6. ASSUME NEW side \in DOMAIN Side, Kid(calls[p], p, side) # NoPE
      PROVE  Reported(Kid(calls[p], p, side), calls[p])
  <2>1. Counters(p)  BY <1>1
  <2>2. pSync[p][1] = Has(calls[p], p, "left") + Has(calls[p], p, "right")
    BY <1>1, <2>1 DEF Counters
  <2>3. Kid(calls[p], p, "left") = NoPE => Kid(calls[p], p, "right") = NoPE
    BY <1>1, Kids
  <2>4. /\ Place(p).child_r = Kid(calls[p], p, "right")
        /\ Place(p).child_l = Kid(calls[p], p, "left")
        /\ side \in {"left", "right"}
    BY DEF Place, Kid, PlaceIn, Side
  <2>5. no_children(p) = IF Kid(calls[p], p, "right") # NoPE THEN 2
                         ELSE IF Kid(calls[p], p, "left") # NoPE THEN 1 ELSE 0
    BY <2>4 DEF no_children
  <2>6. no_children(p) > 0  BY <1>6, <2>3, <2>4, <2>5
  <2>7. Has(calls[p], p, "left") + Has(calls[p], p, "right") = no_children(p)
    BY <2>2, <2>6 DEF Count
  <2>. QED  BY <1>6, <2>3, <2>4, <2>5, <2>7 DEF Has
<1>7. /\ Ordered' /\ Uniform' /\ Targets' /\ InFlight' /\ Fences'
      /\ \A q \in Member \ {p} : PE_size > 1 /\ pSync'[q][0] = pSync[q][0] => Flags(q)'
  <2>1. pc[p] \notin {"fence_left", "fence_right"} /\ l \notin {"fence_left", "fence_right"}
    BY <1>1
  <2>. QED  BY <1>1, <1>2, <1>4, <1>6, <2>1, QuietMove
<1>8. TreeTypeOK' /\ PcOK' /\ Sources'
  BY <1>1, <1>2, <1>4, <1>5 DEF TreeTypeOK, PcOK, Sources, TreeMoves, IsRoot, RootPE
<1>9. ASSUME NEW q \in Member PROVE Flags(q)' /\ Counters(q)'
  <2>1. CASE q # p
    <3>1. Counters(q)'
      <4>1. CASE l = "report"  BY <1>2, <1>4, <1>5, <1>1, <2>1, <4>1, CountsAfter
      <4>2. CASE l = "outside"
        <5>1. IsRoot(p)  BY <1>1, <4>2 DEF l
        <5>2. CASE pc[q] \in {"enter", "report", "outside"}
          BY <1>1, <1>4, <1>5, <2>1, <5>2 DEF Counters
        <5>3. CASE pc[q] \notin {"enter", "report", "outside"}
          <6>1. calls[q] \in 1 .. MaxCalls  BY <5>3 DEF PcOK, TreeTypeOK
          <6>2. ASSUME NEW n, n = calls[q], NEW side \in DOMAIN Side
                PROVE  Has(n, q, side)' = Has(n, q, side)
            <7>1. ASSUME NEW c, c = Kid(n, q, side), c # NoPE
                  PROVE  Reported(c, n)' <=> Reported(c, n)
              <8>1. c \in Member /\ c # RootPE(n)  BY <6>1, <6>2, <7>1, Kids
              <8>2. ~ (c = p /\ calls[p] = n)  BY <5>1, <8>1 DEF IsRoot
              <8>3. n \in 1 .. MaxCalls /\ 10 \in 1 .. 10  BY <6>1, <6>2
              <8>4. Reached(c, n, 10)' <=>
                      Reached(c, n, 10) \/ (c = p /\ calls[p] = n /\ Rank[l] >= 10)
                BY <1>4, <8>1, <8>3, ReachedAfter
              <8>. QED  BY <8>2, <8>4 DEF Reported
            <7>. QED  BY <1>4, <7>1, KidAfter DEF Has
          <6>3. "left" \in DOMAIN Side /\ "right" \in DOMAIN Side  BY DEF Side
          <6>4. ASSUME NEW n, n = calls[q]
                PROVE  Has(n, q, "left")' = Has(n, q, "left")
                  /\ Has(n, q, "right")' = Has(n, q, "right")
            BY <6>2, <6>3, <6>4
          <6>5. Counters(q)  BY <1>1
          <6>. QED  BY <1>4, <1>5, <2>1, <5>3, <6>4, <6>5 DEF Counters
        <5>. QED  BY <5>2, <5>3
      <4>. QED  BY <1>1, <4>1, <4>2
    <3>. QED  BY <1>1, <1>5, <1>7, <2>1, <3>1
  <2>2. CASE q = p
    <3>1. Flags(p)  BY <1>1
    <3>. QED  BY <1>1, <1>4, <1>5, <2>2, <3>1 DEF Flags, Counters
  <2>. QED  BY <2>1, <2>2
<1>. QED  BY <1>7, <1>8, <1>9

\* A PE counts itself on its parent, which still waits for it.
LEMMA ReportStep == ASSUME TreeIInv, NEW p \in Member, Report(p) PROVE TreeIInv'
<1>. USE DEF TreeIInv
<1>1. /\ PE_size > 1 /\ pc[p] = "report" /\ calls[p] \in 1 .. MaxCalls /\ ~IsRoot(p)
  <2>1. pc[p] = "report"  BY DEF Report
  <2>2. ~IsRoot(p) /\ calls[p] # 0 /\ PE_size # 1  BY <2>1 DEF PcOK
  <2>. QED  BY <2>1, <2>2, TreeConstants DEF TreeTypeOK
<1>2. PICK n \in 1 .. MaxCalls : n = calls[p]  BY <1>1
<1>3. PICK q \in Member :
        q = PlaceIn(n, p).parent /\ \E side \in DOMAIN Side : Kid(n, q, side) = p
  BY <1>1, <1>2, Kids DEF IsRoot
<1>4. PICK side \in DOMAIN Side : Kid(n, q, side) = p  BY <1>3
<1>5. /\ Rank["report"] = 9 /\ Rank["outside"] = 10 /\ "outside" \in DOMAIN Rank
      /\ Rank["enter"] = 1
  BY DEF Rank
<1>6. p # NoPE /\ side \in {"left", "right"}  BY Kids, <1>2 DEF Side
<1>7. calls[q] = n /\ Rank[pc[q]] \in 5 .. 8
  <2>1. Received(p, n) /\ ~Reported(p, n)
    BY <1>1, <1>2, <1>5 DEF Received, Reported, Reached
  <2>2. Flagged(q, n, side) /\ ~Counted(q, n)  BY <1>4, <1>6, <2>1 DEF Ordered
  <2>3. Rank[pc[q]] \in 1 .. 10  BY RankType DEF TreeTypeOK
  <2>4. calls[q] \in Nat  BY DEF TreeTypeOK
  <2>. QED  BY <2>2, <2>3, <2>4 DEF Flagged, Counted, Reached
<1>8. q # p /\ pc[q] \notin {"enter", "report", "outside"}  BY <1>1, <1>5, <1>7
<1>9. /\ TreeMoves(p, "outside")
      /\ source' = source /\ target' = target /\ flight' = flight
           /\ calls' = calls /\ roots' = roots
      /\ \A r \in Member : pc'[r] = IF r = p THEN "outside" ELSE pc[r]
  BY <1>1, <1>5 DEF Report, TreeMoves, Goto, TreeTypeOK
<1>10. pSync' \in [Member -> [{0, 1} -> Int]] /\ \A r \in Member :
        /\ pSync'[r][0] = pSync[r][0]
        /\ pSync'[r][1] = IF r = q THEN pSync[q][1] + 1 ELSE pSync[r][1]
  <2>1. pSync' = [pSync EXCEPT ![q] = [@ EXCEPT ![1] = pSync[q][1] + 1]]
    BY <1>2, <1>3 DEF Report, SetSync, Place, PlaceIn
  <2>. QED  BY <2>1 DEF TreeTypeOK
<1>11. /\ Ordered' /\ Uniform' /\ Targets' /\ InFlight' /\ Fences'
       /\ \A r \in Member \ {p} : PE_size > 1 /\ pSync'[r][0] = pSync[r][0] => Flags(r)'
  BY <1>1, <1>5, <1>9, QuietMove
<1>12. TreeTypeOK' /\ PcOK' /\ Sources'
  BY <1>1, <1>5, <1>9, <1>10 DEF TreeTypeOK, PcOK, Sources, TreeMoves, IsRoot, RootPE
<1>13. ASSUME NEW c \in Member, NEW m \in 1 .. MaxCalls
       PROVE  Reported(c, m)' <=> Reported(c, m) \/ (c = p /\ m = n)
  BY <1>2, <1>5, <1>9, ReachedAfter DEF Reported
<1>14. ASSUME NEW r \in Member PROVE Counters(r)'
  <2>0. Counters(r)  BY <1>1
  <2>1. CASE pc[r] \in {"enter", "report", "outside"}
    BY <1>8, <1>9, <1>10, <2>0, <2>1 DEF Counters
  <2>2. CASE pc[r] \notin {"enter", "report", "outside"}
    <3>1. r # p /\ calls[r] \in 1 .. MaxCalls  BY <1>1, <2>2 DEF PcOK, TreeTypeOK
    <3>2. ASSUME NEW m, m = calls[r], NEW s \in DOMAIN Side
          PROVE  Has(m, r, s)' = IF r = q /\ s = side THEN 1 ELSE Has(m, r, s)
      <4>1. Kid(m, r, s) # NoPE => Kid(m, r, s) \in Member  BY <3>1, <3>2, Kids
      <4>2. Kid(m, r, s) = p /\ m = n <=> r = q /\ s = side
        BY <1>4, <1>6, <1>7, <3>2, Kids
      <4>. QED  BY <1>6, <1>9, <1>13, <3>1, <3>2, <4>1, <4>2, KidAfter DEF Has
    <3>3. Has(n, q, side) = 0
      <4>1. ~Reported(p, n)  BY <1>1, <1>2, <1>5 DEF Reported, Reached
      <4>. QED  BY <1>4, <4>1 DEF Has
    <3>4. "left" \in DOMAIN Side /\ "right" \in DOMAIN Side  BY DEF Side
    <3>5. ASSUME NEW m, m = calls[r]
          PROVE  Has(m, r, "left")' + Has(m, r, "right")' =
                   IF r = q THEN Has(m, r, "left") + Has(m, r, "right") + 1
                            ELSE Has(m, r, "left") + Has(m, r, "right")
      <4>1. \A s \in DOMAIN Side : Has(m, r, s) \in {0, 1}  BY DEF Has
      <4>2. r = q => m = n  BY <1>7, <3>5
      <4>3. /\ Has(m, r, "left")' = IF r = q /\ "left" = side THEN 1 ELSE Has(m, r, "left")
            /\ Has(m, r, "right")' = IF r = q /\ "right" = side THEN 1 ELSE Has(m, r, "right")
        BY <3>2, <3>4, <3>5
      <4>. QED  BY <1>6, <3>3, <3>4, <4>1, <4>2, <4>3
    <3>. QED  BY <1>9, <1>10, <2>0, <2>2, <3>1, <3>5 DEF Counters
  <2>. QED  BY <2>1, <2>2
<1>15. ASSUME NEW r \in Member PROVE Flags(r)'
  <2>1. CASE r # p  BY <1>1, <1>10, <1>11, <2>1
  <2>2. CASE r = p
    <3>1. Flags(p)  BY <1>1
    <3>. QED  BY <1>1, <1>9, <1>10, <2>2, <3>1 DEF Flags
  <2>. QED  BY <2>1, <2>2
<1>. QED  BY <1>11, <1>12, <1>14, <1>15

\* The child that a PE finds waiting is in the same call: it is not ahead, for it
\* gets there only with this PE's data, and not behind, for this PE has seen it
\* report in every call before that has the same tree.
LEMMA ChildIsThere ==
  ASSUME TreeIInv, PE_size > 1, NEW p \in Member, pc[p] \in DOMAIN Side,
         Child(p) # NoPE, pSync[Child(p)][0] = NotReady,
         NEW c, c = Child(p)
  PROVE  /\ calls[p] \in 1 .. MaxCalls /\ c = Kid(calls[p], p, pc[p])
         /\ c \in Member /\ calls[c] = calls[p] /\ pc[c] = "receive"
<1>. USE DEF TreeIInv
<1>1. pc[p] \in {"left", "right"} /\ Rank["left"] = 3 /\ Rank["right"] = 5
        /\ Rank["receive"] = 2
      /\ Rank["root"] = 2
  BY DEF Side, Rank
<1>2. calls[p] \in 1 .. MaxCalls
  <2>1. calls[p] # 0  BY <1>1 DEF PcOK
  <2>. QED  BY <2>1, TreeConstants DEF TreeTypeOK
<1>3. c = Kid(calls[p], p, pc[p])  BY DEF Child, Place, Kid, PlaceIn
<1>4. c \in Member /\ c # RootPE(calls[p])
  <2>1. PICK n \in 1 .. MaxCalls : n = calls[p]  BY <1>2
  <2>2. PICK side \in DOMAIN Side : side = pc[p]  OBVIOUS
  <2>3. c = Kid(n, p, side) /\ c # NoPE  BY <1>3, <2>1, <2>2
  <2>4. Kid(n, p, side) \in Member /\ Kid(n, p, side) # RootPE(n)  BY <2>3, Kids
  <2>. QED  BY <2>1, <2>3, <2>4
<1>5. pc[c] \in {"root", "receive"}  BY <1>4 DEF Flags, SYNC, NotReady
<1>6. calls[c] \in 1 .. MaxCalls
  <2>1. calls[c] # 0  BY <1>4, <1>5 DEF PcOK
  <2>. QED  BY <1>4, <2>1, TreeConstants DEF TreeTypeOK
<1>7. calls[c] <= calls[p]
  <2>1. ~Flagged(p, calls[p], pc[p])  BY <1>1, <1>2 DEF Flagged, Reached
  <2>2. ~Received(c, calls[p])  BY <1>2, <1>3, <2>1, NotFedNotReceived
  <2>. QED  BY <1>2, <1>6, <2>2 DEF Received, Reached
<1>8. ~(calls[c] < calls[p])
  <2>. SUFFICES ASSUME NEW m \in 1 .. MaxCalls, m = calls[c], m < calls[p] PROVE FALSE
    BY <1>6
  <2>1. ~Reported(c, m)  BY <1>1, <1>5 DEF Reported, Reached
  <2>2. roots[m] = roots[calls[p]]
    <3>1. m \in 1 .. calls[p]  BY <1>2
    <3>. QED  BY <1>4, <2>1, <3>1 DEF Uniform
  <2>3. Kid(m, p, pc[p]) = c  BY <1>3, <2>2 DEF Kid, PlaceIn
  <2>4. Counted(p, m)  BY <1>2 DEF Counted, Reached
  <2>. QED  BY <2>1, <2>3, <2>4 DEF Ordered
<1>9. calls[c] = calls[p]  BY <1>2, <1>6, <1>7, <1>8
<1>10. pc[c] # "root"  BY <1>4, <1>9 DEF PcOK, IsRoot
<1>. QED  BY <1>2, <1>3, <1>4, <1>5, <1>9, <1>10

\* A PE puts to a child that waits.
LEMMA PutMove ==
  ASSUME TreeIInv, NEW p \in Member, NEW l, TreeMoves(p, l), PE_size > 1,
         NEW side \in DOMAIN Side, NEW n \in 1 .. MaxCalls, n = calls[p],
         NEW c \in Member, c = Kid(n, p, side), calls[c] = n, pc[c] = "receive",
         pSync[c][0] = NotReady,
         pc[p] \in {"left", "right", "fence_left", "fence_right"},
         l = "fed" => ~IsRoot(p),
         NEW m0, flight' = flight \cup {m0},
         \/ m0 = Data(p, c, n) /\ l = Fence[side] /\ pc[p] = side
         \/ /\ m0 = Flag(p, c) /\ l \in {"right", "fed", "count"} /\ Flagged(p, n, side)'
            /\ target[c] = n /\ \A m \in flight : m.src # p,
         source' = source, target' = target, pSync' = pSync
  PROVE  TreeIInv'
<1>. USE DEF TreeIInv
<1>1. /\ DOMAIN Side = {"left", "right"}
      /\ Fence["left"] = "fence_left" /\ Fence["right"] = "fence_right"
      /\ Rank["left"] = 3 /\ Rank["fence_left"] = 4 /\ Rank["right"] = 5
           /\ Rank["fence_right"] = 6
      /\ Rank["fed"] = 7 /\ Rank["count"] = 8
  BY DEF Side, Fence, Rank
<1>2. /\ calls' = calls /\ roots' = roots
      /\ \A q \in Member : pc'[q] = IF q = p THEN l ELSE pc[q]
      /\ l \in {"fence_left", "fence_right", "right", "fed", "count"}
  BY <1>1 DEF TreeTypeOK, TreeMoves
<1>3. ASSUME NEW q \in Member, NEW i \in 1 .. MaxCalls, NEW k \in 1 .. 10
      PROVE  Reached(q, i, k)' <=>
        Reached(q, i, k) \/ (q = p /\ calls[p] = i /\ Rank[l] >= k)
  BY ReachedAfter
<1>4. c # p  BY <1>2
<1>5. TreeTypeOK' /\ PcOK'
  BY <1>2 DEF TreeTypeOK, PcOK, TreeMoves, IsRoot, RootPE
<1>6. Ordered' /\ Uniform'
  <2>1. Rank[pc[p]] >= 3 /\ Rank[l] < 9  BY <1>1, <1>2
  <2>2. Rank[pc[p]] \in 1 .. 10 /\ Rank[l] \in 1 .. 10  BY RankType DEF TreeMoves, TreeTypeOK
  <2>. QED  BY <2>1, <2>2, OrderedAfter
<1>7. Sources'
  <2>1. source[p] = calls[p]  BY DEF Sources
  <2>. QED  BY <1>2, <2>1 DEF Sources, IsRoot, RootPE
<1>8. Targets'
  <2>1. ASSUME NEW q \in Member, NEW i \in 1 .. MaxCalls
        PROVE  Received(q, i)' <=> Received(q, i)
    <3>1. q = p /\ calls[p] = i => Reached(q, i, 3)  BY <1>1 DEF Reached
    <3>2. 3 \in 1 .. 10  OBVIOUS
    <3>3. Reached(q, i, 3)' <=>
            Reached(q, i, 3) \/ (q = p /\ calls[p] = i /\ Rank[l] >= 3)
      BY <1>3, <3>2
    <3>. QED  BY <3>1, <3>3 DEF Received
  <2>. QED  BY <1>2, <2>1 DEF Targets, RootPE
<1>9. InFlight'
  <2>. SUFFICES ASSUME NEW m \in flight \cup {m0}
                PROVE  /\ m.src \in Member /\ m.dst \in Member
                       /\ calls[m.src] = calls[m.dst] /\ pc'[m.dst] = "receive"
                       /\ \E s \in DOMAIN Side :
                            /\ m.dst = Kid(calls[m.src], m.src, s)
                            /\ \/ m = Data(m.src, m.dst, calls[m.src])
                                    /\ pc'[m.src] = Fence[s]
                               \/ /\ m = Flag(m.src, m.dst)
                                       /\ Flagged(m.src, calls[m.src], s)'
                                  /\ target[m.dst] = calls[m.src]
    BY <1>2, KidAfter DEF InFlight
  <2>1. CASE m = m0
    <3>1. m0.src = p /\ m0.dst = c  BY DEF Data, Flag
    <3>. QED  BY <1>2, <1>4, <2>1, <3>1
  <2>2. CASE m \in flight
    <3>1. PICK s \in DOMAIN Side :
          /\ m.src \in Member /\ m.dst \in Member
          /\ calls[m.src] = calls[m.dst] /\ pc[m.dst] = "receive"
          /\ m.dst = Kid(calls[m.src], m.src, s)
          /\ \/ m = Data(m.src, m.dst, calls[m.src]) /\ pc[m.src] = Fence[s]
             \/ /\ m = Flag(m.src, m.dst) /\ Flagged(m.src, calls[m.src], s)
                /\ target[m.dst] = calls[m.src]
      BY <2>2 DEF InFlight
    <3>2. m.dst # p  BY <3>1
    <3>3. pc[m.src] = Fence[s] => m.src # p  BY <1>1, <2>2
    <3>4. calls[m.src] \in 1 .. MaxCalls
      <4>1. calls[m.dst] # 0  BY <3>1 DEF PcOK
      <4>. QED  BY <3>1, <4>1, TreeConstants DEF TreeTypeOK
    <3>5. Flagged(m.src, calls[m.src], s) => Flagged(m.src, calls[m.src], s)'
      BY <1>2, <1>3, <3>1, <3>4 DEF Flagged
    <3>. QED  BY <1>2, <3>1, <3>2, <3>3, <3>5
  <2>. QED  BY <2>1, <2>2
<1>10. Fences'
  <2>. SUFFICES ASSUME NEW q \in Member, NEW s \in DOMAIN Side, pc'[q] = Fence[s],
                       NEW d, d = Kid(calls[q], q, s)
                PROVE  /\ d # NoPE /\ calls[d] = calls[q] /\ pc'[d] = "receive"
                       /\ Data(q, d, calls[q]) \in flight' \/ target[d] = calls[q]
    BY <1>2, KidAfter DEF Fences
  <2>1. CASE q = p
    <3>1. l = Fence[s]  BY <1>2, <2>1
    <3>2. m0 = Data(p, c, n) /\ s = side  BY <1>1, <3>1
    <3>3. c # NoPE  BY Kids
    <3>. QED  BY <1>2, <1>4, <2>1, <3>2, <3>3
  <2>2. CASE q # p
    <3>1. /\ d # NoPE /\ calls[d] = calls[q] /\ pc[d] = "receive"
          /\ Data(q, d, calls[q]) \in flight \/ target[d] = calls[q]
      BY <1>2, <2>2 DEF Fences
    <3>2. calls[q] \in 1 .. MaxCalls
      <4>1. calls[q] # 0  BY <1>1, <1>2, <2>2 DEF PcOK
      <4>. QED  BY <4>1, TreeConstants DEF TreeTypeOK
    <3>3. d \in Member  BY <3>1, <3>2, Kids
    <3>4. d # p  BY <3>1
    <3>. QED  BY <1>2, <3>1, <3>3, <3>4
  <2>. QED  BY <2>1, <2>2
<1>11. ASSUME NEW q \in Member PROVE Flags(q)'
  <2>1. Flags(q)  BY <1>11
  <2>2. CASE pc'[q] = "receive" /\ pSync[q][0] # NotReady
    <3>1. q # p /\ pc[q] = "receive" /\ q # c  BY <1>2, <2>2
    <3>2. calls[q] \in 1 .. MaxCalls
      <4>1. calls[q] # 0  BY <3>1 DEF PcOK
      <4>. QED  BY <4>1, TreeConstants DEF TreeTypeOK
    <3>3. ASSUME NEW r \in Member, NEW s \in DOMAIN Side, Flagged(r, calls[q], s)
          PROVE  Flagged(r, calls[q], s)'
      BY <1>2, <1>3, <3>2, <3>3 DEF Flagged
    <3>4. m0.dst # q  BY <3>1 DEF Data, Flag
    <3>. QED  BY <1>2, <2>1, <2>2, <3>1, <3>3, <3>4, KidAfter DEF Flags
  <2>3. CASE pc'[q] # "receive" \/ pSync[q][0] = NotReady
    <3>1. pc'[q] = "root" => pc[q] = "root" /\ q # p  BY <1>2
    <3>2. pc'[q] \notin {"root", "receive"} => pc[q] \notin {"root", "receive"}  BY <1>2
    <3>. QED  BY <2>1, <2>3, <3>1, <3>2 DEF Flags
  <2>. QED  BY <2>2, <2>3
<1>12. ASSUME NEW q \in Member PROVE Counters(q)'
  <2>1. Rank[l] < 10  BY <1>1, <1>2
  <2>. QED  BY <1>2, <2>1, CountsAfter
<1>. QED  BY <1>5, <1>6, <1>7, <1>8, <1>9, <1>10, <1>11, <1>12

\* Data is put to a child that has entered the same call.
LEMMA PutDataStep == ASSUME TreeIInv, NEW p \in Member, PutData(p) PROVE TreeIInv'
<1>. USE DEF TreeIInv
<1>. DEFINE side == pc[p]
            l == Fence[side]
<1>1. PE_size > 1 /\ side \in DOMAIN Side /\ side \in {"left", "right"}
  <2>1. side \in DOMAIN Side /\ side \in {"left", "right"}  BY DEF PutData, Side
  <2>2. PE_size # 1  BY <2>1 DEF PcOK
  <2>. QED  BY <2>1, <2>2, TreeConstants
<1>2. PICK c : c = Child(p)  OBVIOUS
<1>3. /\ calls[p] \in 1 .. MaxCalls /\ c = Kid(calls[p], p, side)
      /\ c \in Member /\ calls[c] = calls[p] /\ pc[c] = "receive"
  BY <1>1, <1>2, ChildIsThere DEF PutData
<1>4. TreeMoves(p, l)
  <2>1. l \in DOMAIN Rank /\ Rank[l] > Rank[pc[p]]  BY <1>1 DEF Fence, Rank
  <2>. QED  BY <2>1 DEF PutData, TreeMoves, Goto
<1>5. l \in {"fence_left", "fence_right"}  BY <1>1 DEF Fence
<1>6. flight' = flight \cup {Data(p, c, calls[p])}
  <2>1. source[p] = calls[p]  BY <1>1 DEF Sources
  <2>. QED  BY <1>2, <2>1 DEF PutData, Data
<1>7. PICK n \in 1 .. MaxCalls : n = calls[p]  BY <1>3
<1>8. PICK s \in DOMAIN Side : s = side  BY <1>1
<1>9. PICK m0 : m0 = Data(p, c, n)  OBVIOUS
<1>10. pSync[c][0] = NotReady /\ source' = source /\ target' = target
         /\ pSync' = pSync
  BY <1>2 DEF PutData
<1>. QED  BY <1>1, <1>3, <1>4, <1>5, <1>6, <1>7, <1>8, <1>9, <1>10, PutMove

\* The data has landed when the flag is put.
LEMMA PutFlagStep == ASSUME TreeIInv, NEW p \in Member, PutFlag(p) PROVE TreeIInv'
<1>. USE DEF TreeIInv
<1>1. PICK side \in DOMAIN Side : pc[p] = Fence[side] /\ Fenced[pc[p]] = side
  BY DEF PutFlag, Fenced, Fence, Side
<1>. DEFINE l == After(p, side)
<1>2. side \in {"left", "right"} /\ pc[p] \in {"fence_left", "fence_right"}
  BY <1>1 DEF Side, Fence
<1>3. PE_size > 1
  <2>1. PE_size # 1  BY <1>2 DEF PcOK
  <2>. QED  BY <2>1, TreeConstants
<1>4. PICK n \in 1 .. MaxCalls : n = calls[p]
  <2>1. calls[p] # 0  BY <1>2 DEF PcOK
  <2>. QED  BY <2>1, TreeConstants DEF TreeTypeOK
<1>5. PICK c : c = Kid(n, p, side)  OBVIOUS
<1>6. /\ c # NoPE /\ calls[c] = n /\ pc[c] = "receive"
      /\ Data(p, c, n) \in flight \/ target[c] = n
  BY <1>1, <1>4, <1>5 DEF Fences
<1>7. c \in Member  BY <1>4, <1>5, <1>6, Kids
<1>8. \A m \in flight : m.src # p  BY DEF PutFlag
<1>9. target[c] = n
  <2>1. Data(p, c, n).src = p  BY DEF Data
  <2>. QED  BY <1>6, <1>8, <2>1
<1>10. pSync[c][0] = NotReady
  <2>1. ~Flagged(p, n, side)  BY <1>1, <1>2, <1>4 DEF Flagged, Reached, Fence, Rank
  <2>. QED  BY <1>3, <1>4, <1>5, <1>6, <1>7, <2>1 DEF Flags
<1>11. /\ l \in {"right", "fed", "count"} /\ (l = "fed" => ~IsRoot(p))
       /\ Rank[l] > Rank[pc[p]] /\ l \in DOMAIN Rank
       /\ Rank[l] >= IF side = "left" THEN 5 ELSE 7
  BY <1>1, <1>2, AfterIs DEF Rank, Fence
<1>12. PICK k : k = l  OBVIOUS
<1>13. TreeMoves(p, k)  BY <1>1, <1>11, <1>12 DEF PutFlag, TreeMoves, Goto
<1>14. Flagged(p, n, side)'
  BY <1>2, <1>4, <1>11, <1>12, <1>13, ReachedAfter DEF Flagged
<1>15. PICK m0 : m0 = Flag(p, c)  OBVIOUS
<1>16. flight' = flight \cup {m0} /\ source' = source /\ target' = target
         /\ pSync' = pSync
  BY <1>1, <1>4, <1>5, <1>15 DEF PutFlag, Flag, Kid, PlaceIn, Place
<1>. HIDE DEF l
<1>17. /\ k \in {"right", "fed", "count"} /\ (k = "fed" => ~IsRoot(p))
       /\ pc[p] \in {"left", "right", "fence_left", "fence_right"}
  BY <1>2, <1>11, <1>12
<1>. QED
  BY <1>3, <1>4, <1>5, <1>6, <1>7, <1>8, <1>9, <1>10, <1>13, <1>14, <1>15, <1>16, <1>17, PutMove

\* A put lands: data before the flag is put, the flag when nothing else is on its
\* way to the child.
LEMMA TreeLandStep == ASSUME TreeIInv, NEW m \in flight, TreeLand(m) PROVE TreeIInv'
<1>. USE DEF TreeIInv
<1>0. PICK n \in Nat : n = calls[m.src]  BY DEF InFlight, TreeTypeOK
<1>1. PICK side \in DOMAIN Side :
        /\ m.src \in Member /\ m.dst \in Member /\ n = calls[m.src]
        /\ n = calls[m.dst] /\ pc[m.dst] = "receive"
        /\ m.dst = Kid(n, m.src, side)
        /\ \/ m = Data(m.src, m.dst, n) /\ pc[m.src] = Fence[side]
           \/ m = Flag(m.src, m.dst) /\ Flagged(m.src, n, side) /\ target[m.dst] = n
  BY <1>0 DEF InFlight
<1>2. PICK p \in Member, c \in Member : p = m.src /\ c = m.dst  BY <1>1
<1>3. n \in 1 .. MaxCalls
  <2>1. calls[c] # 0  BY <1>1, <1>2 DEF PcOK
  <2>. QED  BY <1>1, <1>2, <2>1, TreeConstants DEF TreeTypeOK
<1>4. PE_size > 1
  <2>1. PE_size # 1  BY <1>1 DEF PcOK
  <2>. QED  BY <2>1, TreeConstants
<1>5. /\ calls' = calls /\ roots' = roots /\ pc' = pc /\ source' = source
      /\ flight' = flight \ {m}
  BY DEF TreeLand
<1>6. PcOK' /\ Ordered' /\ Uniform' /\ Sources'
  BY <1>5, KidAfter
    DEF PcOK, Ordered, Uniform, Sources, IsRoot, RootPE, Received, Flagged,
    Counted, Reported, Reached
<1>7. \A q \in Member : pSync'[q][1] = pSync[q][1] => Counters(q)'
  <2>1. \A i, q, s : Has(i, q, s)' = Has(i, q, s)
    BY <1>5, KidAfter DEF Has, Reported, Reached
  <2>. QED  BY <1>4, <1>5, <2>1 DEF Counters
<1>8. \A q, i, s : Flagged(q, i, s)' <=> Flagged(q, i, s)  BY <1>5 DEF Flagged, Reached
<1>9. CASE m = Data(p, c, n)
  <2>1. target' = [target EXCEPT ![c] = n] /\ pSync' = pSync
    BY <1>9 DEF TreeLand, Data
  <2>2. \A q \in Member : target'[q] = IF q = c THEN calls[q] ELSE target[q]
    BY <1>1, <1>2, <2>1 DEF TreeTypeOK
  <2>3. TreeTypeOK'  BY <1>5, <2>1 DEF TreeTypeOK
  <2>4. Targets'
    <3>1. \A i \in 1 .. MaxCalls : Received(c, i) => n >= i
      BY <1>1, <1>2, <1>3 DEF Received, Reached
    <3>2. \A q, i : Received(q, i)' <=> Received(q, i)  BY <1>5 DEF Received, Reached
    <3>3. n <= n  OBVIOUS
    <3>. QED  BY <1>1, <1>2, <1>5, <2>2, <3>1, <3>2, <3>3 DEF Targets, RootPE
  <2>5. InFlight'
    <3>. SUFFICES ASSUME NEW o \in flight
                  PROVE  /\ o.src \in Member /\ o.dst \in Member
                         /\ calls[o.src] = calls[o.dst] /\ pc[o.dst] = "receive"
                         /\ \E s \in DOMAIN Side :
                              /\ o.dst = Kid(calls[o.src], o.src, s)
                              /\ \/ o = Data(o.src, o.dst, calls[o.src])
                                      /\ pc[o.src] = Fence[s]
                                 \/ /\ o = Flag(o.src, o.dst)
                                         /\ Flagged(o.src, calls[o.src], s)
                                    /\ target'[o.dst] = calls[o.src]
      BY <1>5, <1>8, KidAfter DEF InFlight
    <3>. QED  BY <2>2 DEF InFlight
  <2>6. Fences'
    <3>. SUFFICES ASSUME NEW q \in Member, NEW s \in DOMAIN Side, pc[q] = Fence[s],
                         NEW d, d = Kid(calls[q], q, s)
                  PROVE  /\ d # NoPE /\ calls[d] = calls[q] /\ pc[d] = "receive"
                         /\ Data(q, d, calls[q]) \in flight' \/ target'[d] = calls[q]
      BY <1>5, KidAfter DEF Fences
    <3>1. /\ d # NoPE /\ calls[d] = calls[q] /\ pc[d] = "receive"
          /\ Data(q, d, calls[q]) \in flight \/ target[d] = calls[q]
      BY DEF Fences
    <3>2. calls[q] \in 1 .. MaxCalls
      <4>1. pc[q] # "outside"  BY DEF Fence, Side
      <4>2. calls[q] # 0  BY <4>1 DEF PcOK
      <4>. QED  BY <4>2, TreeConstants DEF TreeTypeOK
    <3>3. d \in Member  BY <3>1, <3>2, Kids
    <3>4. Data(q, d, calls[q]) = m => d = c  BY <1>2 DEF Data
    <3>. QED  BY <1>5, <2>2, <3>1, <3>3, <3>4
  <2>7. ASSUME NEW q \in Member PROVE Flags(q)' /\ Counters(q)'
    <3>1. Flags(q) /\ Counters(q)'  BY <1>4, <1>7, <2>1
    <3>2. CASE q = c
      <4>1. pSync[q][0] = NotReady  BY <1>1, <1>2, <3>1, <3>2 DEF Flags
      <4>. QED  BY <1>1, <1>2, <1>5, <2>1, <3>1, <3>2, <4>1 DEF Flags
    <3>3. CASE q # c
      BY <1>5, <1>8, <2>1, <2>2, <3>1, <3>3, KidAfter DEF Flags
    <3>. QED  BY <3>1, <3>2, <3>3
  <2>. QED  BY <1>6, <2>3, <2>4, <2>5, <2>6, <2>7
<1>10. CASE m = Flag(p, c) /\ Flagged(p, n, side) /\ target[c] = n
  <2>1. target' = target /\ pSync' = [pSync EXCEPT ![c] = [@ EXCEPT ![0] = IsReady]]
    BY <1>10 DEF TreeLand, Flag, SetSync
  <2>2. pSync' \in [Member -> [{0, 1} -> Int]] /\ \A q \in Member :
          /\ pSync'[q][1] = pSync[q][1]
          /\ pSync'[q][0] = IF q = c THEN IsReady ELSE pSync[q][0]
    BY <2>1 DEF TreeTypeOK, IsReady
  <2>3. TreeTypeOK'  BY <1>5, <2>1, <2>2 DEF TreeTypeOK
  <2>4. Targets'
    BY <1>5, <2>1 DEF Targets, RootPE, Received, Reached
  <2>5. InFlight'
    <3>1. \A o \in flight' : o \in flight  BY <1>5
    <3>. QED  BY <1>5, <1>8, <2>1, <3>1, KidAfter DEF InFlight
  <2>6. Fences'
    <3>1. \A q, d, i : Data(q, d, i) # m  BY <1>10 DEF Data, Flag
    <3>. QED  BY <1>5, <2>1, <3>1, KidAfter DEF Fences
  <2>7. ASSUME NEW o \in flight, o.dst = c PROVE o = m
    <3>1. PICK s \in DOMAIN Side :
            /\ o.src \in Member /\ calls[o.src] = n /\ c = Kid(n, o.src, s)
            /\ \/ o = Data(o.src, c, n) /\ pc[o.src] = Fence[s]
               \/ o = Flag(o.src, c)
      BY <1>1, <1>2, <2>7 DEF InFlight
    <3>2. o.src = p /\ s = side
      <4>1. c # NoPE /\ c = Kid(n, p, side)  BY <1>1, <1>2, <1>3, Kids
      <4>2. PICK r \in Member : r = o.src  BY <3>1
      <4>3. Kid(n, r, s) = c  BY <3>1, <4>2
      <4>4. r = p /\ s = side  BY <1>3, <4>1, <4>3, OneParent
      <4>. QED  BY <4>2, <4>4
    <3>3. pc[p] # Fence[side]
      <4>1. Rank["fence_left"] = 4 /\ Rank["fence_right"] = 6  BY DEF Rank
      <4>2. \/ side = "left" /\ Fence[side] = "fence_left"
            \/ side = "right" /\ Fence[side] = "fence_right"
        BY DEF Side, Fence
      <4>3. calls[p] = n  BY <1>1, <1>2
      <4>. QED  BY <1>10, <4>1, <4>2, <4>3 DEF Flagged, Reached
    <3>. QED  BY <1>10, <3>1, <3>2, <3>3
  <2>8. ASSUME NEW q \in Member PROVE Flags(q)' /\ Counters(q)'
    <3>1. Flags(q) /\ Counters(q)'  BY <1>4, <1>7, <2>2
    <3>2. CASE q = c
      <4>1. pSync'[c][0] = IsReady  BY <2>2
      <4>2. ASSUME NEW s \in DOMAIN Side, NEW r \in Member, Kid(n, r, s) = c
            PROVE  Flagged(r, n, s)
        <5>1. c # NoPE /\ c = Kid(n, p, side)  BY <1>1, <1>2, <1>3, Kids
        <5>. QED  BY <1>2, <1>3, <1>10, <4>2, <5>1, Kids
      <4>3. \A o \in flight' : o.dst # c  BY <1>5, <2>7
      <4>4. calls'[c] = n /\ pc'[c] = "receive" /\ target'[c] = n
        BY <1>1, <1>2, <1>5, <1>10, <2>1
      <4>5. \A s \in DOMAIN Side, r \in Member : Kid(n, r, s)' = c => Flagged(r, n, s)'
        BY <1>5, <1>8, <4>2, KidAfter
      <4>. QED  BY <3>1, <3>2, <4>1, <4>3, <4>4, <4>5 DEF Flags
    <3>3. CASE q # c
      BY <1>5, <1>8, <2>1, <2>2, <3>1, <3>3, KidAfter DEF Flags
    <3>. QED  BY <3>1, <3>2, <3>3
  <2>. QED  BY <1>6, <2>3, <2>4, <2>5, <2>6, <2>8
<1>. QED  BY <1>1, <1>2, <1>9, <1>10

\* The next call begins: what was reached stays so, and a call with another root
\* begins when everybody has returned from those before it.
LEMMA TreeCallStep ==
  ASSUME SeparateRoots, TreeIInv, NEW p \in Member, TreeCall(p)
  PROVE  TreeIInv'
<1>. USE DEF TreeIInv
<1>1. /\ pc[p] = "outside" /\ calls[p] < MaxCalls /\ roots' = roots
      /\ pSync' = pSync /\ target' = target /\ flight' = flight
  BY DEF TreeCall
<1>2. PICK n1 \in 1 .. MaxCalls : n1 = calls[p] + 1
  BY <1>1, TreeConstants DEF TreeTypeOK
<1>3. \A q \in Member :
        /\ calls[q] \in Nat
        /\ calls'[q] = IF q = p THEN n1 ELSE calls[q]
        /\ pc'[q] = IF q = p THEN "enter" ELSE pc[q]
        /\ q # p => source'[q] = source[q]
        /\ source'[p] = IF p = RootPE(n1) THEN n1 ELSE 0
  BY <1>2 DEF TreeCall, Goto, TreeTypeOK
<1>4. ASSUME NEW q \in Member, NEW n \in 1 .. MaxCalls, NEW k \in 2 .. 10
      PROVE  Reached(q, n, k)' <=> Reached(q, n, k)
  <2>1. Rank["outside"] = 10 /\ Rank["enter"] = 1  BY DEF Rank
  <2>2. CASE q = p
    <3>1. Reached(p, n, k)' <=> n1 > n \/ (n1 = n /\ 1 >= k)  BY <1>3, <2>1, <2>2 DEF Reached
    <3>2. Reached(p, n, k) <=> calls[p] > n \/ (calls[p] = n /\ 10 >= k)
      BY <1>1, <2>1, <2>2 DEF Reached
    <3>. QED  BY <1>2, <1>3, <2>2, <3>1, <3>2
  <2>3. CASE q # p  BY <1>3, <2>3 DEF Reached
  <2>. QED  BY <2>2, <2>3
<1>5. ASSUME NEW q \in Member, NEW n \in 1 .. MaxCalls
      PROVE  /\ Received(q, n)' <=> Received(q, n)
             /\ Counted(q, n)' <=> Counted(q, n)
             /\ Reported(q, n)' <=> Reported(q, n)
             /\ \A side : Flagged(q, n, side)' <=> Flagged(q, n, side)
  BY <1>4 DEF Received, Counted, Reported, Flagged
<1>6. TreeTypeOK'
  <2>1. calls' \in [Member -> 0 .. MaxCalls]
    BY <1>1, <1>2, TreeConstants DEF TreeCall, TreeTypeOK
  <2>2. pc' \in [Member -> DOMAIN Rank]
    <3>1. "enter" \in DOMAIN Rank  BY DEF Rank
    <3>. QED  BY <3>1 DEF TreeCall, Goto, TreeTypeOK
  <2>3. source' \in [Member -> Nat]  BY <1>2 DEF TreeCall, TreeTypeOK
  <2>. QED  BY <1>1, <2>1, <2>2, <2>3 DEF TreeTypeOK
<1>7. PcOK'
  BY <1>1, <1>2, <1>3 DEF PcOK, IsRoot, RootPE
<1>8. Ordered'
  <2>. SUFFICES ASSUME NEW n \in 1 .. MaxCalls, NEW q \in Member, NEW side \in DOMAIN Side,
                       NEW c, c = Kid(n, q, side), c # NoPE
                PROVE  /\ Received(c, n)' => Flagged(q, n, side)'
                       /\ Counted(q, n)' => Reported(c, n)'
    BY <1>1, KidAfter DEF Ordered
  <2>1. c \in Member  BY Kids
  <2>. QED  BY <1>5, <2>1 DEF Ordered
<1>9. Uniform'
  <2>. SUFFICES ASSUME NEW q \in Member, NEW r \in Member, NEW n \in 1 .. calls'[q],
         ~Reported(r, n)'
                PROVE  roots[n] = roots[calls'[q]]
    BY <1>1 DEF Uniform
  <2>1. n \in 1 .. MaxCalls
    <3>1. calls'[q] \in 0 .. MaxCalls  BY <1>6 DEF TreeTypeOK
    <3>. QED  BY <3>1, TreeConstants
  <2>2. ~Reported(r, n)  BY <1>5, <2>1
  <2>3. CASE q # p  BY <1>3, <2>2, <2>3 DEF Uniform
  <2>4. CASE q = p
    <3>1. CASE n = n1  BY <1>3, <2>4, <3>1
    <3>2. CASE n # n1
      <4>1. n \in 1 .. calls[p]  BY <1>2, <1>3, <2>4, <3>2
      <4>2. roots[n] = roots[calls[p]]  BY <2>2, <4>1 DEF Uniform
      <4>3. ~NewRoot(p)
        <5>1. ASSUME NewRoot(p) PROVE FALSE
          <6>1. calls[r] > calls[p] \/ (calls[r] = calls[p] /\ pc[r] = "outside")
            BY <5>1 DEF TreeCall
          <6>2. Reported(r, n)  BY <1>3, <4>1, <6>1 DEF Reported, Reached, Rank
          <6>. QED  BY <2>2, <6>2
        <5>. QED  BY <5>1
      <4>4. roots[n1] = roots[calls[p]]  BY <1>2, <1>3, <4>1, <4>3 DEF NewRoot
      <4>. QED  BY <1>3, <2>4, <4>2, <4>4
    <3>. QED  BY <3>1, <3>2
  <2>. QED  BY <2>3, <2>4
<1>10. Sources'
  <2>1. RootPE(n1)' = RootPE(n1)  BY <1>1 DEF RootPE
  <2>. QED  BY <1>1, <1>3, <2>1 DEF Sources, IsRoot, RootPE
<1>11. Targets'
  <2>. SUFFICES ASSUME NEW q \in Member
                PROVE  /\ target[q] <= calls'[q]
                       /\ \A n \in 1 .. MaxCalls : q # RootPE(n) /\ Received(q, n)' =>
                            target[q] >= n
    BY <1>1 DEF Targets, RootPE
  <2>1. target[q] <= calls[q] /\ target[q] \in Nat  BY DEF Targets, TreeTypeOK
  <2>2. target[q] <= calls'[q]  BY <1>2, <1>3, <2>1
  <2>. QED  BY <1>5, <2>2 DEF Targets
<1>12. InFlight'
  <2>. SUFFICES ASSUME NEW m \in flight, NEW i, i = calls'[m.src]
                PROVE  /\ m.src \in Member /\ m.dst \in Member
                       /\ i = calls'[m.dst] /\ pc'[m.dst] = "receive"
                       /\ \E side \in DOMAIN Side :
                            /\ m.dst = Kid(i, m.src, side)
                            /\ \/ m = Data(m.src, m.dst, i) /\ pc'[m.src] = Fence[side]
                               \/ /\ m = Flag(m.src, m.dst) /\ Flagged(m.src, i, side)'
                                  /\ target[m.dst] = i
    BY <1>1, KidAfter DEF InFlight
  <2>0. PICK n \in Nat : n = calls[m.src]  BY DEF InFlight, TreeTypeOK
  <2>1. PICK side \in DOMAIN Side :
          /\ m.src \in Member /\ m.dst \in Member /\ n = calls[m.src]
          /\ n = calls[m.dst] /\ pc[m.dst] = "receive"
          /\ m.dst = Kid(n, m.src, side)
          /\ \/ m = Data(m.src, m.dst, n) /\ pc[m.src] = Fence[side]
             \/ m = Flag(m.src, m.dst) /\ Flagged(m.src, n, side) /\ target[m.dst] = n
    BY <2>0 DEF InFlight
  <2>2. n \in 1 .. MaxCalls
    <3>1. calls[m.dst] # 0  BY <2>1 DEF PcOK
    <3>. QED  BY <2>1, <3>1, TreeConstants DEF TreeTypeOK
  <2>3. m.dst # p  BY <1>1, <2>1
  <2>4. m.src # p
    <3>1. ASSUME m.src = p PROVE FALSE
      <4>0. Rank["outside"] = 10 /\ Rank["receive"] = 2  BY DEF Rank
      <4>01. calls[p] = n /\ Rank[pc[p]] >= 9  BY <1>1, <2>0, <3>1, <4>0
      <4>1. Counted(p, n)  BY <4>01 DEF Counted, Reached
      <4>2. m.dst # NoPE  BY <2>1, <2>2, Kids
      <4>3. Reported(m.dst, n)  BY <2>1, <2>2, <3>1, <4>1, <4>2 DEF Ordered
      <4>. QED  BY <2>1, <2>2, <4>0, <4>3 DEF Reported, Reached
    <3>. QED  BY <3>1
  <2>5. i = n /\ calls'[m.dst] = n /\ pc'[m.dst] = "receive" /\ pc'[m.src] = pc[m.src]
    BY <1>3, <2>1, <2>3, <2>4
  <2>6. Flagged(m.src, n, side) => Flagged(m.src, n, side)'  BY <1>5, <2>1, <2>2
  <2>. QED  BY <2>1, <2>5, <2>6
<1>13. Fences'
  <2>. SUFFICES ASSUME NEW q \in Member, NEW side \in DOMAIN Side, pc'[q] = Fence[side],
                       NEW c, c = Kid(calls'[q], q, side)
                PROVE  /\ c # NoPE /\ calls'[c] = calls'[q] /\ pc'[c] = "receive"
                       /\ Data(q, c, calls'[q]) \in flight \/ target[c] = calls'[q]
    BY <1>1, KidAfter DEF Fences
  <2>1. q # p /\ pc[q] # "outside"  BY <1>3 DEF Fence, Side
  <2>2. calls'[q] = calls[q] /\ pc[q] = Fence[side]  BY <1>3, <2>1
  <2>3. /\ c # NoPE /\ calls[c] = calls[q] /\ pc[c] = "receive"
        /\ Data(q, c, calls[q]) \in flight \/ target[c] = calls[q]
    BY <2>2 DEF Fences
  <2>4. calls[q] \in 1 .. MaxCalls
    <3>1. calls[q] # 0  BY <2>1 DEF PcOK
    <3>. QED  BY <3>1, TreeConstants DEF TreeTypeOK
  <2>5. c \in Member  BY <2>2, <2>3, <2>4, Kids
  <2>6. c # p  BY <1>1, <2>3
  <2>. QED  BY <1>3, <2>2, <2>3, <2>5, <2>6
<1>14. ASSUME PE_size > 1, NEW q \in Member PROVE Flags(q)' /\ Counters(q)'
  <2>1. Flags(q) /\ Counters(q)  BY <1>14
  <2>2. CASE q = p
    <3>1. pSync[p][0] = SYNC /\ pSync[p][1] = SYNC
      BY <1>1, <2>1, <2>2 DEF Flags, Counters
    <3>. QED  BY <1>1, <1>3, <2>2, <3>1 DEF Flags, Counters
  <2>3. CASE q # p
    <3>1. calls'[q] = calls[q] /\ pc'[q] = pc[q]  BY <1>3, <2>3
    <3>2. pc[q] # "outside" => calls[q] \in 1 .. MaxCalls
      <4>1. pc[q] # "outside" => calls[q] # 0  BY DEF PcOK
      <4>. QED  BY <4>1, TreeConstants DEF TreeTypeOK
    <3>3. Flags(q)'
      <4>1. ASSUME NEW n, n = calls[q], pc[q] = "receive", NEW r \in Member, NEW side
            PROVE  Flagged(r, n, side)' <=> Flagged(r, n, side)
        BY <1>5, <3>2, <4>1
      <4>. QED  BY <1>1, <2>1, <3>1, <4>1, KidAfter DEF Flags
    <3>4. Counters(q)'
      <4>1. CASE pc[q] \in {"enter", "report", "outside"}
        BY <1>1, <2>1, <3>1, <4>1 DEF Counters
      <4>2. CASE pc[q] \notin {"enter", "report", "outside"}
        <5>1. ASSUME NEW n, n = calls[q], NEW side \in DOMAIN Side
              PROVE  Has(n, q, side)' = Has(n, q, side)
          <6>1. Kid(n, q, side) # NoPE => Kid(n, q, side) \in Member
            BY <3>2, <4>2, <5>1, Kids
          <6>. QED  BY <1>1, <1>5, <3>2, <4>2, <5>1, <6>1, KidAfter DEF Has
        <5>2. "left" \in DOMAIN Side /\ "right" \in DOMAIN Side  BY DEF Side
        <5>3. ASSUME NEW n, n = calls[q]
              PROVE  Has(n, q, "left")' = Has(n, q, "left")
                /\ Has(n, q, "right")' = Has(n, q, "right")
          BY <5>1, <5>2, <5>3
        <5>. QED  BY <1>1, <2>1, <3>1, <4>2, <5>3 DEF Counters
      <4>. QED  BY <4>1, <4>2
    <3>. QED  BY <3>3, <3>4
  <2>. QED  BY <2>2, <2>3
<1>. QED  BY <1>6, <1>7, <1>8, <1>9, <1>10, <1>11, <1>12, <1>13, <1>14

\* Every step preserves the invariant.
LEMMA NextTree == ASSUME SeparateRoots, TreeIInv, [TreeNext]_treevars PROVE TreeIInv'
<1>1. CASE UNCHANGED treevars
  <2>1. /\ roots' = roots /\ calls' = calls /\ pc' = pc /\ pSync' = pSync
        /\ source' = source /\ target' = target /\ flight' = flight
    BY <1>1 DEF treevars
  <2>2. \A q, n, k : Reached(q, n, k)' <=> Reached(q, n, k)  BY <2>1 DEF Reached
  <2>3. \A q, n, side : Has(n, q, side)' = Has(n, q, side)
    BY <2>1, <2>2, KidAfter DEF Has, Reported
  <2>4. TreeTypeOK' /\ PcOK' /\ Sources' /\ Uniform' /\ Targets'
    BY <2>1, <2>2 DEF TreeIInv, TreeTypeOK, PcOK, Sources, Uniform, Targets, IsRoot,
      RootPE, Received, Reported
  <2>5. Ordered' /\ InFlight' /\ Fences'
    BY <2>1, <2>2, KidAfter
      DEF TreeIInv, Ordered, InFlight, Fences, Received, Flagged, Counted, Reported
  <2>6. ASSUME PE_size > 1, NEW p \in Member PROVE Flags(p)' /\ Counters(p)'
    <3>1. Flags(p) /\ Counters(p)  BY <2>6 DEF TreeIInv
    <3>. QED  BY <2>1, <2>2, <2>3, <3>1, KidAfter DEF Flags, Counters, Flagged
  <2>. QED  BY <2>4, <2>5, <2>6 DEF TreeIInv
<1>2. ASSUME NEW p \in Member, TreeCall(p) PROVE TreeIInv'  BY <1>2, TreeCallStep
<1>3. ASSUME NEW p \in Member, TreeLibraryStep(p) PROVE TreeIInv'
  BY <1>3, EnterStep, RootStartStep, ReceiveStep, NoChildStep, PutDataStep, PutFlagStep, FedStep,
    CountStep, ReportStep DEF TreeLibraryStep
<1>4. ASSUME NEW p \in Member, TreeLandFrom(p) PROVE TreeIInv'  BY <1>4, TreeLandStep DEF TreeLandFrom
<1>. QED  BY <1>1, <1>2, <1>3, <1>4 DEF TreeNext

\* The tree broadcast keeps its invariant, for every active set and any number of calls with
\* any roots.
THEOREM TreeInvariant == ASSUME SeparateRoots PROVE TreeSpec => []TreeIInv
<1>1. TreeInit => TreeIInv  BY InitTree
<1>2. TreeIInv /\ [TreeNext]_treevars => TreeIInv'  BY NextTree
<1>. QED  BY <1>1, <1>2, PTL DEF TreeSpec

\* Where the root has returned all PEs have reported.
LEMMA RootIsLast ==
  ASSUME TreeIInv, NEW n \in 1 .. MaxCalls, NEW p \in Member, p = RootPE(n), Reported(p, n),
         NEW q \in Member
  PROVE  Reported(q, n)
<1>. USE DEF TreeIInv
<1>. DEFINE S == {r \in Member : Reported(r, n)}
<1>1. roots[n] \in Index  BY TreeConstants DEF TreeTypeOK
<1>2. PE_start + step * roots[n] \in S  BY DEF RootPE
<1>3. ASSUME NEW c \in Member \ {PE_start + step * roots[n]},
             build_tree(PE_start, step, roots[n], PE_size, c).parent \in S
      PROVE  c \in S
  <2>1. PICK r \in Member : r = PlaceIn(n, c).parent /\ Reported(r, n)
    BY <1>3 DEF PlaceIn
  <2>2. c # RootPE(n) /\ c # NoPE  BY <1>3, Kids DEF RootPE
  <2>3. PICK side \in DOMAIN Side : Kid(n, r, side) = c  BY <2>1, <2>2, Kids
  <2>4. Counted(r, n)
    <3>1. Rank[pc[r]] \in 1 .. 10  BY RankType DEF TreeTypeOK
    <3>. QED  BY <2>1, <3>1 DEF Reported, Counted, Reached
  <2>. QED  BY <2>2, <2>3, <2>4 DEF Ordered
<1>. HIDE DEF S
<1>4. S \in SUBSET Member  BY DEF S
<1>5. S = Member  BY <1>1, <1>2, <1>3, <1>4, DownTheTree
<1>. QED  BY <1>5 DEF S

\* The invariant has what a call of broadcast promises.
LEMMA InvReturned == ASSUME TreeIInv PROVE ReturnedWithData
<1>. USE DEF TreeIInv
<1>. SUFFICES ASSUME NEW p \in Member, Returned(p)
              PROVE  IF IsRoot(p) THEN \A q \in Member \ {p} : target[q] >= calls[p]
                                  ELSE target[p] = calls[p]
  BY DEF ReturnedWithData
<1>1. PICK n \in 1 .. MaxCalls : n = calls[p]  BY TreeConstants DEF Returned, TreeTypeOK
<1>2. Reported(p, n)  BY <1>1 DEF Returned, Reported, Reached, Rank
<1>3. ASSUME NEW q \in Member, Reported(q, n) PROVE Received(q, n)
  <2>1. Rank[pc[q]] \in 1 .. 10  BY RankType DEF TreeTypeOK
  <2>. QED  BY <1>3, <2>1 DEF Reported, Received, Reached
<1>4. CASE IsRoot(p)
  <2>1. p = RootPE(n)  BY <1>1, <1>4 DEF IsRoot
  <2>2. \A q \in Member : Reported(q, n)  BY <1>2, <2>1, RootIsLast
  <2>. QED  BY <1>1, <1>3, <1>4, <2>1, <2>2 DEF Targets
<1>5. CASE ~IsRoot(p)
  <2>1. p # RootPE(n)  BY <1>1, <1>5 DEF IsRoot
  <2>2. target[p] >= n /\ target[p] <= n  BY <1>1, <1>2, <1>3, <2>1 DEF Targets
  <2>3. target[p] \in Nat  BY DEF TreeTypeOK
  <2>. QED  BY <1>1, <1>5, <2>2, <2>3
<1>. QED  BY <1>4, <1>5

\* Whoever returns from a tree broadcast has the root's data of that call, and the root
\* returns when all others have it.
THEOREM TreeReturnedWithData == ASSUME SeparateRoots PROVE TreeSpec => []ReturnedWithData
BY TreeInvariant, InvReturned, PTL

\* A PE returns with pSync as it found it, if it is not alone.
THEOREM TreeSyncRestored == ASSUME SeparateRoots, PE_size > 1 PROVE TreeSpec => []SyncRestored
<1>1. TreeIInv => SyncRestored
  <2>. SUFFICES ASSUME TreeIInv, NEW p \in Member, Returned(p)
                PROVE  pSync[p] = [i \in {0, 1} |-> SYNC]
    BY DEF SyncRestored
  <2>1. Flags(p) /\ Counters(p)  BY DEF TreeIInv
  <2>2. pSync[p][0] = SYNC /\ pSync[p][1] = SYNC
    BY <2>1 DEF Returned, Flags, Counters
  <2>3. pSync[p] \in [{0, 1} -> Int]  BY DEF TreeIInv, TreeTypeOK
  <2>. QED  BY <2>2, <2>3
<1>. QED  BY <1>1, TreeInvariant, PTL

\* Puts reach only a PE that is in the same call and waits for them: no call writes into
\* another.
THEOREM TreePutsAreExpected == ASSUME SeparateRoots PROVE TreeSpec => []PutsAreExpected
<1>1. TreeIInv => PutsAreExpected  BY DEF TreeIInv, InFlight, PutsAreExpected
<1>. QED  BY <1>1, TreeInvariant, PTL

=============================================================================
