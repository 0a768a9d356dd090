--------------------------- MODULE SymmHeapProofs ---------------------------
(***************************************************************************)
(* Proofs about SymmHeap: heaps stay alike, sizes are compared while they  *)
(* are there, and puts land in their blocks.                               *)
(*                                                                         *)
(* The calls of the program have one history: the heap after n of them is  *)
(* After of the heap after n - 1 and the n-th call, for all PEs.  It also  *)
(* counts the barriers of each call, so that the barriers a PE has passed  *)
(* tell where the others are.                                              *)
(***************************************************************************)
EXTENDS SymmHeap, WellFoundedInduction, TLAPS

-----------------------------------------------------------------------------
(* When heaps can stay alike: mspace_memalign looks at addresses, and finds*)
(* the same places on PEs whose heaps start at the same remainder of the   *)
(* alignment.  Heaps start at a page: alignments up to a page are fine.    *)

AlignedAlike == \A p, q \in PE : Base[p] % Alignment = Base[q] % Alignment
PlacesAgree == AlignedAlike \/ \A n \in DOMAIN Menu : "align" \notin DOMAIN Menu[n]

-----------------------------------------------------------------------------
(* What a call makes of a heap that is alike on all PEs.                   *)

CallKinds ==
  {"malloc", "align", "realloc", "free", "malloc_nb", "free_nb", "shpalloc", "shpclmove", "shpdeallc"}

\* The size of a call that passes the same everywhere.
Size(c) ==
  LET p == CHOOSE q \in PE : TRUE IN IF c.op = "shpalloc" THEN Scale * c.size[p] ELSE c.size[p]
Same(c) == \A p, q \in PE : c.size[p] = c.size[q]
Of(c, h) == Address(h, c.block)

\* The n-th call, as the program may make it.
CallOK(c, n) ==
  /\ c.op \in CallKinds
  /\ c.block \in 1 .. n
  /\ c.block = n <=> Kind(c) \in {"malloc", "align", "malloc_nb"}
  /\ c.size \in [PE -> Nat]
  /\ \A p, q \in PE : c.size[p] = 0 <=> c.size[q] = 0
  /\ Same(c) \/ Debug
  /\ c.op = "align" => AlignedAlike

\* Which way it takes.
Nothing(c) == c.op = "shpalloc" /\ \A p \in PE : c.size[p] = 0
Frees(c, h) ==
  \/ Kind(c) = "free"
  \/ Kind(c) = "realloc" /\ Size(c) = 0 /\ Of(c, h) # NULL
Releases(c, h) == Frees(c, h) \/ c.op = "free_nb"
Allocates(c, h) == ~Nothing(c) /\ ~Releases(c, h)

\* State: the heap, malloc_error, the code of Fortran and the barriers passed.
State(h, e, code, b) == [heap |-> h, error |-> e, code |-> code, bars |-> b]
Told(s, c, e) == IF IsFortran(c) THEN e ELSE s.code
Forgotten(c, h) ==
  IF c.op = "shpclmove" THEN [h EXCEPT ![Of(c, h)].name = Lost] ELSE h

AfterNothing(s) == State(s.heap, s.error, "BAD_SIZE", s.bars)

AfterRelease(s, c) ==
  LET a == Of(c, s.heap)
      e == IF a = NULL THEN "ALREADY_FREE" ELSE "OK"
  IN  State(IF a = NULL THEN s.heap ELSE Without(s.heap, a), e, Told(s, c, e),
            IF c.op = "free_nb" THEN s.bars ELSE s.bars + 1)

MallocLike(c, h) == Kind(c) = "malloc" \/ (Kind(c) = "realloc" /\ Of(c, h) = NULL)

AfterRefusal(s, c) ==
  State(IF MallocLike(c, s.heap) THEN s.heap ELSE Forgotten(c, s.heap), "SYMMSIZE_FAILED",
        Told(s, c, "SYMMSIZE_FAILED"),
        IF MallocLike(c, s.heap) THEN s.bars + 3 ELSE s.bars + 2)

Checks == IF Debug THEN 2 ELSE 0
LastBar(c) == IF c.op = "malloc_nb" THEN 0 ELSE 1

PlaceOf(c, h) ==
  IF Of(c, h) # NULL THEN Resized(h, Of(c, h), Size(c))
  ELSE IF c.op = "align" THEN PlaceAligned(CHOOSE p \in PE : TRUE, h, AtLeastOne(Size(c)))
  ELSE Place(h, AtLeastOne(Size(c)))

NewHeap(c, h) ==
  LET a == PlaceOf(c, h)
  IN  IF Of(c, h) = NULL
      THEN IF a = NULL THEN h ELSE With(h, a, Block(AtLeastOne(Size(c)), c.block))
      ELSE IF a = NULL THEN Forgotten(c, h)
           ELSE With(Without(h, Of(c, h)), a, Block(Size(c), c.block))

NewError(c, h) ==
  IF PlaceOf(c, h) # NULL THEN "OK"
  ELSE IF Of(c, h) # NULL THEN "REALLOC_FAILED"
  ELSE IF c.op = "align" THEN "MEMALIGN_FAILED" ELSE "FAIL"

AfterAllocation(s, c) ==
  State(NewHeap(c, s.heap), NewError(c, s.heap), Told(s, c, NewError(c, s.heap)),
        s.bars + Checks + LastBar(c))

After(s, c) ==
  IF Nothing(c) THEN AfterNothing(s)
  ELSE IF Releases(c, s.heap) THEN AfterRelease(s, c)
  ELSE IF Debug /\ ~Same(c) THEN AfterRefusal(s, c)
  ELSE AfterAllocation(s, c)

-----------------------------------------------------------------------------
(* What every heap is.                                                     *)

Named(h) ==
  /\ h = [a \in DOMAIN h |-> h[a]]
  /\ DOMAIN h \subseteq 0 .. HeapSize - 1
  /\ \A a \in DOMAIN h : h[a] = Block(h[a].size, h[a].name) /\ h[a].size \in Nat \ {0}
  /\ \A a, b \in DOMAIN h : h[a].name = h[b].name /\ h[a].name # Lost => a = b

GoodHeap(h, n) ==
  /\ Named(h)
  /\ \A a \in DOMAIN h : h[a].name = Lost \/ h[a].name \in 1 .. n

CellHeap(h) == With(h, Place(h, 1), Block(1, Cell))

\* The states between calls.
History(H) ==
  /\ H[0] = State(<<>>, "OK", "OK", 0)
  /\ \A n \in 1 .. Len(log) : H[n] = After(H[n - 1], log[n])

-----------------------------------------------------------------------------
(* Where a PE is in its call.                                              *)

Done == {"outside", "aborted", "internal error", "not symmetric", "no symbols"}
Checking == {"check", "out of memory", "check_arrive", "check_leave", "compare", "check_end"}

Bars(p, a, l) == arrived[p] = a /\ left[p] = l

AtRest(p, s) ==
  pc[p] \in Done =>
    /\ heap[p] = s.heap
    /\ malloc_error[p] = s.error
    /\ pc[p] # "internal error" => errcode[p] = s.code
    /\ Bars(p, s.bars, s.bars)

InCheck(p, s, c) ==
  /\ pc[p] \in Checking => Debug /\ Allocates(c, s.heap)
  /\ pc[p] \in {"check", "out of memory"} => heap[p] = s.heap /\ Bars(p, s.bars, s.bars)
  /\ pc[p] \in {"check_arrive", "check_leave", "compare", "check_end"} =>
       /\ Place(s.heap, 1) # NULL
       /\ heap[p] = CellHeap(s.heap)
       /\ cell[p] = MySize(p)
  /\ pc[p] = "check_arrive" => Bars(p, s.bars, s.bars)
  /\ pc[p] = "check_leave" => Bars(p, s.bars + 1, s.bars)
  /\ pc[p] = "compare" =>
       /\ Bars(p, s.bars + 1, s.bars + 1)
       /\ p \in pe[p]
       /\ \/ malloc_error[p] = "OK" /\ \A q \in pe[p] : c.size[q] = c.size[p]
          \/ malloc_error[p] = "SYMMSIZE_FAILED" /\ pe[p] = PE /\ ~Same(c)
  /\ pc[p] = "check_end" =>
       /\ Bars(p, s.bars + 2, s.bars + 1)
       /\ malloc_error[p] = IF Same(c) THEN "OK" ELSE "SYMMSIZE_FAILED"

InAllocation(p, s, t, c) ==
  /\ pc[p] = "refused" =>
       /\ Debug /\ Allocates(c, s.heap) /\ ~Same(c)
       /\ heap[p] = s.heap /\ malloc_error[p] = "SYMMSIZE_FAILED"
       /\ Bars(p, s.bars + 2, s.bars + 2)
  /\ pc[p] = "allocate" =>
       /\ Allocates(c, s.heap) /\ Same(c)
       /\ heap[p] = s.heap
       /\ Bars(p, s.bars + Checks, s.bars + Checks)
  /\ pc[p] \in {"arrive", "leave"} =>
       /\ Allocates(c, s.heap)
       /\ t.bars = s.bars + Checks + 1
       /\ heap[p] = t.heap /\ malloc_error[p] = t.error
       /\ t.code = Told(s, c, t.error)
  /\ pc[p] = "arrive" => Bars(p, s.bars + Checks, s.bars + Checks)
  /\ pc[p] = "leave" => Bars(p, s.bars + Checks + 1, s.bars + Checks)

InRelease(p, s, c) ==
  /\ pc[p] \in {"free", "free_leave", "release"} =>
       ~Nothing(c) /\ Releases(c, s.heap) /\ heap[p] = s.heap
  /\ pc[p] \in {"free", "free_leave"} => c.op # "free_nb"
  /\ pc[p] = "free" => Bars(p, s.bars, s.bars)
  /\ pc[p] = "free_leave" => Bars(p, s.bars + 1, s.bars)
  /\ pc[p] = "release" => IF c.op = "free_nb" THEN Bars(p, s.bars, s.bars)
                          ELSE Bars(p, s.bars + 1, s.bars + 1)

InCall(p, s, t, c) ==
  /\ errcode[p] = s.code
  /\ InCheck(p, s, c)
  /\ InAllocation(p, s, t, c)
  /\ InRelease(p, s, c)

At(p, H) ==
  /\ AtRest(p, H[calls[p]])
  /\ pc[p] \notin Done =>
       calls[p] > 0 /\ InCall(p, H[calls[p] - 1], H[calls[p]], log[calls[p]])

\* A put on its way.
Unmet(p) ==
  \/ pc[p] \in {"outside", "not symmetric", "internal error", "check", "out of memory",
                "check_arrive", "free", "release"}
  \/ ~Debug /\ pc[p] \in {"allocate", "arrive"}

Flying(m) ==
  /\ m.src \in PE /\ m.dst \in PE /\ m.src # m.dst /\ m.name \in 1 .. Len(log)
  /\ Address(heap[m.src], m.name) # NULL
  /\ Address(heap[m.dst], m.name) = Address(heap[m.src], m.name)
  /\ m.addr = Base[m.dst] + Address(heap[m.src], m.name)
  /\ Unmet(m.src)
  /\ pc[m.src] = "release" => log[calls[m.src]].op = "free_nb"
  /\ pc[m.src] = "arrive" => m.name # calls[m.src]
  /\ \A k \in calls[m.src] .. Len(log) : k > 0 =>
       ~ (log[k].op = "free_nb" /\ log[k].block = m.name)

-----------------------------------------------------------------------------

\* A function without one of its values.
LEMMA WithoutFacts ==
  ASSUME NEW h, NEW a
  PROVE  /\ DOMAIN Without(h, a) = DOMAIN h \ {a}
         /\ \A b \in DOMAIN h : b # a => Without(h, a)[b] = h[b]
         /\ Without(h, a) = [b \in DOMAIN h \ {a} |-> Without(h, a)[b]]
  BY DEF Without, Restrict

\* The fields of a block.
LEMMA BlockFacts ==
  ASSUME NEW size, NEW name
  PROVE  Block(size, name).size = size /\ Block(size, name).name = name
  BY DEF Block

\* No place in a heap is the null pointer.
LEMMA NotNull == \A a \in 0 .. HeapSize - 1 : a # NULL
  BY AddressAssumption DEF NULL

\* Where a name is, if it is anywhere: there is one block of a name.
LEMMA AddressOf ==
  ASSUME NEW h, Named(h), NEW k, k # Lost
  PROVE  /\ Address(h, k) = NULL \/ (Address(h, k) \in DOMAIN h /\ h[Address(h, k)].name = k)
         /\ \A a \in DOMAIN h : h[a].name = k => Address(h, k) = a
<1>1. CASE \E a \in DOMAIN h : h[a].name = k
  <2>. DEFINE b == CHOOSE a \in DOMAIN h : h[a].name = k
  <2>1. b \in DOMAIN h /\ h[b].name = k  BY <1>1
  <2>2. Address(h, k) = b  BY <1>1 DEF Address
  <2>. HIDE DEF b
  <2>. QED  BY <2>1, <2>2 DEF Named
<1>2. CASE ~ \E a \in DOMAIN h : h[a].name = k
  BY <1>2 DEF Address
<1>. QED  BY <1>1, <1>2

\* Two heaps that have a name in the same places have it at the same address.
LEMMA AddressSame ==
  ASSUME NEW h, NEW g, Named(h), Named(g), NEW k, k # Lost,
         \A a \in 0 .. HeapSize - 1 :
           (a \in DOMAIN h /\ h[a].name = k) <=> (a \in DOMAIN g /\ g[a].name = k)
  PROVE  Address(g, k) = Address(h, k)
<1>1. DOMAIN h \subseteq 0 .. HeapSize - 1 /\ DOMAIN g \subseteq 0 .. HeapSize - 1
  BY DEF Named
<1>2. CASE Address(h, k) = NULL
  <2>1. ~ \E a \in DOMAIN h : h[a].name = k  BY <1>1, <1>2, AddressOf, NotNull
  <2>2. ~ \E a \in DOMAIN g : g[a].name = k  BY <1>1, <2>1
  <2>. QED  BY <1>2, <2>2 DEF Address
<1>3. CASE Address(h, k) # NULL
  BY <1>1, <1>3, AddressOf
<1>. QED  BY <1>2, <1>3

\* Among natural numbers there is a least.
LEMMA Least ==
  ASSUME NEW S \in SUBSET Nat, S # {}
  PROVE  \E a \in S : \A b \in S : a <= b
<1>. DEFINE R == {s \in Nat \X Nat : s[1] < s[2]}
<1>1. IsWellFoundedOn(R, Nat)
  BY NatLessThanWellFounded DEF OpToRel
<1>2. PICK a \in S : \A b \in S : ~ (<<b, a>> \in R)
  BY <1>1, WFMin
<1>3. ASSUME NEW b \in S PROVE a <= b
  <2>1. ~ (b < a)
    <3>1. <<b, a>> \in Nat \X Nat  OBVIOUS
    <3>. QED  BY <1>2, <3>1
  <2>. QED  BY <2>1
<1>. QED  BY <1>3

\* A block goes to one of the places allowed, where no block starts.
LEMMA FirstFitFree ==
  ASSUME NEW h, Named(h), NEW size \in Nat \ {0}, NEW places \in SUBSET (0 .. HeapSize - 1),
         FirstFit(h, size, places) # NULL
  PROVE  /\ FirstFit(h, size, places) \in places
         /\ FirstFit(h, size, places) \notin DOMAIN h
<1>. DEFINE fitting == {a \in places : Fits(h, size, a)}
            a == CHOOSE x \in fitting : \A y \in fitting : x <= y
<1>1. fitting # {} /\ FirstFit(h, size, places) = a  BY DEF FirstFit
<1>2. a \in fitting
  <2>1. \A x \in fitting : x \in 0 .. HeapSize - 1  OBVIOUS
  <2>2. \A x \in fitting : x \in Nat  BY <2>1, AddressAssumption
  <2>. HIDE DEF fitting
  <2>. QED  BY <1>1, <2>2, Least
<1>3. a \in places /\ a \in 0 .. HeapSize - 1 /\ Fits(h, size, a)  BY <1>2
<1>. HIDE DEF a, fitting
<1>4. a \notin Used(h)
  <2>1. a \in a .. a + size - 1  BY <1>3, AddressAssumption
  <2>. QED  BY <1>3, <2>1 DEF Fits
<1>5. ASSUME a \in DOMAIN h PROVE FALSE
  <2>1. h[a].size \in Nat \ {0}  BY <1>5 DEF Named
  <2>2. a \in a .. a + h[a].size - 1  BY <1>3, <2>1, AddressAssumption
  <2>. QED  BY <1>4, <1>5, <2>2 DEF Used
<1>. QED  BY <1>1, <1>3, <1>5

\* mspace_malloc and mspace_memalign return a place inside the heap where no block starts.
LEMMA PlaceFree ==
  ASSUME NEW h, Named(h), NEW size \in Nat \ {0}
  PROVE  /\ Place(h, size) # NULL =>
              Place(h, size) \in 0 .. HeapSize - 1 /\ Place(h, size) \notin DOMAIN h
         /\ \A p \in PE : PlaceAligned(p, h, size) # NULL =>
              PlaceAligned(p, h, size) \in 0 .. HeapSize - 1 /\ PlaceAligned(p, h, size) \notin DOMAIN h
<1>1. ASSUME NEW p \in PE PROVE AlignedPlaces(p) \in SUBSET (0 .. HeapSize - 1)
  BY DEF AlignedPlaces
<1>. QED  BY <1>1, FirstFitFree DEF Place, PlaceAligned

\* Division with remainder ...
LEMMA Division ==
  ASSUME NEW d \in Nat \ {0}, NEW x \in Nat
  PROVE  x % d \in 0 .. d - 1 /\ x \div d \in Int /\ x = (d * (x \div d)) + (x % d)
  OBVIOUS

\* ... has one solution.
LEMMA Remainder ==
  ASSUME NEW d \in Nat \ {0}, NEW k \in Int, NEW r \in 0 .. d - 1
  PROVE  ((d * k) + r) % d = r
  OBVIOUS

\* Numbers with the same remainder keep one when the same is added to them.
LEMMA SameRemainder ==
  ASSUME NEW d \in Nat \ {0}, NEW x \in Nat, NEW y \in Nat, NEW a \in Nat, x % d = y % d
  PROVE  (x + a) % d = (y + a) % d
<1>. DEFINE r == x % d
            i == (r + a) \div d
            s == (r + a) % d
<1>1. r \in 0 .. d - 1 /\ r + a \in Nat  BY Division
<1>. HIDE DEF r
<1>2. s \in 0 .. d - 1 /\ i \in Int /\ r + a = (d * i) + s  BY <1>1, Division
<1>. HIDE DEF i, s
<1>3. ASSUME NEW z \in Nat, z % d = r PROVE (z + a) % d = s
  <2>. DEFINE k == z \div d
  <2>1. k \in Int /\ z = (d * k) + r  BY <1>3, Division
  <2>. HIDE DEF k
  <2>2. z + a = (d * k) + (d * i) + s  BY <1>1, <1>2, <2>1
  <2>3. (d * k) + (d * i) = d * (k + i)  BY <1>2, <2>1
  <2>4. k + i \in Int  BY <1>2, <2>1
  <2>. QED  BY <1>2, <2>2, <2>3, <2>4, Remainder
<1>. QED  BY <1>3 DEF r

\* mspace_memalign finds the same place in the same heap if the heaps start alike.
LEMMA AlignedSame ==
  ASSUME AlignedAlike, NEW p \in PE, NEW q \in PE, NEW h, NEW size
  PROVE  PlaceAligned(p, h, size) = PlaceAligned(q, h, size)
<1>1. Base[p] \in Nat /\ Base[q] \in Nat /\ HeapSize \in Nat /\ Alignment \in Nat \ {0}
  BY AddressAssumption, HeapAssumption
<1>2. ASSUME NEW a \in 0 .. HeapSize - 1
      PROVE  (Base[p] + a) % Alignment = (Base[q] + a) % Alignment
  BY <1>1, SameRemainder DEF AlignedAlike
<1>. QED  BY <1>2 DEF PlaceAligned, AlignedPlaces

\* Adding a block of a new name in a free place keeps names unique.
LEMMA WithNamed ==
  ASSUME NEW h, Named(h), NEW a \in 0 .. HeapSize - 1, a \notin DOMAIN h,
         NEW size \in Nat \ {0}, NEW k, \A b \in DOMAIN h : h[b].name # k
  PROVE  Named(With(h, a, Block(size, k)))
<1>. DEFINE g == With(h, a, Block(size, k))
<1>1. /\ DOMAIN g = DOMAIN h \cup {a} /\ g[a] = Block(size, k)
      /\ \A b \in DOMAIN h : g[b] = h[b]
      /\ g = [b \in DOMAIN g |-> g[b]]
  BY DEF With
<1>2. g[a].size = size /\ g[a].name = k  BY <1>1, BlockFacts
<1>. HIDE DEF g
<1>. QED
  <2>1. DOMAIN g \subseteq 0 .. HeapSize - 1  BY <1>1 DEF Named
  <2>2. \A b \in DOMAIN g : g[b] = Block(g[b].size, g[b].name) /\ g[b].size \in Nat \ {0}
    BY <1>1, <1>2 DEF Named
  <2>3. \A b, c \in DOMAIN g : g[b].name = g[c].name /\ g[b].name # Lost => b = c
    BY <1>1, <1>2 DEF Named
  <2>4. Named(g)  BY <1>1, <2>1, <2>2, <2>3 DEF Named
  <2>. QED  BY <2>4 DEF g

\* So does removing a block.
LEMMA WithoutNamed ==
  ASSUME NEW h, Named(h), NEW a PROVE Named(Without(h, a))
<1>. DEFINE g == Without(h, a)
<1>1. /\ DOMAIN g = DOMAIN h \ {a}
      /\ \A b \in DOMAIN g : g[b] = h[b]
      /\ g = [b \in DOMAIN g |-> g[b]]
  BY DEF Without, Restrict
<1>. HIDE DEF g
<1>2. Named(g)  BY <1>1 DEF Named
<1>. QED  BY <1>2 DEF g

\* The long of the symmetry check comes and goes and leaves the blocks where they were.
LEMMA CellHeapFacts ==
  ASSUME NEW h, NEW n \in Nat, GoodHeap(h, n), Place(h, 1) # NULL
  PROVE  /\ Named(CellHeap(h))
         /\ Address(CellHeap(h), Cell) = Place(h, 1)
         /\ Without(CellHeap(h), Place(h, 1)) = h
         /\ \A k : k # Lost /\ k # Cell => Address(CellHeap(h), k) = Address(h, k)
<1>. DEFINE a == Place(h, 1)
            g == CellHeap(h)
<1>1. Named(h) /\ a \in 0 .. HeapSize - 1 /\ a \notin DOMAIN h
  BY PlaceFree DEF GoodHeap
<1>2. \A b \in DOMAIN h : h[b].name # Cell  BY DEF GoodHeap, Cell, Lost
<1>3. Named(g)  BY <1>1, <1>2, WithNamed DEF CellHeap
<1>4. /\ DOMAIN g = DOMAIN h \cup {a} /\ g[a].name = Cell
      /\ \A b \in DOMAIN h : g[b] = h[b]
  BY <1>1, BlockFacts DEF CellHeap, With
<1>5. Address(g, Cell) = a  BY <1>3, <1>4, AddressOf DEF Cell, Lost
<1>6. Without(g, a) = h
  <2>1. Without(g, a) = [b \in DOMAIN g \ {a} |-> Without(g, a)[b]]  BY WithoutFacts
  <2>2. DOMAIN g \ {a} = DOMAIN h  BY <1>1, <1>4
  <2>3. \A b \in DOMAIN h : Without(g, a)[b] = h[b]
    BY <1>1, <1>4 DEF Without, Restrict
  <2>4. h = [b \in DOMAIN h |-> h[b]]  BY <1>1 DEF Named
  <2>. HIDE DEF g, a
  <2>. QED  BY <2>1, <2>2, <2>3, <2>4
<1>7. ASSUME NEW k, k # Lost, k # Cell PROVE Address(g, k) = Address(h, k)
  <2>. HIDE DEF g, a
  <2>. QED  BY <1>1, <1>3, <1>4, <1>7, AddressSame
<1>. QED  BY <1>3, <1>5, <1>6, <1>7

-----------------------------------------------------------------------------

\* The size of a call on which all PEs agree is the size each of them passes.
LEMMA SizeIsNat ==
  ASSUME NEW p \in PE, NEW n \in Nat, NEW c, CallOK(c, n)
  PROVE  /\ Size(c) \in Nat
         /\ \A q \in PE : Same(c) =>
              Size(c) = IF c.op = "shpalloc" THEN Scale * c.size[q] ELSE c.size[q]
         /\ \A q \in PE : c.size[q] = 0 => Size(c) = 0
<1>. DEFINE r == CHOOSE q \in PE : TRUE
<1>1. r \in PE  OBVIOUS
<1>2. c.size[r] \in Nat /\ Scale \in Nat  BY <1>1, HeapAssumption DEF CallOK
<1>3. Size(c) = IF c.op = "shpalloc" THEN Scale * c.size[r] ELSE c.size[r]  BY DEF Size
<1>. HIDE DEF r
<1>4. Size(c) \in Nat  BY <1>2, <1>3
<1>5. \A q \in PE : Same(c) => c.size[q] = c.size[r]  BY <1>1 DEF Same
<1>6. \A q \in PE : c.size[q] = 0 => c.size[r] = 0  BY <1>1 DEF CallOK
<1>7. c.size[r] = 0 => Size(c) = 0  BY <1>2, <1>3
<1>. QED  BY <1>3, <1>4, <1>5, <1>6, <1>7

\* What calls do behind their Fortran names.
LEMMA KindFacts ==
  ASSUME NEW n \in Nat \ {0}, NEW c, CallOK(c, n)
  PROVE  /\ Kind(c) \in {"malloc", "align", "malloc_nb", "realloc", "free", "free_nb"}
         /\ Kind(c) = "free_nb" <=> c.op = "free_nb"
         /\ Kind(c) = "malloc_nb" <=> c.op = "malloc_nb"
         /\ Kind(c) = "align" <=> c.op = "align"
         /\ c.op = "shpalloc" => Kind(c) = "malloc"
         /\ c.op = "shpclmove" => Kind(c) = "realloc"
         /\ Kind(c) \in {"realloc", "free", "free_nb"} => c.block \in 1 .. n - 1
         /\ c.block \in Nat /\ c.block # Lost /\ c.block # Cell
  BY DEF CallOK, CallKinds, Kind, Lost, Cell

\* The block of a call is on the heap or nowhere; only calls that take a pointer find it.
LEMMA OfFacts ==
  ASSUME NEW n \in Nat \ {0}, NEW c, CallOK(c, n), NEW h, GoodHeap(h, n - 1)
  PROVE  /\ Of(c, h) = NULL => \A a \in DOMAIN h : h[a].name # c.block
         /\ Of(c, h) # NULL => Of(c, h) \in DOMAIN h /\ h[Of(c, h)].name = c.block
         /\ Of(c, h) # NULL => Kind(c) \in {"realloc", "free", "free_nb"}
<1>1. Named(h)  BY DEF GoodHeap
<1>2. c.block # Lost /\ c.block \in Nat  BY KindFacts
<1>3. DOMAIN h \subseteq 0 .. HeapSize - 1  BY <1>1 DEF Named
<1>4. Of(c, h) = NULL \/ (Of(c, h) \in DOMAIN h /\ h[Of(c, h)].name = c.block)
  BY <1>1, <1>2, AddressOf DEF Of
<1>5. \A a \in DOMAIN h : h[a].name = c.block => Of(c, h) = a
  BY <1>1, <1>2, AddressOf DEF Of
<1>6. \A a \in DOMAIN h : h[a].name # n  BY DEF GoodHeap, Lost
<1>7. Kind(c) \notin {"realloc", "free", "free_nb"} => c.block = n
  BY KindFacts DEF CallOK
<1>. QED  BY <1>3, <1>4, <1>5, <1>6, <1>7, NotNull

\* A heap on which a block has lost its name is a heap.
LEMMA ForgottenGood ==
  ASSUME NEW n \in Nat \ {0}, NEW c, CallOK(c, n), NEW h, GoodHeap(h, n - 1), Of(c, h) # NULL
  PROVE  GoodHeap(Forgotten(c, h), n)
<1>. DEFINE a == Of(c, h)
            g == [h EXCEPT ![a].name = Lost]
<1>1. a \in DOMAIN h  BY OfFacts
<1>2. h = [b \in DOMAIN h |-> h[b]] /\ h[a] = Block(h[a].size, h[a].name) /\ h[a].size \in Nat \ {0}
  BY <1>1 DEF GoodHeap, Named
<1>. HIDE DEF a
<1>3. DOMAIN g = DOMAIN h /\ g = [b \in DOMAIN h |-> g[b]]  BY <1>2
<1>4. \A b \in DOMAIN h : b # a => g[b] = h[b]  BY <1>2
<1>5. g[a] = Block(h[a].size, Lost)
  <2>1. g[a] = [h[a] EXCEPT !.name = Lost]  BY <1>1, <1>2
  <2>. QED  BY <1>2, <2>1 DEF Block
<1>6. g[a].size = h[a].size /\ g[a].name = Lost  BY <1>5, BlockFacts
<1>. HIDE DEF g
<1>7. Named(g)
  <2>1. DOMAIN g \subseteq 0 .. HeapSize - 1  BY <1>3 DEF GoodHeap, Named
  <2>2. \A b \in DOMAIN g : g[b] = Block(g[b].size, g[b].name) /\ g[b].size \in Nat \ {0}
    BY <1>2, <1>3, <1>4, <1>5, <1>6 DEF GoodHeap, Named
  <2>3. \A b, d \in DOMAIN g : g[b].name = g[d].name /\ g[b].name # Lost => b = d
    BY <1>3, <1>4, <1>6 DEF GoodHeap, Named
  <2>. QED  BY <1>3, <2>1, <2>2, <2>3 DEF Named
<1>8. GoodHeap(g, n)  BY <1>3, <1>4, <1>6, <1>7 DEF GoodHeap
<1>9. GoodHeap(h, n)  BY DEF GoodHeap
<1>. QED  BY <1>8, <1>9 DEF Forgotten, g, a

\* An allocation goes where no other block starts.
LEMMA PlaceOfFacts ==
  ASSUME NEW p \in PE, NEW n \in Nat \ {0}, NEW c, CallOK(c, n), NEW h, GoodHeap(h, n - 1),
         Allocates(c, h), PlaceOf(c, h) # NULL
  PROVE  /\ PlaceOf(c, h) \in 0 .. HeapSize - 1
         /\ PlaceOf(c, h) \notin DOMAIN Without(h, Of(c, h))
         /\ Of(c, h) = NULL => PlaceOf(c, h) \notin DOMAIN h
         /\ Of(c, h) # NULL => Kind(c) = "realloc" /\ Size(c) # 0
<1>1. Named(h) /\ Size(c) \in Nat  BY SizeIsNat DEF GoodHeap
<1>0. DOMAIN Without(h, Of(c, h)) = DOMAIN h \ {Of(c, h)}  BY DEF Without, Restrict
<1>2. CASE Of(c, h) = NULL
  <2>1. AtLeastOne(Size(c)) \in Nat \ {0}  BY <1>1 DEF AtLeastOne
  <2>2. PlaceOf(c, h) = IF c.op = "align" THEN PlaceAligned(CHOOSE q \in PE : TRUE, h, AtLeastOne(Size(c)))
                        ELSE Place(h, AtLeastOne(Size(c)))
    BY <1>2 DEF PlaceOf
  <2>3. PlaceOf(c, h) \in 0 .. HeapSize - 1 /\ PlaceOf(c, h) \notin DOMAIN h
    BY <1>1, <2>1, <2>2, PlaceFree
  <2>. QED  BY <1>0, <1>2, <2>3
<1>3. CASE Of(c, h) # NULL
  <2>1. Kind(c) = "realloc" /\ Size(c) # 0
    BY <1>3, OfFacts, KindFacts DEF Allocates, Releases, Frees
  <2>2. PlaceOf(c, h) = Resized(h, Of(c, h), Size(c))  BY <1>3 DEF PlaceOf
  <2>3. Of(c, h) \in 0 .. HeapSize - 1  BY <1>1, <1>3, OfFacts DEF Named
  <2>4. CASE PlaceOf(c, h) = Of(c, h)
    BY <1>0, <1>3, <2>1, <2>3, <2>4
  <2>5. CASE PlaceOf(c, h) # Of(c, h)
    <3>1. PlaceOf(c, h) = Place(h, Size(c))  BY <2>2, <2>5 DEF Resized
    <3>2. PlaceOf(c, h) \in 0 .. HeapSize - 1 /\ PlaceOf(c, h) \notin DOMAIN h
      BY <1>1, <2>1, <3>1, PlaceFree
    <3>. QED  BY <1>0, <1>3, <2>1, <3>2
  <2>. QED  BY <2>4, <2>5
<1>. QED  BY <1>2, <1>3

\* A heap after an allocation is a heap.
LEMMA NewHeapGood ==
  ASSUME NEW p \in PE, NEW n \in Nat \ {0}, NEW c, CallOK(c, n), NEW h, GoodHeap(h, n - 1),
         Allocates(c, h)
  PROVE  GoodHeap(NewHeap(c, h), n)
<1>. DEFINE a == PlaceOf(c, h)
<1>1. Named(h) /\ GoodHeap(h, n)  BY DEF GoodHeap
<1>2. Size(c) \in Nat  BY SizeIsNat
<1>3. c.block \in 1 .. n  BY DEF CallOK
<1>4. CASE a = NULL
  <2>1. CASE Of(c, h) = NULL  BY <1>1, <1>4, <2>1 DEF NewHeap
  <2>2. CASE Of(c, h) # NULL  BY <1>4, <2>2, ForgottenGood DEF NewHeap
  <2>. QED  BY <2>1, <2>2
<1>5. CASE a # NULL /\ Of(c, h) = NULL
  <2>. DEFINE size == AtLeastOne(Size(c))
              g == With(h, a, Block(size, c.block))
  <2>1. size \in Nat \ {0}  BY <1>2 DEF AtLeastOne
  <2>2. a \in 0 .. HeapSize - 1 /\ a \notin DOMAIN h  BY <1>5, PlaceOfFacts
  <2>3. \A b \in DOMAIN h : h[b].name # c.block  BY <1>5, OfFacts
  <2>. HIDE DEF size, a
  <2>4. Named(g)  BY <1>1, <2>1, <2>2, <2>3, WithNamed
  <2>5. DOMAIN g = DOMAIN h \cup {a} /\ g[a].name = c.block /\ \A b \in DOMAIN h : g[b] = h[b]
    BY <2>2, BlockFacts DEF With
  <2>. HIDE DEF g
  <2>6. GoodHeap(g, n)  BY <1>1, <1>3, <2>4, <2>5 DEF GoodHeap
  <2>7. NewHeap(c, h) = g  BY <1>5 DEF NewHeap, g, a, size
  <2>. QED  BY <2>6, <2>7
<1>6. CASE a # NULL /\ Of(c, h) # NULL
  <2>. DEFINE o == Of(c, h)
              w == Without(h, o)
              g == With(w, a, Block(Size(c), c.block))
  <2>1. Size(c) \in Nat \ {0} /\ a \in 0 .. HeapSize - 1 /\ a \notin DOMAIN w
    BY <1>2, <1>6, PlaceOfFacts
  <2>2. o \in DOMAIN h /\ h[o].name = c.block  BY <1>6, OfFacts
  <2>3. Named(w)  BY <1>1, WithoutNamed
  <2>. HIDE DEF o
  <2>4. DOMAIN w = DOMAIN h \ {o} /\ \A b \in DOMAIN w : w[b] = h[b]
    BY DEF Without, Restrict
  <2>5. \A b \in DOMAIN w : w[b].name # c.block
    BY <1>1, <1>3, <2>2, <2>4 DEF Named, Lost
  <2>. HIDE DEF w, a
  <2>6. Named(g)  BY <2>1, <2>3, <2>5, WithNamed
  <2>7. DOMAIN g = DOMAIN w \cup {a} /\ g[a].name = c.block /\ \A b \in DOMAIN w : g[b] = w[b]
    BY <2>1, BlockFacts DEF With
  <2>. HIDE DEF g
  <2>8. \A b \in DOMAIN g : g[b].name = Lost \/ g[b].name \in 1 .. n
    BY <1>1, <1>3, <2>4, <2>7 DEF GoodHeap
  <2>9. GoodHeap(g, n)  BY <2>6, <2>8 DEF GoodHeap
  <2>10. NewHeap(c, h) = g  BY <1>6 DEF NewHeap, g, a, w, o
  <2>. QED  BY <2>9, <2>10
<1>. QED  BY <1>4, <1>5, <1>6

\* A heap after a release is a heap.
LEMMA WithoutGood ==
  ASSUME NEW h, NEW n \in Nat, GoodHeap(h, n), NEW a
  PROVE  GoodHeap(Without(h, a), n)
<1>. DEFINE g == Without(h, a)
<1>1. Named(g)  BY WithoutNamed DEF GoodHeap
<1>2. DOMAIN g = DOMAIN h \ {a} /\ \A b \in DOMAIN g : g[b] = h[b]
  BY DEF Without, Restrict
<1>. HIDE DEF g
<1>3. GoodHeap(g, n)  BY <1>1, <1>2 DEF GoodHeap
<1>. QED  BY <1>3 DEF g

\* The fields of a state.
LEMMA StateFacts ==
  ASSUME NEW h, NEW e, NEW code, NEW b
  PROVE  /\ State(h, e, code, b).heap = h /\ State(h, e, code, b).error = e
         /\ State(h, e, code, b).code = code /\ State(h, e, code, b).bars = b
  BY DEF State

\* Every call makes a heap of a heap.
LEMMA AfterGood ==
  ASSUME NEW p \in PE, NEW n \in Nat \ {0}, NEW c, CallOK(c, n), NEW s, GoodHeap(s.heap, n - 1)
  PROVE  GoodHeap(After(s, c).heap, n)
<1>1. GoodHeap(s.heap, n)  BY DEF GoodHeap
<1>2. CASE Nothing(c)  BY <1>1, <1>2, StateFacts DEF After, AfterNothing
<1>3. CASE ~Nothing(c) /\ Releases(c, s.heap)
  BY <1>1, <1>3, StateFacts, WithoutGood DEF After, AfterRelease
<1>4. CASE Allocates(c, s.heap) /\ Debug /\ ~Same(c)
  <2>1. CASE MallocLike(c, s.heap)
    BY <1>1, <1>4, <2>1, StateFacts DEF After, AfterRefusal, Allocates
  <2>2. CASE ~MallocLike(c, s.heap)
    <3>1. Forgotten(c, s.heap) = s.heap \/ Of(c, s.heap) # NULL
      BY <2>2, KindFacts DEF MallocLike, Forgotten
    <3>2. After(s, c).heap = Forgotten(c, s.heap)
      BY <1>4, <2>2, StateFacts DEF After, AfterRefusal, Allocates
    <3>. QED  BY <1>1, <3>1, <3>2, ForgottenGood
  <2>. QED  BY <2>1, <2>2
<1>5. CASE Allocates(c, s.heap) /\ ~ (Debug /\ ~Same(c))
  <2>1. After(s, c).heap = NewHeap(c, s.heap)
    BY <1>5, StateFacts DEF After, AfterAllocation, Allocates
  <2>. QED  BY <1>5, <2>1, NewHeapGood
<1>. QED  BY <1>2, <1>3, <1>4, <1>5 DEF Allocates

\* What a call adds to the barriers: an allocation in a debug build the two of the check,
\* shfree one, and only shfree_nb and a call that does nothing add none.
LEMMA AfterBars ==
  ASSUME NEW s, s.bars \in Nat, NEW c
  PROVE  /\ After(s, c).bars \in Nat
         /\ s.bars <= After(s, c).bars
         /\ Debug /\ Allocates(c, s.heap) => s.bars + 2 <= After(s, c).bars
         /\ ~Nothing(c) /\ Releases(c, s.heap) /\ c.op # "free_nb" => After(s, c).bars = s.bars + 1
         /\ After(s, c).bars = s.bars =>
              Nothing(c) \/ c.op = "malloc_nb" \/ (c.op = "free_nb" /\ ~Nothing(c) /\ Releases(c, s.heap))
<1>1. CASE Nothing(c)
  BY <1>1, StateFacts DEF After, AfterNothing, Allocates
<1>2. CASE ~Nothing(c) /\ Releases(c, s.heap)
  BY <1>2, StateFacts DEF After, AfterRelease, Allocates
<1>3. CASE Allocates(c, s.heap) /\ Debug /\ ~Same(c)
  BY <1>3, StateFacts DEF After, AfterRefusal, Allocates
<1>4. CASE Allocates(c, s.heap) /\ ~ (Debug /\ ~Same(c))
  BY <1>4, StateFacts DEF After, AfterAllocation, Allocates, Checks, LastBar
<1>. QED  BY <1>1, <1>2, <1>3, <1>4 DEF Allocates

-----------------------------------------------------------------------------
(* Where the blocks are after a call.                                      *)

\* Removing a block removes its name and no other.
LEMMA AddressWithout ==
  ASSUME NEW h, Named(h), NEW a \in DOMAIN h, NEW k, k # Lost
  PROVE  /\ h[a].name = k => Address(Without(h, a), k) = NULL
         /\ h[a].name # k => Address(Without(h, a), k) = Address(h, k)
<1>. DEFINE g == Without(h, a)
<1>1. Named(g)  BY WithoutNamed
<1>2. DOMAIN g = DOMAIN h \ {a} /\ \A b \in DOMAIN g : g[b] = h[b]
  BY DEF Without, Restrict
<1>. HIDE DEF g
<1>3. ASSUME h[a].name = k PROVE Address(g, k) = NULL
  <2>1. \A b \in DOMAIN g : g[b].name # k  BY <1>2, <1>3 DEF Named
  <2>. QED  BY <2>1 DEF Address
<1>4. ASSUME h[a].name # k PROVE Address(g, k) = Address(h, k)
  BY <1>1, <1>2, <1>4, AddressSame
<1>. QED  BY <1>3, <1>4 DEF g

\* A failed shpclmove loses the pointer to its block and no other.
LEMMA AddressForgotten ==
  ASSUME NEW n \in Nat \ {0}, NEW c, CallOK(c, n), NEW h, GoodHeap(h, n - 1), Of(c, h) # NULL,
         NEW k \in Nat \ {0}
  PROVE  /\ k # c.block => Address(Forgotten(c, h), k) = Address(h, k)
         /\ Address(Forgotten(c, h), k) = NULL \/ Address(Forgotten(c, h), k) = Address(h, k)
         /\ c.op = "shpclmove" => Address(Forgotten(c, h), c.block) = NULL
<1>1. CASE c.op # "shpclmove"  BY <1>1 DEF Forgotten
<1>2. CASE c.op = "shpclmove"
  <2>. DEFINE a == Of(c, h)
              g == Forgotten(c, h)
  <2>1. a \in DOMAIN h /\ h[a].name = c.block /\ Named(h)  BY OfFacts DEF GoodHeap
  <2>2. g = [h EXCEPT ![a].name = Lost]  BY <1>2 DEF Forgotten
  <2>3. Named(g)  BY ForgottenGood DEF GoodHeap
  <2>4. k # Lost /\ c.block # Lost  BY KindFacts DEF Lost
  <2>5. h = [b \in DOMAIN h |-> h[b]] /\ h[a] = Block(h[a].size, h[a].name)  BY <2>1 DEF Named
  <2>. HIDE DEF g, a
  <2>6. /\ DOMAIN g = DOMAIN h /\ g[a].name = Lost
        /\ \A b \in DOMAIN h : b # a => g[b] = h[b]
    <3>1. DOMAIN g = DOMAIN h /\ \A b \in DOMAIN h : b # a => g[b] = h[b]  BY <2>2, <2>5
    <3>2. g[a] = [h[a] EXCEPT !.name = Lost]  BY <2>1, <2>2, <2>5
    <3>3. g[a].name = Lost  BY <2>5, <3>2 DEF Block
    <3>. QED  BY <3>1, <3>3
  <2>7. Address(g, c.block) = NULL
    <3>1. \A b \in DOMAIN g : g[b].name # c.block  BY <2>1, <2>4, <2>6 DEF Named
    <3>. QED  BY <3>1 DEF Address
  <2>8. ASSUME k # c.block PROVE Address(g, k) = Address(h, k)
    BY <2>1, <2>3, <2>4, <2>6, <2>8, AddressSame
  <2>. QED  BY <1>2, <2>7, <2>8 DEF g
<1>. QED  BY <1>1, <1>2

\* An allocation leaves the other blocks where they are.
LEMMA AddressNew ==
  ASSUME NEW p \in PE, NEW n \in Nat \ {0}, NEW c, CallOK(c, n), NEW h, GoodHeap(h, n - 1),
         Allocates(c, h), NEW k \in Nat \ {0}, k # c.block
  PROVE  Address(NewHeap(c, h), k) = Address(h, k)
<1>. DEFINE a == PlaceOf(c, h)
            g == NewHeap(c, h)
<1>1. Named(h) /\ Named(g)  BY NewHeapGood DEF GoodHeap
<1>2. k # Lost  BY DEF Lost
<1>3. CASE a = NULL
  <2>1. CASE Of(c, h) = NULL  BY <1>3, <2>1 DEF NewHeap
  <2>2. CASE Of(c, h) # NULL  BY <1>3, <2>2, AddressForgotten DEF NewHeap
  <2>. QED  BY <2>1, <2>2
<1>4. CASE a # NULL /\ Of(c, h) = NULL
  <2>1. a \notin DOMAIN h  BY <1>4, PlaceOfFacts
  <2>2. g = With(h, a, Block(AtLeastOne(Size(c)), c.block))  BY <1>4 DEF NewHeap
  <2>. HIDE DEF a, g
  <2>3. DOMAIN g = DOMAIN h \cup {a} /\ g[a].name = c.block /\ \A b \in DOMAIN h : g[b] = h[b]
    BY <2>1, <2>2, BlockFacts DEF With
  <2>4. Address(g, k) = Address(h, k)  BY <1>1, <1>2, <2>1, <2>3, AddressSame
  <2>. QED  BY <2>4 DEF g
<1>5. CASE a # NULL /\ Of(c, h) # NULL
  <2>. DEFINE o == Of(c, h)
              w == Without(h, o)
  <2>1. a \notin DOMAIN w  BY <1>5, PlaceOfFacts
  <2>2. o \in DOMAIN h /\ h[o].name = c.block  BY <1>5, OfFacts
  <2>3. g = With(w, a, Block(Size(c), c.block))  BY <1>5 DEF NewHeap
  <2>. HIDE DEF o
  <2>4. DOMAIN w = DOMAIN h \ {o} /\ \A b \in DOMAIN w : w[b] = h[b]
    BY DEF Without, Restrict
  <2>. HIDE DEF a, g, w
  <2>5. DOMAIN g = DOMAIN w \cup {a} /\ g[a].name = c.block /\ \A b \in DOMAIN w : g[b] = w[b]
    BY <2>1, <2>3, BlockFacts DEF With
  <2>6. \A b \in 0 .. HeapSize - 1 :
          (b \in DOMAIN h /\ h[b].name = k) <=> (b \in DOMAIN g /\ g[b].name = k)
    BY <2>1, <2>2, <2>4, <2>5
  <2>7. Address(g, k) = Address(h, k)  BY <1>1, <1>2, <2>6, AddressSame
  <2>. QED  BY <2>7 DEF g
<1>. QED  BY <1>3, <1>4, <1>5

\* A call moves its own block only, and releasing it leaves it nowhere.
LEMMA AfterElse ==
  ASSUME NEW p \in PE, NEW n \in Nat \ {0}, NEW c, CallOK(c, n), NEW s, GoodHeap(s.heap, n - 1),
         NEW k \in Nat \ {0}
  PROVE  /\ k # c.block => Address(After(s, c).heap, k) = Address(s.heap, k)
         /\ Nothing(c) => After(s, c).heap = s.heap
         /\ ~Nothing(c) /\ Releases(c, s.heap) => Address(After(s, c).heap, c.block) = NULL
         /\ Allocates(c, s.heap) /\ Debug /\ ~Same(c) =>
              \/ Address(After(s, c).heap, k) = NULL
              \/ Address(After(s, c).heap, k) = Address(s.heap, k)
<1>1. Named(s.heap) /\ k # Lost /\ c.block # Lost  BY KindFacts DEF GoodHeap, Lost
<1>2. CASE Nothing(c)
  BY <1>2, StateFacts DEF After, AfterNothing, Allocates
<1>3. CASE ~Nothing(c) /\ Releases(c, s.heap)
  <2>. DEFINE a == Of(c, s.heap)
  <2>1. After(s, c).heap = IF a = NULL THEN s.heap ELSE Without(s.heap, a)
    BY <1>3, StateFacts DEF After, AfterRelease
  <2>2. CASE a = NULL
    BY <1>3, <2>1, <2>2 DEF Of, Allocates
  <2>3. CASE a # NULL
    <3>1. a \in DOMAIN s.heap /\ s.heap[a].name = c.block  BY <2>3, OfFacts
    <3>2. Address(Without(s.heap, a), c.block) = NULL  BY <1>1, <3>1, AddressWithout
    <3>3. k # c.block => Address(Without(s.heap, a), k) = Address(s.heap, k)
      BY <1>1, <3>1, AddressWithout
    <3>. QED  BY <1>3, <2>1, <2>3, <3>2, <3>3 DEF Allocates
  <2>. QED  BY <2>2, <2>3
<1>4. CASE Allocates(c, s.heap) /\ Debug /\ ~Same(c)
  <2>1. After(s, c).heap = IF MallocLike(c, s.heap) THEN s.heap ELSE Forgotten(c, s.heap)
    BY <1>4, StateFacts DEF After, AfterRefusal, Allocates
  <2>2. ~MallocLike(c, s.heap) /\ Of(c, s.heap) = NULL => Forgotten(c, s.heap) = s.heap
    BY KindFacts DEF MallocLike, Forgotten
  <2>3. Of(c, s.heap) # NULL =>
          /\ k # c.block => Address(Forgotten(c, s.heap), k) = Address(s.heap, k)
          /\ Address(Forgotten(c, s.heap), k) = NULL \/ Address(Forgotten(c, s.heap), k) = Address(s.heap, k)
    BY AddressForgotten
  <2>. QED  BY <1>4, <2>1, <2>2, <2>3 DEF Allocates
<1>5. CASE Allocates(c, s.heap) /\ ~ (Debug /\ ~Same(c))
  <2>1. After(s, c).heap = NewHeap(c, s.heap)
    BY <1>5, StateFacts DEF After, AfterAllocation, Allocates
  <2>. QED  BY <1>5, <2>1, AddressNew DEF Allocates
<1>. QED  BY <1>2, <1>3, <1>4, <1>5 DEF Allocates

\* Without a barrier nothing but shfree_nb happens to the blocks there are.
LEMMA AfterStill ==
  ASSUME NEW p \in PE, NEW n \in Nat \ {0}, NEW c, CallOK(c, n),
         NEW s, GoodHeap(s.heap, n - 1), s.bars \in Nat,
         After(s, c).bars = s.bars, NEW k \in 1 .. n - 1
  PROVE  /\ Address(After(s, c).heap, k) = NULL \/ Address(After(s, c).heap, k) = Address(s.heap, k)
         /\ ~ (c.op = "free_nb" /\ c.block = k) => Address(After(s, c).heap, k) = Address(s.heap, k)
<1>1. Nothing(c) \/ c.op = "malloc_nb" \/ (c.op = "free_nb" /\ ~Nothing(c) /\ Releases(c, s.heap))
  BY AfterBars
<1>2. c.op = "malloc_nb" => k # c.block  BY DEF CallOK, Kind
<1>3. k \in Nat \ {0}  OBVIOUS
<1>. QED  BY <1>1, <1>2, <1>3, AfterElse

-----------------------------------------------------------------------------
(* The invariant.                                                          *)

CallRecord == [op : CallKinds, block : Nat, size : [PE -> Nat]]
Array(f) == f = [p \in PE |-> f[p]]

\* What the program has called, and the barrier.
Shape ==
  /\ log \in Seq(CallRecord)
  /\ \A n \in 1 .. Len(log) : CallOK(log[n], n)
  /\ calls \in [PE -> Nat]
  /\ \A p \in PE : calls[p] <= Len(log)
  /\ Array(pc) /\ Array(heap) /\ Array(cell) /\ Array(pe) /\ Array(malloc_error) /\ Array(errcode)
  /\ \A p \in PE : pc[p] \in Done \cup Checking \cup
       {"refused", "allocate", "arrive", "leave", "free", "free_leave", "release"}
  /\ arrived \in [PE -> Nat] /\ left \in [PE -> Nat]
  /\ \A p, q \in PE : left[p] <= arrived[q]

\* Without a barrier only shfree_nb changes where the blocks allocated before are.
Stable(H) ==
  \A i, j \in 0 .. Len(log) : i <= j /\ H[i].bars = H[j].bars =>
    \A k \in 1 .. i :
      /\ Address(H[j].heap, k) = NULL \/ Address(H[j].heap, k) = Address(H[i].heap, k)
      /\ (\A l \in i + 1 .. j : ~ (log[l].op = "free_nb" /\ log[l].block = k)) =>
           Address(H[j].heap, k) = Address(H[i].heap, k)

\* The heaps between calls, and how many barriers there were.
Past(H) ==
  /\ History(H)
  /\ \A n \in 0 .. Len(log) : GoodHeap(H[n].heap, n) /\ H[n].bars \in Nat
  /\ \A m, n \in 0 .. Len(log) : m <= n => H[m].bars <= H[n].bars
  /\ Stable(H)

IInv == Shape /\ \E H : Past(H) /\ \A p \in PE : At(p, H)

-----------------------------------------------------------------------------

\* What the program may call is a call.
LEMMA CallAllowed ==
  ASSUME Shape, Debug \/ Differing = {}, PlacesAgree, Len(log) < Len(Menu), NEW c \in Calls, NEW p0 \in PE
  PROVE  c \in CallRecord /\ CallOK(c, Len(log) + 1)
<1>. DEFINE n == Len(log) + 1
            menu == Menu[n]
<1>1. Len(log) \in Nat /\ n \in DOMAIN Menu /\ n \in Nat \ {0}
  BY HeapAssumption DEF Shape
<1>2. /\ DOMAIN menu \subseteq CallKinds
      /\ \A op \in DOMAIN menu : menu[op] \subseteq Nat
  BY <1>1, HeapAssumption DEF CallKinds
<1>3. PICK op \in DOMAIN menu : c \in [op : {op}, block : Blocks(op), size : Requested(menu[op])]
  BY DEF Calls
<1>4. c.op = op /\ c.block \in Blocks(op) /\ c.size \in Requested(menu[op])
      /\ c = [op |-> c.op, block |-> c.block, size |-> c.size]
  BY <1>3
<1>5. op \in CallKinds /\ c.size \in [PE -> Nat]  BY <1>2, <1>4 DEF Requested
<1>6. /\ Same(c) \/ Debug
      /\ \A p, q \in PE : c.size[p] = 0 <=> c.size[q] = 0
  BY <1>4 DEF Requested, Same
<1>7. Names \subseteq 1 .. Len(log)  BY DEF Names
<1>8. /\ c.block \in 1 .. n
      /\ c.block = n <=> Kind(c) \in {"malloc", "align", "malloc_nb"}
  <2>1. CASE op \in {"malloc", "align", "malloc_nb", "shpalloc"}
    <3>1. c.block = n  BY <1>4, <2>1 DEF Blocks
    <3>2. Kind(c) \in {"malloc", "align", "malloc_nb"}  BY <1>4, <2>1 DEF Kind
    <3>. QED  BY <1>1, <3>1, <3>2
  <2>2. CASE op \in {"realloc", "free", "free_nb", "shpclmove", "shpdeallc"}
    <3>1. c.block \in 1 .. Len(log)  BY <1>4, <1>7, <2>2 DEF Blocks
    <3>2. Kind(c) \in {"realloc", "free", "free_nb"}  BY <1>4, <2>2 DEF Kind
    <3>. QED  BY <1>1, <3>1, <3>2
  <2>. QED  BY <1>5, <2>1, <2>2 DEF CallKinds
<1>9. c.op = "align" => AlignedAlike  BY <1>1, <1>3, <1>4 DEF PlacesAgree
<1>10. CallOK(c, n)  BY <1>4, <1>5, <1>6, <1>8, <1>9 DEF CallOK
<1>11. c \in CallRecord  BY <1>1, <1>4, <1>5, <1>8 DEF CallRecord
<1>. QED  BY <1>10, <1>11

\* Where nothing changes for a PE it is where it was.
LEMMA Elsewhere ==
  ASSUME Shape, NEW H, NEW G, NEW q \in PE, At(q, H),
         pc'[q] = pc[q], calls'[q] = calls[q], heap'[q] = heap[q], cell'[q] = cell[q],
         pe'[q] = pe[q], malloc_error'[q] = malloc_error[q], errcode'[q] = errcode[q],
         arrived'[q] = arrived[q], left'[q] = left[q],
         \A n \in 1 .. Len(log) : log'[n] = log[n],
         \A n \in 0 .. Len(log) : G[n] = H[n]
  PROVE  At(q, G)'
<1>1. calls[q] \in 0 .. Len(log)  BY DEF Shape
<1>2. G[calls[q]] = H[calls[q]]  BY <1>1
<1>3. CASE pc[q] \in Done
  <2>1. AtRest(q, H[calls[q]])  BY DEF At
  <2>2. AtRest(q, H[calls[q]])'  BY <2>1 DEF AtRest, Bars
  <2>3. AtRest(q, G[calls[q]])'  BY <1>2, <2>2
  <2>. QED  BY <1>3, <2>3 DEF At
<1>4. CASE pc[q] \notin Done
  <2>1. calls[q] > 0 /\ InCall(q, H[calls[q] - 1], H[calls[q]], log[calls[q]])
    BY <1>4 DEF At
  <2>2. log'[calls'[q]] = log[calls[q]]  BY <1>1, <2>1
  <2>3. G[calls'[q] - 1] = H[calls[q] - 1] /\ G[calls'[q]] = H[calls[q]]  BY <1>1, <2>1
  <2>4. PICK s, t, c : s = H[calls[q] - 1] /\ t = H[calls[q]] /\ c = log[calls[q]]
    OBVIOUS
  <2>5. Now(q)' = c /\ Now(q) = c  BY <2>2, <2>4 DEF Now
  <2>6. MySize(q)' = MySize(q)  BY <2>5 DEF MySize
  <2>7. InCall(q, s, t, c)  BY <2>1, <2>4
  <2>8. InCheck(q, s, c)'  BY <2>6, <2>7 DEF InCall, InCheck, Bars
  <2>9. InAllocation(q, s, t, c)'  BY <2>7 DEF InCall, InAllocation, Bars
  <2>10. InRelease(q, s, c)'  BY <2>7 DEF InCall, InRelease, Bars
  <2>11. InCall(q, s, t, c)'  BY <2>7, <2>8, <2>9, <2>10 DEF InCall
  <2>12. calls'[q] > 0 /\ pc'[q] \notin Done  BY <1>4, <2>1
  <2>13. s = G[calls'[q] - 1] /\ t = G[calls'[q]] /\ c = log'[calls'[q]]
    BY <2>2, <2>3, <2>4
  <2>14. AtRest(q, G[calls[q]])'  BY <2>12 DEF AtRest
  <2>15. InCall(q, G[calls[q] - 1], G[calls[q]], log[calls[q]])'  BY <2>11, <2>13
  <2>. QED  BY <2>12, <2>14, <2>15 DEF At
<1>. QED  BY <1>3, <1>4

\* What is known of a call a PE is in.
InTheCall(p, s, t, c, n) ==
  /\ n = calls[p] /\ n \in Nat \ {0} /\ n <= Len(log)
  /\ c = log[n] /\ c = Now(p) /\ CallOK(c, n)
  /\ GoodHeap(s.heap, n - 1) /\ s.bars \in Nat
  /\ t = After(s, c)
  /\ InCall(p, s, t, c)

\* A PE that is not between calls is in one.
LEMMA TheCall ==
  ASSUME Shape, NEW H, Past(H), NEW p \in PE, At(p, H), pc[p] \notin Done
  PROVE  \E s, t, c, n : /\ s = H[calls[p] - 1] /\ t = H[calls[p]]
                         /\ InTheCall(p, s, t, c, n)
<1>1. PICK s, t, c, n : s = H[calls[p] - 1] /\ t = H[calls[p]] /\ c = log[calls[p]] /\ n = calls[p]
  OBVIOUS
<1>2. n \in Nat \ {0} /\ n <= Len(log) /\ Len(log) \in Nat  BY <1>1 DEF At, Shape
<1>3. CallOK(c, n)  BY <1>1, <1>2 DEF Shape
<1>4. GoodHeap(s.heap, n - 1) /\ s.bars \in Nat
  <2>1. n - 1 \in 0 .. Len(log) /\ s = H[n - 1]  BY <1>1, <1>2
  <2>. QED  BY <2>1 DEF Past
<1>5. t = After(s, c)
  <2>1. H[n] = After(H[n - 1], log[n])  BY <1>2 DEF Past, History
  <2>. QED  BY <1>1, <2>1
<1>6. InCall(p, s, t, c)  BY <1>1 DEF At
<1>7. InTheCall(p, s, t, c, n)
  BY <1>1, <1>2, <1>3, <1>4, <1>5, <1>6 DEF InTheCall, Now, CallOK
<1>. QED  BY <1>1, <1>7

\* It is enough to look at the call, or at what it leaves.
LEMMA StillInTheCall ==
  ASSUME Shape, NEW H, NEW p \in PE, NEW s, NEW t, NEW c, NEW n,
         s = H[calls[p] - 1], t = H[calls[p]], InTheCall(p, s, t, c, n),
         log' = log, calls' = calls,
         \/ pc'[p] \in Done /\ AtRest(p, t)'
         \/ pc'[p] \notin Done /\ InCall(p, s, t, c)'
  PROVE  At(p, H)'
<1>1. H[calls[p]]' = t /\ H[calls[p] - 1]' = s /\ log'[calls'[p]] = c /\ calls'[p] > 0
  <2>1. n = calls[p] /\ n > 0 /\ c = log[n]  BY DEF InTheCall
  <2>. QED  BY <2>1
<1>2. CASE pc'[p] \in Done /\ AtRest(p, t)'
  <2>1. AtRest(p, H[calls[p]])'  BY <1>1, <1>2
  <2>. QED  BY <1>2, <2>1 DEF At
<1>3. CASE pc'[p] \notin Done /\ InCall(p, s, t, c)'
  <2>1. AtRest(p, H[calls[p]])'  BY <1>3 DEF AtRest
  <2>2. InCall(p, H[calls[p] - 1], H[calls[p]], log[calls[p]])'  BY <1>1, <1>3
  <2>. QED  BY <1>1, <1>3, <2>1, <2>2 DEF At
<1>. QED  BY <1>2, <1>3

-----------------------------------------------------------------------------
(* Each step of a call.                                                    *)

\* Where sizes agree, MySize is the size of the call.
LEMMA SameSize ==
  ASSUME NEW p \in PE, NEW c, NEW n \in Nat, CallOK(c, n), Same(c), c = Now(p)
  PROVE  MySize(p) = Size(c)
  BY SizeIsNat DEF MySize

\* __shmalloc_symmetry_check up to its first barrier: the long is on the heap.
LEMMA CheckBeginAt ==
  ASSUME Shape, NEW H, Past(H), NEW p \in PE, At(p, H), CheckBegin(p)
  PROVE  At(p, H)'
<1>1. log' = log /\ calls' = calls  BY DEF CheckBegin
<1>2. PICK s, t, c, n : s = H[calls[p] - 1] /\ t = H[calls[p]] /\ InTheCall(p, s, t, c, n)
  BY TheCall DEF Done, CheckBegin
<1>3. /\ c = Now(p) /\ Now(p)' = c /\ MySize(p)' = MySize(p) /\ n \in Nat \ {0}
      /\ CallOK(c, n) /\ GoodHeap(s.heap, n - 1) /\ s.bars \in Nat
      /\ t = After(s, c) /\ InCall(p, s, t, c)
  BY <1>1, <1>2 DEF InTheCall, Now, MySize
<1>4. /\ pc[p] = "check" /\ Debug /\ Allocates(c, s.heap) /\ heap[p] = s.heap
      /\ Bars(p, s.bars, s.bars) /\ errcode[p] = s.code
  BY <1>3 DEF CheckBegin, InCall, InCheck, Checking
<1>5. /\ errcode' = errcode /\ Bars(p, s.bars, s.bars)'
  BY <1>4 DEF CheckBegin, Bars, barrier
<1>6. CASE Place(heap[p], 1) = NULL
  <2>1. pc'[p] = "out of memory" /\ heap' = heap
    BY <1>6 DEF CheckBegin, Goto, Shape, Array
  <2>2. InCall(p, s, t, c)'
    BY <1>4, <1>5, <2>1 DEF InCall, InCheck, InAllocation, InRelease, Checking
  <2>. QED  BY <1>1, <1>2, <2>1, <2>2, StillInTheCall DEF Done
<1>7. CASE Place(heap[p], 1) # NULL
  <2>1. /\ pc'[p] = "check_arrive" /\ heap'[p] = CellHeap(s.heap) /\ cell'[p] = MySize(p)
    BY <1>4, <1>7 DEF CheckBegin, Goto, SetHeap, CellHeap, Shape, Array
  <2>2. InCall(p, s, t, c)'
    BY <1>3, <1>4, <1>5, <1>7, <2>1 DEF InCall, InCheck, InAllocation, InRelease, Checking
  <2>. QED  BY <1>1, <1>2, <2>1, <2>2, StillInTheCall DEF Done
<1>. QED  BY <1>6, <1>7

\* Entering the first barrier of the check.
LEMMA CheckArriveAt ==
  ASSUME Shape, NEW H, Past(H), NEW p \in PE, At(p, H), CheckArrive(p)
  PROVE  At(p, H)'
<1>1. log' = log /\ calls' = calls  BY DEF CheckArrive
<1>2. PICK s, t, c, n : s = H[calls[p] - 1] /\ t = H[calls[p]] /\ InTheCall(p, s, t, c, n)
  BY TheCall DEF Done, CheckArrive
<1>3. /\ c = Now(p) /\ Now(p)' = c /\ MySize(p)' = MySize(p) /\ n \in Nat \ {0}
      /\ CallOK(c, n) /\ GoodHeap(s.heap, n - 1) /\ s.bars \in Nat
      /\ t = After(s, c) /\ InCall(p, s, t, c)
  BY <1>1, <1>2 DEF InTheCall, Now, MySize
<1>4. /\ pc[p] = "check_arrive" /\ Bars(p, s.bars, s.bars)
      /\ Debug /\ Allocates(c, s.heap) /\ Place(s.heap, 1) # NULL
      /\ heap[p] = CellHeap(s.heap) /\ cell[p] = MySize(p) /\ errcode[p] = s.code
  BY <1>3 DEF CheckArrive, InCall, InCheck, Checking
<1>5. /\ pc'[p] = "check_leave" /\ Bars(p, s.bars + 1, s.bars)'
      /\ heap' = heap /\ cell' = cell /\ errcode' = errcode
  BY <1>4 DEF CheckArrive, Arrive, Barrier!Arrive, Bars, Goto, Shape, Array
<1>6. InCall(p, s, t, c)'
  BY <1>3, <1>4, <1>5 DEF InCall, InCheck, InAllocation, InRelease, Checking
<1>. QED  BY <1>1, <1>2, <1>5, <1>6, StillInTheCall DEF Done

\* Leaving it: nothing is compared yet.
LEMMA CheckLeaveAt ==
  ASSUME Shape, NEW H, Past(H), NEW p \in PE, At(p, H), CheckLeave(p)
  PROVE  At(p, H)'
<1>1. log' = log /\ calls' = calls  BY DEF CheckLeave
<1>2. PICK s, t, c, n : s = H[calls[p] - 1] /\ t = H[calls[p]] /\ InTheCall(p, s, t, c, n)
  BY TheCall DEF Done, CheckLeave
<1>3. /\ c = Now(p) /\ Now(p)' = c /\ MySize(p)' = MySize(p) /\ n \in Nat \ {0}
      /\ CallOK(c, n) /\ GoodHeap(s.heap, n - 1) /\ s.bars \in Nat
      /\ t = After(s, c) /\ InCall(p, s, t, c)
  BY <1>1, <1>2 DEF InTheCall, Now, MySize
<1>4. /\ pc[p] = "check_leave" /\ Bars(p, s.bars + 1, s.bars)
      /\ Debug /\ Allocates(c, s.heap) /\ Place(s.heap, 1) # NULL
      /\ heap[p] = CellHeap(s.heap) /\ cell[p] = MySize(p) /\ errcode[p] = s.code
  BY <1>3 DEF CheckLeave, InCall, InCheck, Checking
<1>5. /\ pc'[p] = "compare" /\ Bars(p, s.bars + 1, s.bars + 1)'
      /\ heap' = heap /\ cell' = cell /\ errcode' = errcode
      /\ pe'[p] = {p} /\ malloc_error'[p] = "OK"
  BY <1>4 DEF CheckLeave, Barrier!Leave, Bars, Goto, SetError, Shape, Array
<1>6. InCall(p, s, t, c)'
  BY <1>3, <1>4, <1>5 DEF InCall, InCheck, InAllocation, InRelease, Checking
<1>. QED  BY <1>1, <1>2, <1>5, <1>6, StillInTheCall DEF Done

\* Entering the second barrier: what has been compared decides.
LEMMA CheckArriveAgainAt ==
  ASSUME Shape, NEW H, Past(H), NEW p \in PE, At(p, H), CheckArriveAgain(p)
  PROVE  At(p, H)'
<1>1. log' = log /\ calls' = calls  BY DEF CheckArriveAgain
<1>2. PICK s, t, c, n : s = H[calls[p] - 1] /\ t = H[calls[p]] /\ InTheCall(p, s, t, c, n)
  BY TheCall DEF Done, CheckArriveAgain
<1>3. /\ c = Now(p) /\ Now(p)' = c /\ MySize(p)' = MySize(p) /\ n \in Nat \ {0}
      /\ CallOK(c, n) /\ GoodHeap(s.heap, n - 1) /\ s.bars \in Nat
      /\ t = After(s, c) /\ InCall(p, s, t, c)
  BY <1>1, <1>2 DEF InTheCall, Now, MySize
<1>4. /\ pc[p] = "compare" /\ pe[p] = PE /\ Bars(p, s.bars + 1, s.bars + 1)
      /\ Debug /\ Allocates(c, s.heap) /\ Place(s.heap, 1) # NULL
      /\ heap[p] = CellHeap(s.heap) /\ cell[p] = MySize(p) /\ errcode[p] = s.code
      /\ \/ malloc_error[p] = "OK" /\ \A q \in pe[p] : c.size[q] = c.size[p]
         \/ malloc_error[p] = "SYMMSIZE_FAILED" /\ pe[p] = PE /\ ~Same(c)
  BY <1>3 DEF CheckArriveAgain, InCall, InCheck, Checking
<1>5. /\ pc'[p] = "check_end" /\ Bars(p, s.bars + 2, s.bars + 1)'
      /\ heap' = heap /\ cell' = cell /\ errcode' = errcode /\ malloc_error' = malloc_error
  BY <1>3, <1>4 DEF CheckArriveAgain, Arrive, Barrier!Arrive, Bars, Goto, Shape, Array
<1>6. malloc_error[p] = IF Same(c) THEN "OK" ELSE "SYMMSIZE_FAILED"
  BY <1>4 DEF Same
<1>7. InCall(p, s, t, c)'
  BY <1>3, <1>4, <1>5, <1>6 DEF InCall, InCheck, InAllocation, InRelease, Checking
<1>. QED  BY <1>1, <1>2, <1>5, <1>7, StillInTheCall DEF Done

\* Leaving it: the long is freed, and the heap is what it was.
LEMMA CheckEndAt ==
  ASSUME Shape, NEW H, Past(H), NEW p \in PE, At(p, H), CheckEnd(p)
  PROVE  At(p, H)'
<1>1. log' = log /\ calls' = calls  BY DEF CheckEnd
<1>2. PICK s, t, c, n : s = H[calls[p] - 1] /\ t = H[calls[p]] /\ InTheCall(p, s, t, c, n)
  BY TheCall DEF Done, CheckEnd
<1>3. /\ c = Now(p) /\ Now(p)' = c /\ MySize(p)' = MySize(p) /\ n \in Nat \ {0}
      /\ CallOK(c, n) /\ GoodHeap(s.heap, n - 1) /\ s.bars \in Nat
      /\ t = After(s, c) /\ InCall(p, s, t, c)
  BY <1>1, <1>2 DEF InTheCall, Now, MySize
<1>4. /\ pc[p] = "check_end" /\ Bars(p, s.bars + 2, s.bars + 1)
      /\ Debug /\ Allocates(c, s.heap) /\ Place(s.heap, 1) # NULL
      /\ heap[p] = CellHeap(s.heap) /\ cell[p] = MySize(p) /\ errcode[p] = s.code
      /\ malloc_error[p] = IF Same(c) THEN "OK" ELSE "SYMMSIZE_FAILED"
  BY <1>3 DEF CheckEnd, InCall, InCheck, Checking
<1>5. Without(CellHeap(s.heap), Address(CellHeap(s.heap), Cell)) = s.heap
  BY <1>3, <1>4, CellHeapFacts
<1>6. /\ pc'[p] = IF Same(c) THEN "allocate" ELSE "refused"
      /\ Bars(p, s.bars + 2, s.bars + 2)'
      /\ heap'[p] = s.heap /\ errcode' = errcode /\ malloc_error' = malloc_error
  BY <1>3, <1>4, <1>5 DEF CheckEnd, Barrier!Leave, Bars, Goto, SetHeap, Shape, Array
<1>7. InCall(p, s, t, c)'
  BY <1>3, <1>4, <1>6 DEF InCall, InCheck, InAllocation, InRelease, Checking, Checks
<1>. QED  BY <1>1, <1>2, <1>6, <1>7, StillInTheCall DEF Done

\* Sizes differ: shmalloc goes to its barrier, the others return.
LEMMA RefusedAt ==
  ASSUME Shape, NEW H, Past(H), NEW p \in PE, At(p, H), Refused(p)
  PROVE  At(p, H)'
<1>1. log' = log /\ calls' = calls  BY DEF Refused
<1>2. PICK s, t, c, n : s = H[calls[p] - 1] /\ t = H[calls[p]] /\ InTheCall(p, s, t, c, n)
  BY TheCall DEF Done, Refused
<1>3. /\ c = Now(p) /\ Now(p)' = c /\ MySize(p)' = MySize(p) /\ n \in Nat \ {0}
      /\ CallOK(c, n) /\ GoodHeap(s.heap, n - 1) /\ s.bars \in Nat
      /\ t = After(s, c) /\ InCall(p, s, t, c)
  BY <1>1, <1>2 DEF InTheCall, Now, MySize
<1>4. /\ pc[p] = "refused" /\ Debug /\ Allocates(c, s.heap) /\ ~Same(c) /\ errcode[p] = s.code
      /\ heap[p] = s.heap /\ malloc_error[p] = "SYMMSIZE_FAILED" /\ Bars(p, s.bars + 2, s.bars + 2)
  BY <1>3 DEF Refused, InCall, InAllocation
<1>5. t = AfterRefusal(s, c)  BY <1>3, <1>4 DEF After, Allocates
<1>6. MyAddress(p) = Of(c, s.heap) /\ (IsMalloc(p) <=> MallocLike(c, s.heap))
  BY <1>3, <1>4 DEF MyAddress, Of, IsMalloc, MallocLike
<1>7. malloc_error' = malloc_error /\ Bars(p, s.bars + 2, s.bars + 2)'
  BY <1>4 DEF Refused, Bars, barrier
<1>8. CASE IsMalloc(p)
  <2>1. pc'[p] = "arrive" /\ heap' = heap /\ errcode' = errcode
    BY <1>8 DEF Refused, Goto, Shape, Array
  <2>2. /\ t.bars = s.bars + Checks + 1 /\ t.heap = s.heap /\ t.error = "SYMMSIZE_FAILED"
        /\ t.code = Told(s, c, t.error)
    BY <1>3, <1>4, <1>5, <1>6, <1>8, StateFacts DEF AfterRefusal, Checks
  <2>3. InCall(p, s, t, c)'
    BY <1>3, <1>4, <1>7, <2>1, <2>2 DEF InCall, InCheck, InAllocation, InRelease, Checking, Checks, Bars
  <2>. QED  BY <1>1, <1>2, <2>1, <2>3, StillInTheCall DEF Done
<1>9. CASE ~IsMalloc(p)
  <2>1. heap'[p] = Forgotten(c, s.heap)
    BY <1>3, <1>4, <1>6, <1>9 DEF Refused, Forget, Forgotten, SetHeap, Shape, Array
  <2>2. pc'[p] \in {"aborted", "outside"} /\ errcode'[p] = Told(s, c, "SYMMSIZE_FAILED")
    BY <1>3, <1>4, <1>9 DEF Refused, Return, Told, Goto, Shape, Array
  <2>3. t.bars = s.bars + 2 /\ t.heap = Forgotten(c, s.heap) /\ t.error = "SYMMSIZE_FAILED"
        /\ t.code = Told(s, c, "SYMMSIZE_FAILED")
    BY <1>5, <1>6, <1>9, StateFacts DEF AfterRefusal
  <2>4. AtRest(p, t)'
    BY <1>4, <1>7, <2>1, <2>2, <2>3 DEF AtRest, Bars
  <2>. QED  BY <1>1, <1>2, <2>2, <2>4, StillInTheCall DEF Done
<1>. QED  BY <1>8, <1>9

\* mspace_malloc and mspace_memalign.
LEMMA AllocateAt ==
  ASSUME Shape, NEW H, Past(H), NEW p \in PE, At(p, H), Allocate(p)
  PROVE  At(p, H)'
<1>1. log' = log /\ calls' = calls  BY DEF Allocate
<1>2. PICK s, t, c, n : s = H[calls[p] - 1] /\ t = H[calls[p]] /\ InTheCall(p, s, t, c, n)
  BY TheCall DEF Done, Allocate
<1>3. /\ c = Now(p) /\ Now(p)' = c /\ MySize(p)' = MySize(p) /\ n \in Nat \ {0}
      /\ CallOK(c, n) /\ GoodHeap(s.heap, n - 1) /\ s.bars \in Nat
      /\ t = After(s, c) /\ InCall(p, s, t, c)
  BY <1>1, <1>2 DEF InTheCall, Now, MySize
<1>4. /\ pc[p] = "allocate" /\ Allocates(c, s.heap) /\ Same(c) /\ errcode[p] = s.code
      /\ heap[p] = s.heap /\ Bars(p, s.bars + Checks, s.bars + Checks)
  BY <1>3 DEF Allocate, InCall, InAllocation
<1>5. t = AfterAllocation(s, c) /\ MySize(p) = Size(c)
  BY <1>3, <1>4, SameSize DEF After, Allocates
<1>6. MyAddress(p) = Of(c, s.heap)  BY <1>3, <1>4 DEF MyAddress, Of
<1>7. /\ t.bars = s.bars + Checks + LastBar(c) /\ t.heap = NewHeap(c, s.heap)
      /\ t.error = NewError(c, s.heap) /\ t.code = Told(s, c, t.error)
  BY <1>5, StateFacts DEF AfterAllocation
<1>8. errcode' = errcode /\ Bars(p, s.bars + Checks, s.bars + Checks)'
  BY <1>4 DEF Allocate, Bars, barrier
<1>9. Of(c, s.heap) = NULL  BY <1>6 DEF Allocate
<1>10. heap'[p] = NewHeap(c, s.heap) /\ malloc_error'[p] = NewError(c, s.heap)
  <2>. DEFINE size == AtLeastOne(MySize(p))
              a == IF Now(p).op = "align" THEN PlaceAligned(p, heap[p], size) ELSE Place(heap[p], size)
              q == CHOOSE r \in PE : TRUE
  <2>1. a = PlaceOf(c, s.heap)
    <3>1. q \in PE  OBVIOUS
    <3>2. PlaceOf(c, s.heap) = IF c.op = "align" THEN PlaceAligned(q, s.heap, AtLeastOne(Size(c)))
                               ELSE Place(s.heap, AtLeastOne(Size(c)))
      BY <1>9 DEF PlaceOf
    <3>3. a = IF c.op = "align" THEN PlaceAligned(p, s.heap, AtLeastOne(Size(c)))
              ELSE Place(s.heap, AtLeastOne(Size(c)))
      BY <1>3, <1>4, <1>5
    <3>. HIDE DEF a, q
    <3>4. c.op = "align" =>
            \A n1 : PlaceAligned(p, s.heap, n1) = PlaceAligned(q, s.heap, n1)
      BY <1>3, <3>1, AlignedSame DEF CallOK
    <3>. QED  BY <3>2, <3>3, <3>4
  <2>2. CASE a = NULL
    <3>1. heap' = heap /\ malloc_error'[p] = IF Now(p).op = "align" THEN "MEMALIGN_FAILED" ELSE "FAIL"
      BY <2>2 DEF Allocate, SetError, Shape, Array
    <3>. QED  BY <1>3, <1>4, <1>9, <2>1, <2>2, <3>1 DEF NewHeap, NewError
  <2>3. CASE a # NULL
    <3>1. heap'[p] = With(heap[p], a, Block(size, Now(p).block)) /\ malloc_error'[p] = "OK"
      BY <2>3 DEF Allocate, SetError, SetHeap, Shape, Array
    <3>. QED  BY <1>3, <1>4, <1>5, <1>9, <2>1, <2>3, <3>1 DEF NewHeap, NewError
  <2>. QED  BY <2>2, <2>3
<1>11. CASE c.op = "malloc_nb"
  <2>1. pc'[p] = "outside"  BY <1>3, <1>11 DEF Allocate, Goto, Shape, Array
  <2>2. Told(s, c, t.error) = s.code  BY <1>11 DEF Told, IsFortran
  <2>3. AtRest(p, t)'
    BY <1>3, <1>4, <1>7, <1>8, <1>10, <1>11, <2>1, <2>2 DEF AtRest, Bars, LastBar, Checks
  <2>. QED  BY <1>1, <1>2, <2>1, <2>3, StillInTheCall DEF Done
<1>12. CASE c.op # "malloc_nb"
  <2>1. pc'[p] = "arrive"  BY <1>3, <1>12 DEF Allocate, Goto, Shape, Array
  <2>2. t.bars = s.bars + Checks + 1  BY <1>7, <1>12 DEF LastBar
  <2>3. InCall(p, s, t, c)'
    BY <1>4, <1>7, <1>8, <1>10, <2>1, <2>2 DEF InCall, InCheck, InAllocation, InRelease, Checking
  <2>. QED  BY <1>1, <1>2, <2>1, <2>3, StillInTheCall DEF Done
<1>. QED  BY <1>11, <1>12

\* mspace_realloc.
LEMMA ReallocateAt ==
  ASSUME Shape, NEW H, Past(H), NEW p \in PE, At(p, H), Reallocate(p)
  PROVE  At(p, H)'
<1>1. log' = log /\ calls' = calls  BY DEF Reallocate
<1>2. PICK s, t, c, n : s = H[calls[p] - 1] /\ t = H[calls[p]] /\ InTheCall(p, s, t, c, n)
  BY TheCall DEF Done, Reallocate
<1>3. /\ c = Now(p) /\ Now(p)' = c /\ MySize(p)' = MySize(p) /\ n \in Nat \ {0}
      /\ CallOK(c, n) /\ GoodHeap(s.heap, n - 1) /\ s.bars \in Nat
      /\ t = After(s, c) /\ InCall(p, s, t, c)
  BY <1>1, <1>2 DEF InTheCall, Now, MySize
<1>4. /\ pc[p] = "allocate" /\ Allocates(c, s.heap) /\ Same(c) /\ errcode[p] = s.code
      /\ heap[p] = s.heap /\ Bars(p, s.bars + Checks, s.bars + Checks)
  BY <1>3 DEF Reallocate, InCall, InAllocation
<1>5. t = AfterAllocation(s, c) /\ MySize(p) = Size(c)
  BY <1>3, <1>4, SameSize DEF After, Allocates
<1>6. MyAddress(p) = Of(c, s.heap)  BY <1>3, <1>4 DEF MyAddress, Of
<1>7. /\ t.bars = s.bars + Checks + LastBar(c) /\ t.heap = NewHeap(c, s.heap)
      /\ t.error = NewError(c, s.heap) /\ t.code = Told(s, c, t.error)
  BY <1>5, StateFacts DEF AfterAllocation
<1>8. errcode' = errcode /\ Bars(p, s.bars + Checks, s.bars + Checks)'
  BY <1>4 DEF Reallocate, Bars, barrier
<1>9. Of(c, s.heap) # NULL  BY <1>6 DEF Reallocate
<1>10. heap'[p] = NewHeap(c, s.heap) /\ malloc_error'[p] = NewError(c, s.heap)
  <2>. DEFINE old == MyAddress(p)
              a == Resized(heap[p], old, MySize(p))
  <2>1. a = PlaceOf(c, s.heap)  BY <1>4, <1>5, <1>6, <1>9 DEF PlaceOf
  <2>2. CASE a = NULL
    <3>1. malloc_error'[p] = "REALLOC_FAILED"
      BY <2>2 DEF Reallocate, SetError, Shape, Array
    <3>2. heap'[p] = Forgotten(c, s.heap)
      BY <1>3, <1>4, <1>6, <2>2 DEF Reallocate, Forget, Forgotten, SetHeap, Shape, Array
    <3>. QED  BY <1>9, <2>1, <2>2, <3>1, <3>2 DEF NewHeap, NewError
  <2>3. CASE a # NULL
    <3>1. /\ heap'[p] = With(Without(heap[p], old), a, Block(MySize(p), Now(p).block))
          /\ malloc_error'[p] = "OK"
      BY <2>3 DEF Reallocate, SetError, SetHeap, Shape, Array
    <3>. QED  BY <1>3, <1>4, <1>5, <1>6, <1>9, <2>1, <2>3, <3>1 DEF NewHeap, NewError
  <2>. QED  BY <2>2, <2>3
<1>11. pc'[p] = "arrive"  BY DEF Reallocate, Goto, Shape, Array
<1>12. c.op # "malloc_nb"  BY <1>3, <1>9, OfFacts, KindFacts
<1>13. t.bars = s.bars + Checks + 1  BY <1>7, <1>12 DEF LastBar
<1>14. InCall(p, s, t, c)'
  BY <1>4, <1>7, <1>8, <1>10, <1>11, <1>13 DEF InCall, InCheck, InAllocation, InRelease, Checking
<1>. QED  BY <1>1, <1>2, <1>11, <1>14, StillInTheCall DEF Done

\* Entering the barrier after an allocation.
LEMMA LastArriveAt ==
  ASSUME Shape, NEW H, Past(H), NEW p \in PE, At(p, H), LastArrive(p)
  PROVE  At(p, H)'
<1>1. log' = log /\ calls' = calls  BY DEF LastArrive
<1>2. PICK s, t, c, n : s = H[calls[p] - 1] /\ t = H[calls[p]] /\ InTheCall(p, s, t, c, n)
  BY TheCall DEF Done, LastArrive
<1>3. /\ c = Now(p) /\ Now(p)' = c /\ MySize(p)' = MySize(p) /\ n \in Nat \ {0}
      /\ CallOK(c, n) /\ GoodHeap(s.heap, n - 1) /\ s.bars \in Nat
      /\ t = After(s, c) /\ InCall(p, s, t, c)
  BY <1>1, <1>2 DEF InTheCall, Now, MySize
<1>4. /\ pc[p] = "arrive" /\ Bars(p, s.bars + Checks, s.bars + Checks)
      /\ Allocates(c, s.heap) /\ t.bars = s.bars + Checks + 1
      /\ heap[p] = t.heap /\ malloc_error[p] = t.error
      /\ t.code = Told(s, c, t.error) /\ errcode[p] = s.code
  BY <1>3 DEF LastArrive, InCall, InAllocation
<1>5. /\ pc'[p] = "leave" /\ Bars(p, s.bars + Checks + 1, s.bars + Checks)'
      /\ heap' = heap /\ malloc_error' = malloc_error /\ errcode' = errcode
  BY <1>4 DEF LastArrive, Arrive, Barrier!Arrive, Bars, Goto, Shape, Array
<1>6. InCall(p, s, t, c)'
  BY <1>3, <1>4, <1>5 DEF InCall, InCheck, InAllocation, InRelease, Checking
<1>. QED  BY <1>1, <1>2, <1>5, <1>6, StillInTheCall DEF Done

\* Leaving it: back to the program with what malloc_error says.
LEMMA LastLeaveAt ==
  ASSUME Shape, NEW H, Past(H), NEW p \in PE, At(p, H), LastLeave(p)
  PROVE  At(p, H)'
<1>1. log' = log /\ calls' = calls  BY DEF LastLeave
<1>2. PICK s, t, c, n : s = H[calls[p] - 1] /\ t = H[calls[p]] /\ InTheCall(p, s, t, c, n)
  BY TheCall DEF Done, LastLeave
<1>3. /\ c = Now(p) /\ Now(p)' = c /\ MySize(p)' = MySize(p) /\ n \in Nat \ {0}
      /\ CallOK(c, n) /\ GoodHeap(s.heap, n - 1) /\ s.bars \in Nat
      /\ t = After(s, c) /\ InCall(p, s, t, c)
  BY <1>1, <1>2 DEF InTheCall, Now, MySize
<1>4. /\ pc[p] = "leave" /\ Bars(p, s.bars + Checks + 1, s.bars + Checks)
      /\ Allocates(c, s.heap) /\ t.bars = s.bars + Checks + 1
      /\ heap[p] = t.heap /\ malloc_error[p] = t.error
      /\ t.code = Told(s, c, t.error) /\ errcode[p] = s.code
  BY <1>3 DEF LastLeave, InCall, InAllocation
<1>5. /\ pc'[p] \in {"aborted", "outside"}
      /\ heap' = heap /\ malloc_error' = malloc_error
  BY DEF LastLeave, Return, Goto, Shape, Array
<1>6. left'[p] = s.bars + Checks + 1 /\ arrived'[p] = s.bars + Checks + 1
  BY <1>3, <1>4 DEF LastLeave, Barrier!Leave, Bars, Shape, Checks
<1>7. errcode'[p] = Told(s, c, malloc_error[p])
  BY <1>3, <1>4 DEF LastLeave, Return, Told, Shape, Array
<1>8. AtRest(p, t)'
  BY <1>4, <1>5, <1>6, <1>7 DEF AtRest, Bars
<1>. QED  BY <1>1, <1>2, <1>5, <1>8, StillInTheCall DEF Done

\* Entering the barrier of shfree.
LEMMA FreeArriveAt ==
  ASSUME Shape, NEW H, Past(H), NEW p \in PE, At(p, H), FreeArrive(p)
  PROVE  At(p, H)'
<1>1. log' = log /\ calls' = calls  BY DEF FreeArrive
<1>2. PICK s, t, c, n : s = H[calls[p] - 1] /\ t = H[calls[p]] /\ InTheCall(p, s, t, c, n)
  BY TheCall DEF Done, FreeArrive
<1>3. /\ c = Now(p) /\ Now(p)' = c /\ MySize(p)' = MySize(p) /\ n \in Nat \ {0}
      /\ CallOK(c, n) /\ GoodHeap(s.heap, n - 1) /\ s.bars \in Nat
      /\ t = After(s, c) /\ InCall(p, s, t, c)
  BY <1>1, <1>2 DEF InTheCall, Now, MySize
<1>4. /\ pc[p] = "free" /\ Bars(p, s.bars, s.bars) /\ c.op # "free_nb"
      /\ ~Nothing(c) /\ Releases(c, s.heap) /\ heap[p] = s.heap /\ errcode[p] = s.code
  BY <1>3 DEF FreeArrive, InCall, InRelease
<1>5. /\ pc'[p] = "free_leave" /\ Bars(p, s.bars + 1, s.bars)'
      /\ heap' = heap /\ errcode' = errcode
  BY <1>4 DEF FreeArrive, Arrive, Barrier!Arrive, Bars, Goto, Shape, Array
<1>6. InCall(p, s, t, c)'
  BY <1>3, <1>4, <1>5 DEF InCall, InCheck, InAllocation, InRelease, Checking
<1>. QED  BY <1>1, <1>2, <1>5, <1>6, StillInTheCall DEF Done

\* Leaving it: the block is still there.
LEMMA FreeLeaveAt ==
  ASSUME Shape, NEW H, Past(H), NEW p \in PE, At(p, H), FreeLeave(p)
  PROVE  At(p, H)'
<1>1. log' = log /\ calls' = calls  BY DEF FreeLeave
<1>2. PICK s, t, c, n : s = H[calls[p] - 1] /\ t = H[calls[p]] /\ InTheCall(p, s, t, c, n)
  BY TheCall DEF Done, FreeLeave
<1>3. /\ c = Now(p) /\ Now(p)' = c /\ MySize(p)' = MySize(p) /\ n \in Nat \ {0}
      /\ CallOK(c, n) /\ GoodHeap(s.heap, n - 1) /\ s.bars \in Nat
      /\ t = After(s, c) /\ InCall(p, s, t, c)
  BY <1>1, <1>2 DEF InTheCall, Now, MySize
<1>4. /\ pc[p] = "free_leave" /\ Bars(p, s.bars + 1, s.bars) /\ c.op # "free_nb"
      /\ ~Nothing(c) /\ Releases(c, s.heap) /\ heap[p] = s.heap /\ errcode[p] = s.code
  BY <1>3 DEF FreeLeave, InCall, InRelease
<1>5. /\ pc'[p] = "release" /\ Bars(p, s.bars + 1, s.bars + 1)'
      /\ heap' = heap /\ errcode' = errcode
  BY <1>3, <1>4 DEF FreeLeave, Barrier!Leave, Bars, Goto, Shape, Array
<1>6. InCall(p, s, t, c)'
  BY <1>3, <1>4, <1>5 DEF InCall, InCheck, InAllocation, InRelease, Checking
<1>. QED  BY <1>1, <1>2, <1>5, <1>6, StillInTheCall DEF Done

\* shfree_nb.
LEMMA ReleaseAt ==
  ASSUME Shape, NEW H, Past(H), NEW p \in PE, At(p, H), Release(p)
  PROVE  At(p, H)'
<1>1. log' = log /\ calls' = calls  BY DEF Release
<1>2. PICK s, t, c, n : s = H[calls[p] - 1] /\ t = H[calls[p]] /\ InTheCall(p, s, t, c, n)
  BY TheCall DEF Done, Release
<1>3. /\ c = Now(p) /\ Now(p)' = c /\ MySize(p)' = MySize(p) /\ n \in Nat \ {0}
      /\ CallOK(c, n) /\ GoodHeap(s.heap, n - 1) /\ s.bars \in Nat
      /\ t = After(s, c) /\ InCall(p, s, t, c)
  BY <1>1, <1>2 DEF InTheCall, Now, MySize
<1>4. /\ pc[p] = "release"
      /\ IF c.op = "free_nb" THEN Bars(p, s.bars, s.bars) ELSE Bars(p, s.bars + 1, s.bars + 1)
      /\ ~Nothing(c) /\ Releases(c, s.heap) /\ heap[p] = s.heap /\ errcode[p] = s.code
  BY <1>3 DEF Release, InCall, InRelease
<1>5. t = AfterRelease(s, c) /\ MyAddress(p) = Of(c, s.heap)
  BY <1>3, <1>4 DEF After, MyAddress, Of
<1>6. Bars(p, t.bars, t.bars)'
  <2>1. arrived' = arrived /\ left' = left  BY DEF Release, barrier
  <2>2. t.bars = IF c.op = "free_nb" THEN s.bars ELSE s.bars + 1
    BY <1>5, StateFacts DEF AfterRelease
  <2>. QED  BY <1>4, <2>1, <2>2 DEF Bars
<1>7. CASE Of(c, s.heap) = NULL
  <2>1. /\ pc'[p] \in {"aborted", "outside"} /\ heap' = heap /\ malloc_error'[p] = "ALREADY_FREE"
        /\ errcode'[p] = Told(s, c, "ALREADY_FREE")
    BY <1>3, <1>4, <1>5, <1>7 DEF Release, Return, Told, Goto, SetError, Shape, Array
  <2>2. t.heap = s.heap /\ t.error = "ALREADY_FREE" /\ t.code = Told(s, c, "ALREADY_FREE")
    BY <1>5, <1>7, StateFacts DEF AfterRelease
  <2>3. AtRest(p, t)'  BY <1>4, <1>6, <2>1, <2>2 DEF AtRest
  <2>. QED  BY <1>1, <1>2, <2>1, <2>3, StillInTheCall DEF Done
<1>8. CASE Of(c, s.heap) # NULL
  <2>1. /\ heap'[p] = Without(s.heap, Of(c, s.heap)) /\ malloc_error'[p] = "OK"
    <3>1. MyAddress(p) # NULL  BY <1>5, <1>8
    <3>2. SetHeap(p, Without(heap[p], MyAddress(p))) /\ SetError(p, "OK")  BY <3>1 DEF Release
    <3>. QED  BY <1>4, <1>5, <3>2 DEF SetHeap, SetError, Shape, Array
  <2>2. /\ pc'[p] \in {"aborted", "outside", "internal error"}
        /\ pc'[p] # "internal error" => errcode'[p] = Told(s, c, "OK")
    BY <1>3, <1>4, <1>5, <1>8 DEF Release, Return, Told, Goto, Shape, Array
  <2>3. /\ t.heap = Without(s.heap, Of(c, s.heap)) /\ t.error = "OK" /\ t.code = Told(s, c, "OK")
    BY <1>5, <1>8, StateFacts DEF AfterRelease
  <2>4. AtRest(p, t)'  BY <1>6, <2>1, <2>2, <2>3 DEF AtRest
  <2>. QED  BY <1>1, <1>2, <2>2, <2>4, StillInTheCall DEF Done
<1>. QED  BY <1>7, <1>8

-----------------------------------------------------------------------------
(* Who meets whom: the barriers passed tell where each PE is.              *)

\* A PE in a call has passed the barriers before it, and not those after it.
LEMMA BarsOfTheCall ==
  ASSUME Shape, NEW p \in PE, NEW s, NEW t, NEW c, NEW n, InTheCall(p, s, t, c, n), pc[p] \notin Done
  PROVE  /\ s.bars <= left[p] /\ arrived[p] <= t.bars
         /\ t.bars \in Nat /\ s.bars \in Nat
<1>1. s.bars \in Nat /\ t = After(s, c) /\ InCall(p, s, t, c)  BY DEF InTheCall
<1>2. t.bars \in Nat /\ s.bars <= t.bars  BY <1>1, AfterBars
<1>3. CASE pc[p] \in Checking
  <2>1. Debug /\ Allocates(c, s.heap)  BY <1>1, <1>3 DEF InCall, InCheck
  <2>2. s.bars + 2 <= t.bars  BY <1>1, <2>1, AfterBars
  <2>3. \/ Bars(p, s.bars, s.bars) \/ Bars(p, s.bars + 1, s.bars)
        \/ Bars(p, s.bars + 1, s.bars + 1) \/ Bars(p, s.bars + 2, s.bars + 1)
    BY <1>1, <1>3 DEF InCall, InCheck, Checking
  <2>. QED  BY <1>1, <1>2, <2>2, <2>3 DEF Bars
<1>4. CASE pc[p] = "refused"
  <2>1. s.bars + 2 <= t.bars  BY <1>1, <1>4, AfterBars DEF InCall, InAllocation
  <2>. QED  BY <1>1, <1>2, <1>4, <2>1 DEF InCall, InAllocation, Bars
<1>5. CASE pc[p] = "allocate"
  <2>1. Allocates(c, s.heap) /\ Bars(p, s.bars + Checks, s.bars + Checks)
    BY <1>1, <1>5 DEF InCall, InAllocation
  <2>3. Debug => s.bars + 2 <= t.bars  BY <1>1, <2>1, AfterBars
  <2>2. s.bars + Checks <= t.bars  BY <1>1, <1>2, <2>3 DEF Checks
  <2>. QED  BY <1>1, <1>2, <2>1, <2>2 DEF Bars, Checks
<1>6. CASE pc[p] \in {"arrive", "leave"}
  <2>1. Allocates(c, s.heap) /\ t.bars = s.bars + Checks + 1
    BY <1>1, <1>6 DEF InCall, InAllocation
  <2>. QED  BY <1>1, <1>2, <1>6, <2>1 DEF InCall, InAllocation, Bars, Checks
<1>7. CASE pc[p] \in {"free", "free_leave", "release"}
  <2>1. ~Nothing(c) /\ Releases(c, s.heap)  BY <1>1, <1>7 DEF InCall, InRelease
  <2>2. c.op # "free_nb" => t.bars = s.bars + 1  BY <1>1, <2>1, AfterBars
  <2>. QED  BY <1>1, <1>2, <1>7, <2>2 DEF InCall, InRelease, Bars
<1>. QED  BY <1>3, <1>4, <1>5, <1>6, <1>7 DEF Shape

\* The same, whether in a call or not.
LEMMA BarsSoFar ==
  ASSUME Shape, NEW H, Past(H), NEW p \in PE, At(p, H)
  PROVE  /\ arrived[p] <= H[calls[p]].bars
         /\ pc[p] \notin Done => calls[p] > 0 /\ H[calls[p] - 1].bars <= left[p]
         /\ pc[p] \in Done => left[p] = H[calls[p]].bars
<1>1. CASE pc[p] \in Done
  <2>1. calls[p] \in 0 .. Len(log)  BY DEF Shape
  <2>2. H[calls[p]].bars \in Nat  BY <2>1 DEF Past
  <2>3. Bars(p, H[calls[p]].bars, H[calls[p]].bars)  BY <1>1 DEF At, AtRest
  <2>4. arrived[p] = H[calls[p]].bars /\ left[p] = H[calls[p]].bars  BY <2>3 DEF Bars
  <2>. QED  BY <1>1, <2>2, <2>4
<1>2. CASE pc[p] \notin Done
  <2>1. PICK s, t, c, n : s = H[calls[p] - 1] /\ t = H[calls[p]] /\ InTheCall(p, s, t, c, n)
    BY <1>2, TheCall
  <2>2. s.bars <= left[p] /\ arrived[p] <= t.bars  BY <1>2, <2>1, BarsOfTheCall
  <2>3. calls[p] > 0  BY <1>2 DEF At
  <2>. QED  BY <1>2, <2>1, <2>2, <2>3
<1>. QED  BY <1>1, <1>2

\* While a PE compares, the others are in the same call, about to compare,
\* comparing or done with it.
LEMMA Meeting ==
  ASSUME Shape, NEW H, Past(H), \A r \in PE : At(r, H), NEW p \in PE, pc[p] = "compare", NEW q \in PE,
         NEW s, NEW t, NEW c, NEW n,
         s = H[calls[p] - 1], t = H[calls[p]], InTheCall(p, s, t, c, n)
  PROVE  /\ calls[q] = n
         /\ pc[q] \in {"check_leave", "compare", "check_end"}
         /\ InTheCall(q, s, t, c, n)
<1>1. /\ n = calls[p] /\ n \in Nat \ {0} /\ n <= Len(log) /\ Len(log) \in Nat
      /\ s.bars \in Nat /\ t = After(s, c)
      /\ Debug /\ Allocates(c, s.heap) /\ Bars(p, s.bars + 1, s.bars + 1)
  <2>1. /\ n = calls[p] /\ n \in Nat \ {0} /\ n <= Len(log) /\ s.bars \in Nat
        /\ t = After(s, c) /\ InCall(p, s, t, c)
    BY DEF InTheCall
  <2>2. InCheck(p, s, c)  BY <2>1 DEF InCall
  <2>3. Len(log) \in Nat  BY DEF Shape
  <2>. QED  BY <2>1, <2>2, <2>3 DEF InCheck, Checking
<1>2. s.bars + 2 <= t.bars /\ t.bars \in Nat  BY <1>1, AfterBars
<1>3. /\ s.bars + 1 <= arrived[q] /\ left[q] <= s.bars + 1
      /\ arrived[q] \in Nat /\ left[q] \in Nat /\ calls[q] \in 0 .. Len(log)
  <2>1. left[p] <= arrived[q] /\ left[q] <= arrived[p]  BY DEF Shape
  <2>. QED  BY <1>1, <2>1 DEF Shape, Bars
<1>4. calls[q] >= n
  <2>1. SUFFICES ASSUME calls[q] < n PROVE FALSE  BY <1>1, <1>3
  <2>2. H[calls[q]].bars <= H[n - 1].bars /\ H[calls[q]].bars \in Nat
    <3>1. calls[q] \in 0 .. Len(log) /\ n - 1 \in 0 .. Len(log) /\ calls[q] <= n - 1
      BY <1>1, <1>3, <2>1
    <3>. QED  BY <3>1 DEF Past
  <2>3. arrived[q] <= H[calls[q]].bars  BY BarsSoFar
  <2>. QED  BY <1>1, <1>3, <2>2, <2>3
<1>5. calls[q] <= n
  <2>1. SUFFICES ASSUME calls[q] > n PROVE FALSE  BY <1>1, <1>3
  <2>2. H[n].bars <= H[calls[q] - 1].bars /\ H[calls[q] - 1].bars <= H[calls[q]].bars
        /\ H[calls[q] - 1].bars \in Nat /\ H[calls[q]].bars \in Nat
    <3>1. /\ calls[q] \in 0 .. Len(log) /\ n \in 0 .. Len(log) /\ calls[q] - 1 \in 0 .. Len(log)
          /\ n <= calls[q] - 1 /\ calls[q] - 1 <= calls[q]
      BY <1>1, <1>3, <2>1
    <3>. QED  BY <3>1 DEF Past
  <2>3. H[calls[q] - 1].bars <= left[q]  
    <3>1. CASE pc[q] \in Done
      <4>1. left[q] = H[calls[q]].bars  BY <3>1, BarsSoFar
      <4>. QED  BY <2>2, <4>1
    <3>2. CASE pc[q] \notin Done  BY <3>2, BarsSoFar
    <3>. QED  BY <3>1, <3>2
  <2>4. H[n] = t  BY <1>1
  <2>5. H[n].bars = t.bars  BY <2>4
  <2>6. H[n].bars <= left[q]  BY <1>2, <1>3, <2>2, <2>3, <2>5
  <2>. QED  BY <1>1, <1>2, <1>3, <2>5, <2>6
<1>6. calls[q] = n  BY <1>1, <1>3, <1>4, <1>5
<1>7. pc[q] \notin Done
  <2>1. SUFFICES ASSUME pc[q] \in Done PROVE FALSE  OBVIOUS
  <2>2. left[q] = H[calls[q]].bars  BY <2>1, BarsSoFar
  <2>3. H[calls[q]] = t  BY <1>1, <1>6
  <2>4. left[q] = t.bars  BY <2>2, <2>3
  <2>. QED  BY <1>1, <1>2, <1>3, <2>4
<1>8. InTheCall(q, s, t, c, n)
  <2>1. InCall(q, s, t, c)  BY <1>1, <1>6, <1>7 DEF At, InTheCall
  <2>. QED  BY <1>6, <2>1 DEF InTheCall, Now
<1>9. InCall(q, s, t, c)  BY <1>8 DEF InTheCall
<1>10. pc[q] \notin {"free", "free_leave", "release"}
  BY <1>1, <1>9 DEF InCall, InRelease, Allocates
<1>11. pc[q] \notin {"check", "out of memory", "check_arrive"}
  <2>1. SUFFICES ASSUME pc[q] \in {"check", "out of memory", "check_arrive"} PROVE FALSE
    OBVIOUS
  <2>2. Bars(q, s.bars, s.bars)  BY <1>9, <2>1 DEF InCall, InCheck
  <2>. QED  BY <1>1, <1>3, <2>2 DEF Bars
<1>12. pc[q] \notin {"refused", "allocate", "arrive", "leave"}
  BY <1>1, <1>3, <1>9 DEF InCall, InAllocation, Bars, Checks
<1>. QED  BY <1>6, <1>7, <1>8, <1>10, <1>11, <1>12 DEF Shape, Checking

\* Words differ where units do.
LEMMA ScaleCancels ==
  ASSUME NEW x \in Nat, NEW y \in Nat, Scale * x = Scale * y
  PROVE  x = y
<1>1. Scale \in Nat /\ Scale # 0  BY HeapAssumption
<1>2. Scale * (x - y) = 0  BY <1>1
<1>. QED  BY <1>1, <1>2

\* Comparing with one more PE: its long holds what it passed to this call.
LEMMA CompareAt ==
  ASSUME Shape, NEW H, Past(H), \A r \in PE : At(r, H), NEW p \in PE, NEW q \in PE, Compare(p, q)
  PROVE  At(p, H)'
<1>1. log' = log /\ calls' = calls  BY DEF Compare
<1>2. PICK s, t, c, n : s = H[calls[p] - 1] /\ t = H[calls[p]] /\ InTheCall(p, s, t, c, n)
  BY TheCall DEF Done, Compare
<1>3. /\ c = Now(p) /\ Now(p)' = c /\ MySize(p)' = MySize(p) /\ n \in Nat \ {0}
      /\ CallOK(c, n) /\ GoodHeap(s.heap, n - 1) /\ s.bars \in Nat
      /\ t = After(s, c) /\ InCall(p, s, t, c)
  BY <1>1, <1>2 DEF InTheCall, Now, MySize
<1>4. /\ pc[p] = "compare" /\ Bars(p, s.bars + 1, s.bars + 1)
      /\ Debug /\ Allocates(c, s.heap) /\ Place(s.heap, 1) # NULL
      /\ heap[p] = CellHeap(s.heap) /\ cell[p] = MySize(p) /\ errcode[p] = s.code
      /\ p \in pe[p] /\ q \notin pe[p]
      /\ \/ malloc_error[p] = "OK" /\ \A r \in pe[p] : c.size[r] = c.size[p]
         \/ malloc_error[p] = "SYMMSIZE_FAILED" /\ pe[p] = PE /\ ~Same(c)
  BY <1>3 DEF Compare, InCall, InCheck, Checking
<1>5. malloc_error[p] = "OK" /\ \A r \in pe[p] : c.size[r] = c.size[p]  BY <1>4
<1>6. /\ pc' = pc /\ Bars(p, s.bars + 1, s.bars + 1)'
      /\ heap' = heap /\ cell' = cell /\ errcode' = errcode
  BY <1>4 DEF Compare, barrier, Bars
<1>7. cell[q] = MySize(q) /\ c = Now(q)
  <2>1. InTheCall(q, s, t, c, n) /\ pc[q] \in {"check_leave", "compare", "check_end"}
    BY <1>2, <1>4, Meeting
  <2>. QED  BY <2>1 DEF InTheCall, InCall, InCheck, Checking
<1>8. cell[q] = MySize(p) <=> c.size[q] = c.size[p]
  <2>1. c.size[p] \in Nat /\ c.size[q] \in Nat  BY <1>3 DEF CallOK
  <2>2. CASE c.op = "shpalloc"
    BY <1>3, <1>7, <2>1, <2>2, ScaleCancels DEF MySize
  <2>3. CASE c.op # "shpalloc"
    BY <1>3, <1>7, <2>3 DEF MySize
  <2>. QED  BY <2>2, <2>3
<1>9. CASE cell[q] = MySize(p)
  <2>1. pe'[p] = pe[p] \cup {q} /\ malloc_error'[p] = "OK"
    BY <1>5, <1>9 DEF Compare, Shape, Array
  <2>2. InCall(p, s, t, c)'
    BY <1>3, <1>4, <1>5, <1>6, <1>8, <1>9, <2>1
       DEF InCall, InCheck, InAllocation, InRelease, Checking
  <2>. QED  BY <1>1, <1>2, <1>4, <1>6, <2>2, StillInTheCall DEF Done
<1>10. CASE cell[q] # MySize(p)
  <2>1. pe'[p] = PE /\ malloc_error'[p] = "SYMMSIZE_FAILED"
    BY <1>10 DEF Compare, SetError, Shape, Array
  <2>2. ~Same(c)  BY <1>8, <1>10 DEF Same
  <2>3. InCall(p, s, t, c)'
    BY <1>3, <1>4, <1>6, <2>1, <2>2 DEF InCall, InCheck, InAllocation, InRelease, Checking
  <2>. QED  BY <1>1, <1>2, <1>4, <1>6, <2>3, StillInTheCall DEF Done
<1>. QED  BY <1>9, <1>10

-----------------------------------------------------------------------------
(* The invariant is kept.                                                  *)

\* The steps of the library.
LEMMA LibraryAt ==
  ASSUME Shape, NEW H, Past(H), \A r \in PE : At(r, H), NEW p \in PE, LibraryStep(p)
  PROVE  At(p, H)'
<1>1. CASE \E q \in PE : Compare(p, q)  BY <1>1, CompareAt
<1>2. CASE ~ \E q \in PE : Compare(p, q)
  BY <1>2, CheckBeginAt, CheckArriveAt, CheckLeaveAt, CheckArriveAgainAt, CheckEndAt, RefusedAt,
     AllocateAt, ReallocateAt, LastArriveAt, LastLeaveAt, FreeArriveAt, FreeLeaveAt, ReleaseAt
     DEF LibraryStep
<1>. QED  BY <1>1, <1>2

\* A step of one PE leaves what the others are in alone.
Apart(p) ==
  \A q \in PE : q # p =>
    /\ pc'[q] = pc[q] /\ calls'[q] = calls[q] /\ heap'[q] = heap[q] /\ cell'[q] = cell[q]
    /\ pe'[q] = pe[q] /\ malloc_error'[q] = malloc_error[q] /\ errcode'[q] = errcode[q]
    /\ arrived'[q] = arrived[q] /\ left'[q] = left[q]

\* The arrays stay arrays, and the barrier a barrier.
Kept ==
  /\ Array(pc)' /\ Array(heap)' /\ Array(cell)' /\ Array(pe)' /\ Array(malloc_error)' /\ Array(errcode)'
  /\ \A p \in PE : pc'[p] \in Done \cup Checking \cup
       {"refused", "allocate", "arrive", "leave", "free", "free_leave", "release"}
  /\ arrived' \in [PE -> Nat] /\ left' \in [PE -> Nat]
  /\ \A p, q \in PE : left'[p] <= arrived'[q]

\* Entering a barrier: nobody is ahead by more than one.
LEMMA ArriveKept ==
  ASSUME Shape, NEW p \in PE, Arrive(p)
  PROVE  /\ arrived' \in [PE -> Nat] /\ left' \in [PE -> Nat]
         /\ \A r, q \in PE : left'[r] <= arrived'[q]
         /\ \A q \in PE : q # p => arrived'[q] = arrived[q] /\ left'[q] = left[q]
<1>1. arrived' = [arrived EXCEPT ![p] = @ + 1] /\ left' = left
  BY DEF Arrive, Barrier!Arrive
<1>2. arrived \in [PE -> Nat] /\ left \in [PE -> Nat] /\ \A r, q \in PE : left[r] <= arrived[q]
  BY DEF Shape
<1>. QED  BY <1>1, <1>2

\* Leaving it: everybody has entered.
LEMMA LeaveKept ==
  ASSUME Shape, NEW p \in PE, Barrier!Leave(p)
  PROVE  /\ arrived' \in [PE -> Nat] /\ left' \in [PE -> Nat]
         /\ \A r, q \in PE : left'[r] <= arrived'[q]
         /\ \A q \in PE : q # p => arrived'[q] = arrived[q] /\ left'[q] = left[q]
<1>1. /\ left' = [left EXCEPT ![p] = @ + 1] /\ arrived' = arrived
      /\ \A q \in PE : left[p] < arrived[q]
  BY DEF Barrier!Leave
<1>2. arrived \in [PE -> Nat] /\ left \in [PE -> Nat] /\ \A r, q \in PE : left[r] <= arrived[q]
  BY DEF Shape
<1>. QED  BY <1>1, <1>2

\* A step of the library is a step of one PE.
LEMMA LibraryKept ==
  ASSUME Shape, NEW p \in PE, LibraryStep(p)
  PROVE  Kept /\ Apart(p) /\ log' = log /\ calls' = calls
<1>0. /\ Array(pc) /\ Array(heap) /\ Array(cell) /\ Array(pe) /\ Array(malloc_error) /\ Array(errcode)
      /\ \A q \in PE : pc[q] \in Done \cup Checking \cup
           {"refused", "allocate", "arrive", "leave", "free", "free_leave", "release"}
      /\ arrived \in [PE -> Nat] /\ left \in [PE -> Nat]
      /\ \A r, q \in PE : left[r] <= arrived[q]
  BY DEF Shape
<1>1. CASE CheckBegin(p)
  <2>1. /\ arrived' \in [PE -> Nat] /\ left' \in [PE -> Nat]
        /\ \A r, q \in PE : left'[r] <= arrived'[q]
        /\ \A q \in PE : q # p => arrived'[q] = arrived[q] /\ left'[q] = left[q]
    BY <1>0, <1>1 DEF CheckBegin, barrier
  <2>2. /\ Array(pc)' /\ \A q \in PE : q # p => pc'[q] = pc[q]
        /\ pc'[p] \in Done \cup Checking \cup
             {"refused", "allocate", "arrive", "leave", "free", "free_leave", "release"}
    BY <1>0, <1>1 DEF CheckBegin, Goto, Return, Array, Done, Checking
  <2>3. Array(heap)' /\ \A q \in PE : q # p => heap'[q] = heap[q]
    BY <1>0, <1>1 DEF CheckBegin, SetHeap, Forget, Array
  <2>4. /\ Array(cell)' /\ Array(pe)' /\ Array(malloc_error)' /\ Array(errcode)'
        /\ \A q \in PE : q # p =>
             /\ cell'[q] = cell[q] /\ pe'[q] = pe[q]
             /\ malloc_error'[q] = malloc_error[q] /\ errcode'[q] = errcode[q]
    BY <1>0, <1>1 DEF CheckBegin, SetError, Return, Array
  <2>5. log' = log /\ calls' = calls  BY <1>1 DEF CheckBegin
  <2>6. Kept  BY <1>0, <2>1, <2>2, <2>3, <2>4 DEF Kept
  <2>7. Apart(p)  BY <2>1, <2>2, <2>3, <2>4, <2>5 DEF Apart
  <2>. QED  BY <2>5, <2>6, <2>7
<1>2. CASE CheckArrive(p)
  <2>1. /\ arrived' \in [PE -> Nat] /\ left' \in [PE -> Nat]
        /\ \A r, q \in PE : left'[r] <= arrived'[q]
        /\ \A q \in PE : q # p => arrived'[q] = arrived[q] /\ left'[q] = left[q]
    BY <1>2, ArriveKept DEF CheckArrive
  <2>2. /\ Array(pc)' /\ \A q \in PE : q # p => pc'[q] = pc[q]
        /\ pc'[p] \in Done \cup Checking \cup
             {"refused", "allocate", "arrive", "leave", "free", "free_leave", "release"}
    BY <1>0, <1>2 DEF CheckArrive, Goto, Return, Array, Done, Checking
  <2>3. Array(heap)' /\ \A q \in PE : q # p => heap'[q] = heap[q]
    BY <1>0, <1>2 DEF CheckArrive, SetHeap, Forget, Array
  <2>4. /\ Array(cell)' /\ Array(pe)' /\ Array(malloc_error)' /\ Array(errcode)'
        /\ \A q \in PE : q # p =>
             /\ cell'[q] = cell[q] /\ pe'[q] = pe[q]
             /\ malloc_error'[q] = malloc_error[q] /\ errcode'[q] = errcode[q]
    BY <1>0, <1>2 DEF CheckArrive, SetError, Return, Array
  <2>5. log' = log /\ calls' = calls  BY <1>2 DEF CheckArrive
  <2>6. Kept  BY <1>0, <2>1, <2>2, <2>3, <2>4 DEF Kept
  <2>7. Apart(p)  BY <2>1, <2>2, <2>3, <2>4, <2>5 DEF Apart
  <2>. QED  BY <2>5, <2>6, <2>7
<1>3. CASE CheckLeave(p)
  <2>1. /\ arrived' \in [PE -> Nat] /\ left' \in [PE -> Nat]
        /\ \A r, q \in PE : left'[r] <= arrived'[q]
        /\ \A q \in PE : q # p => arrived'[q] = arrived[q] /\ left'[q] = left[q]
    BY <1>3, LeaveKept DEF CheckLeave
  <2>2. /\ Array(pc)' /\ \A q \in PE : q # p => pc'[q] = pc[q]
        /\ pc'[p] \in Done \cup Checking \cup
             {"refused", "allocate", "arrive", "leave", "free", "free_leave", "release"}
    BY <1>0, <1>3 DEF CheckLeave, Goto, Return, Array, Done, Checking
  <2>3. Array(heap)' /\ \A q \in PE : q # p => heap'[q] = heap[q]
    BY <1>0, <1>3 DEF CheckLeave, SetHeap, Forget, Array
  <2>4. /\ Array(cell)' /\ Array(pe)' /\ Array(malloc_error)' /\ Array(errcode)'
        /\ \A q \in PE : q # p =>
             /\ cell'[q] = cell[q] /\ pe'[q] = pe[q]
             /\ malloc_error'[q] = malloc_error[q] /\ errcode'[q] = errcode[q]
    BY <1>0, <1>3 DEF CheckLeave, SetError, Return, Array
  <2>5. log' = log /\ calls' = calls  BY <1>3 DEF CheckLeave
  <2>6. Kept  BY <1>0, <2>1, <2>2, <2>3, <2>4 DEF Kept
  <2>7. Apart(p)  BY <2>1, <2>2, <2>3, <2>4, <2>5 DEF Apart
  <2>. QED  BY <2>5, <2>6, <2>7
<1>4. CASE CheckArriveAgain(p)
  <2>1. /\ arrived' \in [PE -> Nat] /\ left' \in [PE -> Nat]
        /\ \A r, q \in PE : left'[r] <= arrived'[q]
        /\ \A q \in PE : q # p => arrived'[q] = arrived[q] /\ left'[q] = left[q]
    BY <1>4, ArriveKept DEF CheckArriveAgain
  <2>2. /\ Array(pc)' /\ \A q \in PE : q # p => pc'[q] = pc[q]
        /\ pc'[p] \in Done \cup Checking \cup
             {"refused", "allocate", "arrive", "leave", "free", "free_leave", "release"}
    BY <1>0, <1>4 DEF CheckArriveAgain, Goto, Return, Array, Done, Checking
  <2>3. Array(heap)' /\ \A q \in PE : q # p => heap'[q] = heap[q]
    BY <1>0, <1>4 DEF CheckArriveAgain, SetHeap, Forget, Array
  <2>4. /\ Array(cell)' /\ Array(pe)' /\ Array(malloc_error)' /\ Array(errcode)'
        /\ \A q \in PE : q # p =>
             /\ cell'[q] = cell[q] /\ pe'[q] = pe[q]
             /\ malloc_error'[q] = malloc_error[q] /\ errcode'[q] = errcode[q]
    BY <1>0, <1>4 DEF CheckArriveAgain, SetError, Return, Array
  <2>5. log' = log /\ calls' = calls  BY <1>4 DEF CheckArriveAgain
  <2>6. Kept  BY <1>0, <2>1, <2>2, <2>3, <2>4 DEF Kept
  <2>7. Apart(p)  BY <2>1, <2>2, <2>3, <2>4, <2>5 DEF Apart
  <2>. QED  BY <2>5, <2>6, <2>7
<1>5. CASE CheckEnd(p)
  <2>1. /\ arrived' \in [PE -> Nat] /\ left' \in [PE -> Nat]
        /\ \A r, q \in PE : left'[r] <= arrived'[q]
        /\ \A q \in PE : q # p => arrived'[q] = arrived[q] /\ left'[q] = left[q]
    BY <1>5, LeaveKept DEF CheckEnd
  <2>2. /\ Array(pc)' /\ \A q \in PE : q # p => pc'[q] = pc[q]
        /\ pc'[p] \in Done \cup Checking \cup
             {"refused", "allocate", "arrive", "leave", "free", "free_leave", "release"}
    BY <1>0, <1>5 DEF CheckEnd, Goto, Return, Array, Done, Checking
  <2>3. Array(heap)' /\ \A q \in PE : q # p => heap'[q] = heap[q]
    BY <1>0, <1>5 DEF CheckEnd, SetHeap, Forget, Array
  <2>4. /\ Array(cell)' /\ Array(pe)' /\ Array(malloc_error)' /\ Array(errcode)'
        /\ \A q \in PE : q # p =>
             /\ cell'[q] = cell[q] /\ pe'[q] = pe[q]
             /\ malloc_error'[q] = malloc_error[q] /\ errcode'[q] = errcode[q]
    BY <1>0, <1>5 DEF CheckEnd, SetError, Return, Array
  <2>5. log' = log /\ calls' = calls  BY <1>5 DEF CheckEnd
  <2>6. Kept  BY <1>0, <2>1, <2>2, <2>3, <2>4 DEF Kept
  <2>7. Apart(p)  BY <2>1, <2>2, <2>3, <2>4, <2>5 DEF Apart
  <2>. QED  BY <2>5, <2>6, <2>7
<1>6. CASE Refused(p)
  <2>1. /\ arrived' \in [PE -> Nat] /\ left' \in [PE -> Nat]
        /\ \A r, q \in PE : left'[r] <= arrived'[q]
        /\ \A q \in PE : q # p => arrived'[q] = arrived[q] /\ left'[q] = left[q]
    BY <1>0, <1>6 DEF Refused, barrier
  <2>2. /\ Array(pc)' /\ \A q \in PE : q # p => pc'[q] = pc[q]
        /\ pc'[p] \in Done \cup Checking \cup
             {"refused", "allocate", "arrive", "leave", "free", "free_leave", "release"}
    BY <1>0, <1>6 DEF Refused, Goto, Return, Array, Done, Checking
  <2>3. Array(heap)' /\ \A q \in PE : q # p => heap'[q] = heap[q]
    BY <1>0, <1>6 DEF Refused, SetHeap, Forget, Array
  <2>4. /\ Array(cell)' /\ Array(pe)' /\ Array(malloc_error)' /\ Array(errcode)'
        /\ \A q \in PE : q # p =>
             /\ cell'[q] = cell[q] /\ pe'[q] = pe[q]
             /\ malloc_error'[q] = malloc_error[q] /\ errcode'[q] = errcode[q]
    BY <1>0, <1>6 DEF Refused, SetError, Return, Array
  <2>5. log' = log /\ calls' = calls  BY <1>6 DEF Refused
  <2>6. Kept  BY <1>0, <2>1, <2>2, <2>3, <2>4 DEF Kept
  <2>7. Apart(p)  BY <2>1, <2>2, <2>3, <2>4, <2>5 DEF Apart
  <2>. QED  BY <2>5, <2>6, <2>7
<1>7. CASE Allocate(p)
  <2>1. /\ arrived' \in [PE -> Nat] /\ left' \in [PE -> Nat]
        /\ \A r, q \in PE : left'[r] <= arrived'[q]
        /\ \A q \in PE : q # p => arrived'[q] = arrived[q] /\ left'[q] = left[q]
    BY <1>0, <1>7 DEF Allocate, barrier
  <2>2. /\ Array(pc)' /\ \A q \in PE : q # p => pc'[q] = pc[q]
        /\ pc'[p] \in Done \cup Checking \cup
             {"refused", "allocate", "arrive", "leave", "free", "free_leave", "release"}
    BY <1>0, <1>7 DEF Allocate, Goto, Return, Array, Done, Checking
  <2>3. Array(heap)' /\ \A q \in PE : q # p => heap'[q] = heap[q]
    BY <1>0, <1>7 DEF Allocate, SetHeap, Forget, Array
  <2>4. /\ Array(cell)' /\ Array(pe)' /\ Array(malloc_error)' /\ Array(errcode)'
        /\ \A q \in PE : q # p =>
             /\ cell'[q] = cell[q] /\ pe'[q] = pe[q]
             /\ malloc_error'[q] = malloc_error[q] /\ errcode'[q] = errcode[q]
    BY <1>0, <1>7 DEF Allocate, SetError, Return, Array
  <2>5. log' = log /\ calls' = calls  BY <1>7 DEF Allocate
  <2>6. Kept  BY <1>0, <2>1, <2>2, <2>3, <2>4 DEF Kept
  <2>7. Apart(p)  BY <2>1, <2>2, <2>3, <2>4, <2>5 DEF Apart
  <2>. QED  BY <2>5, <2>6, <2>7
<1>8. CASE Reallocate(p)
  <2>1. /\ arrived' \in [PE -> Nat] /\ left' \in [PE -> Nat]
        /\ \A r, q \in PE : left'[r] <= arrived'[q]
        /\ \A q \in PE : q # p => arrived'[q] = arrived[q] /\ left'[q] = left[q]
    BY <1>0, <1>8 DEF Reallocate, barrier
  <2>2. /\ Array(pc)' /\ \A q \in PE : q # p => pc'[q] = pc[q]
        /\ pc'[p] \in Done \cup Checking \cup
             {"refused", "allocate", "arrive", "leave", "free", "free_leave", "release"}
    BY <1>0, <1>8 DEF Reallocate, Goto, Return, Array, Done, Checking
  <2>3. Array(heap)' /\ \A q \in PE : q # p => heap'[q] = heap[q]
    BY <1>0, <1>8 DEF Reallocate, SetHeap, Forget, Array
  <2>4. /\ Array(cell)' /\ Array(pe)' /\ Array(malloc_error)' /\ Array(errcode)'
        /\ \A q \in PE : q # p =>
             /\ cell'[q] = cell[q] /\ pe'[q] = pe[q]
             /\ malloc_error'[q] = malloc_error[q] /\ errcode'[q] = errcode[q]
    BY <1>0, <1>8 DEF Reallocate, SetError, Return, Array
  <2>5. log' = log /\ calls' = calls  BY <1>8 DEF Reallocate
  <2>6. Kept  BY <1>0, <2>1, <2>2, <2>3, <2>4 DEF Kept
  <2>7. Apart(p)  BY <2>1, <2>2, <2>3, <2>4, <2>5 DEF Apart
  <2>. QED  BY <2>5, <2>6, <2>7
<1>9. CASE LastArrive(p)
  <2>1. /\ arrived' \in [PE -> Nat] /\ left' \in [PE -> Nat]
        /\ \A r, q \in PE : left'[r] <= arrived'[q]
        /\ \A q \in PE : q # p => arrived'[q] = arrived[q] /\ left'[q] = left[q]
    BY <1>9, ArriveKept DEF LastArrive
  <2>2. /\ Array(pc)' /\ \A q \in PE : q # p => pc'[q] = pc[q]
        /\ pc'[p] \in Done \cup Checking \cup
             {"refused", "allocate", "arrive", "leave", "free", "free_leave", "release"}
    BY <1>0, <1>9 DEF LastArrive, Goto, Return, Array, Done, Checking
  <2>3. Array(heap)' /\ \A q \in PE : q # p => heap'[q] = heap[q]
    BY <1>0, <1>9 DEF LastArrive, SetHeap, Forget, Array
  <2>4. /\ Array(cell)' /\ Array(pe)' /\ Array(malloc_error)' /\ Array(errcode)'
        /\ \A q \in PE : q # p =>
             /\ cell'[q] = cell[q] /\ pe'[q] = pe[q]
             /\ malloc_error'[q] = malloc_error[q] /\ errcode'[q] = errcode[q]
    BY <1>0, <1>9 DEF LastArrive, SetError, Return, Array
  <2>5. log' = log /\ calls' = calls  BY <1>9 DEF LastArrive
  <2>6. Kept  BY <1>0, <2>1, <2>2, <2>3, <2>4 DEF Kept
  <2>7. Apart(p)  BY <2>1, <2>2, <2>3, <2>4, <2>5 DEF Apart
  <2>. QED  BY <2>5, <2>6, <2>7
<1>10. CASE LastLeave(p)
  <2>1. /\ arrived' \in [PE -> Nat] /\ left' \in [PE -> Nat]
        /\ \A r, q \in PE : left'[r] <= arrived'[q]
        /\ \A q \in PE : q # p => arrived'[q] = arrived[q] /\ left'[q] = left[q]
    BY <1>10, LeaveKept DEF LastLeave
  <2>2. /\ Array(pc)' /\ \A q \in PE : q # p => pc'[q] = pc[q]
        /\ pc'[p] \in Done \cup Checking \cup
             {"refused", "allocate", "arrive", "leave", "free", "free_leave", "release"}
    BY <1>0, <1>10 DEF LastLeave, Goto, Return, Array, Done, Checking
  <2>3. Array(heap)' /\ \A q \in PE : q # p => heap'[q] = heap[q]
    BY <1>0, <1>10 DEF LastLeave, SetHeap, Forget, Array
  <2>4. /\ Array(cell)' /\ Array(pe)' /\ Array(malloc_error)' /\ Array(errcode)'
        /\ \A q \in PE : q # p =>
             /\ cell'[q] = cell[q] /\ pe'[q] = pe[q]
             /\ malloc_error'[q] = malloc_error[q] /\ errcode'[q] = errcode[q]
    BY <1>0, <1>10 DEF LastLeave, SetError, Return, Array
  <2>5. log' = log /\ calls' = calls  BY <1>10 DEF LastLeave
  <2>6. Kept  BY <1>0, <2>1, <2>2, <2>3, <2>4 DEF Kept
  <2>7. Apart(p)  BY <2>1, <2>2, <2>3, <2>4, <2>5 DEF Apart
  <2>. QED  BY <2>5, <2>6, <2>7
<1>11. CASE FreeArrive(p)
  <2>1. /\ arrived' \in [PE -> Nat] /\ left' \in [PE -> Nat]
        /\ \A r, q \in PE : left'[r] <= arrived'[q]
        /\ \A q \in PE : q # p => arrived'[q] = arrived[q] /\ left'[q] = left[q]
    BY <1>11, ArriveKept DEF FreeArrive
  <2>2. /\ Array(pc)' /\ \A q \in PE : q # p => pc'[q] = pc[q]
        /\ pc'[p] \in Done \cup Checking \cup
             {"refused", "allocate", "arrive", "leave", "free", "free_leave", "release"}
    BY <1>0, <1>11 DEF FreeArrive, Goto, Return, Array, Done, Checking
  <2>3. Array(heap)' /\ \A q \in PE : q # p => heap'[q] = heap[q]
    BY <1>0, <1>11 DEF FreeArrive, SetHeap, Forget, Array
  <2>4. /\ Array(cell)' /\ Array(pe)' /\ Array(malloc_error)' /\ Array(errcode)'
        /\ \A q \in PE : q # p =>
             /\ cell'[q] = cell[q] /\ pe'[q] = pe[q]
             /\ malloc_error'[q] = malloc_error[q] /\ errcode'[q] = errcode[q]
    BY <1>0, <1>11 DEF FreeArrive, SetError, Return, Array
  <2>5. log' = log /\ calls' = calls  BY <1>11 DEF FreeArrive
  <2>6. Kept  BY <1>0, <2>1, <2>2, <2>3, <2>4 DEF Kept
  <2>7. Apart(p)  BY <2>1, <2>2, <2>3, <2>4, <2>5 DEF Apart
  <2>. QED  BY <2>5, <2>6, <2>7
<1>12. CASE FreeLeave(p)
  <2>1. /\ arrived' \in [PE -> Nat] /\ left' \in [PE -> Nat]
        /\ \A r, q \in PE : left'[r] <= arrived'[q]
        /\ \A q \in PE : q # p => arrived'[q] = arrived[q] /\ left'[q] = left[q]
    BY <1>12, LeaveKept DEF FreeLeave
  <2>2. /\ Array(pc)' /\ \A q \in PE : q # p => pc'[q] = pc[q]
        /\ pc'[p] \in Done \cup Checking \cup
             {"refused", "allocate", "arrive", "leave", "free", "free_leave", "release"}
    BY <1>0, <1>12 DEF FreeLeave, Goto, Return, Array, Done, Checking
  <2>3. Array(heap)' /\ \A q \in PE : q # p => heap'[q] = heap[q]
    BY <1>0, <1>12 DEF FreeLeave, SetHeap, Forget, Array
  <2>4. /\ Array(cell)' /\ Array(pe)' /\ Array(malloc_error)' /\ Array(errcode)'
        /\ \A q \in PE : q # p =>
             /\ cell'[q] = cell[q] /\ pe'[q] = pe[q]
             /\ malloc_error'[q] = malloc_error[q] /\ errcode'[q] = errcode[q]
    BY <1>0, <1>12 DEF FreeLeave, SetError, Return, Array
  <2>5. log' = log /\ calls' = calls  BY <1>12 DEF FreeLeave
  <2>6. Kept  BY <1>0, <2>1, <2>2, <2>3, <2>4 DEF Kept
  <2>7. Apart(p)  BY <2>1, <2>2, <2>3, <2>4, <2>5 DEF Apart
  <2>. QED  BY <2>5, <2>6, <2>7
<1>13. CASE Release(p)
  <2>1. /\ arrived' \in [PE -> Nat] /\ left' \in [PE -> Nat]
        /\ \A r, q \in PE : left'[r] <= arrived'[q]
        /\ \A q \in PE : q # p => arrived'[q] = arrived[q] /\ left'[q] = left[q]
    BY <1>0, <1>13 DEF Release, barrier
  <2>2. /\ Array(pc)' /\ \A q \in PE : q # p => pc'[q] = pc[q]
        /\ pc'[p] \in Done \cup Checking \cup
             {"refused", "allocate", "arrive", "leave", "free", "free_leave", "release"}
    BY <1>0, <1>13 DEF Release, Goto, Return, Array, Done, Checking
  <2>3. Array(heap)' /\ \A q \in PE : q # p => heap'[q] = heap[q]
    BY <1>0, <1>13 DEF Release, SetHeap, Forget, Array
  <2>4. /\ Array(cell)' /\ Array(pe)' /\ Array(malloc_error)' /\ Array(errcode)'
        /\ \A q \in PE : q # p =>
             /\ cell'[q] = cell[q] /\ pe'[q] = pe[q]
             /\ malloc_error'[q] = malloc_error[q] /\ errcode'[q] = errcode[q]
    BY <1>0, <1>13 DEF Release, SetError, Return, Array
  <2>5. log' = log /\ calls' = calls  BY <1>13 DEF Release
  <2>6. Kept  BY <1>0, <2>1, <2>2, <2>3, <2>4 DEF Kept
  <2>7. Apart(p)  BY <2>1, <2>2, <2>3, <2>4, <2>5 DEF Apart
  <2>. QED  BY <2>5, <2>6, <2>7
<1>14. ASSUME NEW q \in PE, Compare(p, q) PROVE Kept /\ Apart(p) /\ log' = log /\ calls' = calls
  <2>1. /\ arrived' \in [PE -> Nat] /\ left' \in [PE -> Nat]
        /\ \A r, u \in PE : left'[r] <= arrived'[u]
        /\ \A u \in PE : u # p => arrived'[u] = arrived[u] /\ left'[u] = left[u]
    BY <1>0, <1>14 DEF Compare, barrier
  <2>2. /\ Array(pc)' /\ \A u \in PE : u # p => pc'[u] = pc[u]
        /\ pc'[p] \in Done \cup Checking \cup
             {"refused", "allocate", "arrive", "leave", "free", "free_leave", "release"}
    BY <1>0, <1>14 DEF Compare, Goto, Return, Array, Done, Checking
  <2>3. Array(heap)' /\ \A u \in PE : u # p => heap'[u] = heap[u]
    BY <1>0, <1>14 DEF Compare, SetHeap, Forget, Array
  <2>4. /\ Array(cell)' /\ Array(pe)' /\ Array(malloc_error)' /\ Array(errcode)'
        /\ \A u \in PE : u # p =>
             /\ cell'[u] = cell[u] /\ pe'[u] = pe[u]
             /\ malloc_error'[u] = malloc_error[u] /\ errcode'[u] = errcode[u]
    BY <1>0, <1>14 DEF Compare, SetError, Return, Array
  <2>5. log' = log /\ calls' = calls  BY <1>14 DEF Compare
  <2>6. Kept  BY <1>0, <2>1, <2>2, <2>3, <2>4 DEF Kept
  <2>7. Apart(p)  BY <2>1, <2>2, <2>3, <2>4, <2>5 DEF Apart
  <2>. QED  BY <2>5, <2>6, <2>7
<1>. QED
  BY <1>1, <1>2, <1>3, <1>4, <1>5, <1>6, <1>7, <1>8, <1>9, <1>10, <1>11, <1>12, <1>13, <1>14 DEF LibraryStep

\* The heap a new call will leave.
LEMMA PastExtended ==
  ASSUME Shape, NEW H, Past(H), NEW c, CallOK(c, Len(log) + 1), log' = Append(log, c), NEW p \in PE
  PROVE  \E G : Past(G)' /\ \A n \in 0 .. Len(log) : G[n] = H[n]
<1>. DEFINE N == Len(log)
<1>1. /\ N \in Nat /\ Len(log') = N + 1 /\ log'[N + 1] = c
      /\ \A n \in 1 .. N : log'[n] = log[n]
  BY DEF Shape
<1>. HIDE DEF N
<1>2. PICK G : G[N + 1] = After(H[N], c) /\ \A n \in 0 .. N : G[n] = H[n]
  <2>. DEFINE G == [m \in 0 .. N + 1 |-> IF m = N + 1 THEN After(H[N], c) ELSE H[m]]
  <2>1. G[N + 1] = After(H[N], c) /\ \A m \in 0 .. N : G[m] = H[m]  BY <1>1
  <2>. HIDE DEF G
  <2>. QED  BY <2>1
<1>3. /\ GoodHeap(H[N].heap, N) /\ H[N].bars \in Nat
      /\ \A n \in 0 .. N : GoodHeap(H[n].heap, n) /\ H[n].bars \in Nat
      /\ \A m, n \in 0 .. N : m <= n => H[m].bars <= H[n].bars
  BY <1>1 DEF Past, N
<1>4. /\ GoodHeap(G[N + 1].heap, N + 1) /\ G[N + 1].bars \in Nat
      /\ H[N].bars <= G[N + 1].bars
  <2>1. PICK s : s = H[N]  OBVIOUS
  <2>2. GoodHeap(s.heap, (N + 1) - 1) /\ s.bars \in Nat  BY <1>1, <1>3, <2>1
  <2>3. GoodHeap(After(s, c).heap, N + 1)  BY <1>1, <2>2, AfterGood DEF N
  <2>4. After(s, c).bars \in Nat /\ s.bars <= After(s, c).bars  BY <2>2, AfterBars
  <2>. QED  BY <1>2, <2>1, <2>3, <2>4
<1>5. History(G)'
  <2>1. G[0] = State(<<>>, "OK", "OK", 0)  BY <1>1, <1>2 DEF Past, History
  <2>2. ASSUME NEW n \in 1 .. N + 1 PROVE G[n] = After(G[n - 1], log'[n])
    <3>1. CASE n = N + 1
      <4>1. n - 1 = N /\ N \in 0 .. N  BY <1>1, <3>1
      <4>. QED  BY <1>1, <1>2, <3>1, <4>1
    <3>2. CASE n # N + 1
      <4>1. n \in 1 .. N /\ n \in 0 .. N /\ n - 1 \in 0 .. N  BY <1>1, <3>2
      <4>2. H[n] = After(H[n - 1], log[n])  BY <4>1 DEF Past, History, N
      <4>. QED  BY <1>1, <1>2, <4>1, <4>2
    <3>. QED  BY <3>1, <3>2
  <2>. QED  BY <1>1, <2>1, <2>2 DEF History
<1>6. \A n \in 0 .. N + 1 : GoodHeap(G[n].heap, n) /\ G[n].bars \in Nat
  <2>1. ASSUME NEW n \in 0 .. N + 1 PROVE n = N + 1 \/ n \in 0 .. N  BY <1>1
  <2>. QED  BY <1>2, <1>3, <1>4, <2>1
<1>7. \A m, n \in 0 .. N + 1 : m <= n => G[m].bars <= G[n].bars
  <2>1. SUFFICES ASSUME NEW m \in 0 .. N + 1, NEW n \in 0 .. N + 1, m <= n
                 PROVE  G[m].bars <= G[n].bars
    OBVIOUS
  <2>2. CASE m \in 0 .. N /\ n \in 0 .. N  BY <1>2, <1>3, <2>1, <2>2
  <2>3. CASE n = N + 1 /\ m \in 0 .. N
    <3>1. H[m].bars <= H[N].bars /\ H[m].bars \in Nat  BY <1>1, <1>3, <2>3
    <3>. QED  BY <1>2, <1>3, <1>4, <2>3, <3>1
  <2>4. CASE m = N + 1
    <3>1. n = N + 1  BY <1>1, <2>1, <2>4
    <3>. QED  BY <1>4, <2>4, <3>1
  <2>. QED  BY <1>1, <2>1, <2>2, <2>3, <2>4
<1>8. Stable(G)'
  <2>1. PICK s : s = H[N]  OBVIOUS
  <2>2. GoodHeap(s.heap, N) /\ s.bars \in Nat  BY <1>3, <2>1
  <2>3. G[N + 1].bars = s.bars =>
          \A k \in 1 .. N :
            /\ Address(G[N + 1].heap, k) = NULL \/ Address(G[N + 1].heap, k) = Address(s.heap, k)
            /\ ~ (c.op = "free_nb" /\ c.block = k) => Address(G[N + 1].heap, k) = Address(s.heap, k)
    <3>1. G[N + 1] = After(s, c)  BY <1>2, <2>1
    <3>2. N + 1 \in Nat \ {0} /\ (N + 1) - 1 = N /\ CallOK(c, N + 1)  BY <1>1 DEF N
    <3>. QED  BY <2>2, <3>1, <3>2, AfterStill
  <2>4. \A i, j \in 0 .. N : i <= j /\ H[i].bars = H[j].bars =>
          \A k \in 1 .. i :
            /\ Address(H[j].heap, k) = NULL \/ Address(H[j].heap, k) = Address(H[i].heap, k)
            /\ (\A l \in i + 1 .. j : ~ (log[l].op = "free_nb" /\ log[l].block = k)) =>
                 Address(H[j].heap, k) = Address(H[i].heap, k)
    BY DEF Past, Stable, N
  <2>5. SUFFICES ASSUME NEW i \in 0 .. N + 1, NEW j \in 0 .. N + 1, i <= j, G[i].bars = G[j].bars,
                        NEW k \in 1 .. i
                 PROVE  /\ Address(G[j].heap, k) = NULL \/ Address(G[j].heap, k) = Address(G[i].heap, k)
                        /\ (\A l \in i + 1 .. j : ~ (log'[l].op = "free_nb" /\ log'[l].block = k)) =>
                             Address(G[j].heap, k) = Address(G[i].heap, k)
    BY <1>1 DEF Stable
  <2>6. CASE j \in 0 .. N
    <3>1. i \in 0 .. N  BY <1>1, <2>5, <2>6
    <3>2. G[i] = H[i] /\ G[j] = H[j]  BY <1>2, <2>6, <3>1
    <3>3. \A l \in i + 1 .. j : log'[l] = log[l]  BY <1>1, <2>6, <3>1
    <3>. QED  BY <2>4, <2>5, <2>6, <3>1, <3>2, <3>3
  <2>7. CASE j = N + 1 /\ i = N + 1  BY <2>7
  <2>8. CASE j = N + 1 /\ i \in 0 .. N
    <3>1. G[i] = H[i] /\ N \in 0 .. N /\ i <= N  BY <1>1, <1>2, <2>8
    <3>2. H[i].bars = s.bars /\ G[N + 1].bars = s.bars
      <4>1. H[i].bars <= H[N].bars /\ H[i].bars \in Nat  BY <1>3, <2>8, <3>1
      <4>2. H[N].bars <= G[N + 1].bars /\ G[N + 1].bars = H[i].bars  BY <1>4, <2>5, <2>8, <3>1
      <4>. QED  BY <1>3, <2>1, <4>1, <4>2
    <3>3. /\ Address(s.heap, k) = NULL \/ Address(s.heap, k) = Address(H[i].heap, k)
          /\ (\A l \in i + 1 .. N : ~ (log[l].op = "free_nb" /\ log[l].block = k)) =>
               Address(s.heap, k) = Address(H[i].heap, k)
      BY <2>1, <2>4, <2>8, <3>1, <3>2
    <3>4. /\ Address(G[N + 1].heap, k) = NULL \/ Address(G[N + 1].heap, k) = Address(s.heap, k)
          /\ ~ (c.op = "free_nb" /\ c.block = k) => Address(G[N + 1].heap, k) = Address(s.heap, k)
      <4>1. k \in 1 .. N  BY <1>1, <2>8
      <4>. QED  BY <2>3, <3>2, <4>1
    <3>5. (\A l \in i + 1 .. j : ~ (log'[l].op = "free_nb" /\ log'[l].block = k)) =>
            /\ ~ (c.op = "free_nb" /\ c.block = k)
            /\ \A l \in i + 1 .. N : ~ (log[l].op = "free_nb" /\ log[l].block = k)
      <4>1. N + 1 \in i + 1 .. j /\ \A l \in i + 1 .. N : l \in i + 1 .. j /\ l \in 1 .. N
        BY <1>1, <2>8
      <4>. QED  BY <1>1, <4>1
    <3>. QED  BY <2>8, <3>1, <3>3, <3>4, <3>5
  <2>. QED  BY <1>1, <2>5, <2>6, <2>7, <2>8
<1>9. Past(G)'  BY <1>1, <1>5, <1>6, <1>7, <1>8 DEF Past
<1>. QED  BY <1>2, <1>9 DEF N

\* A call adds to the log, if it is new, what the program may call.
LEMMA CallShape ==
  ASSUME Shape, Debug \/ Differing = {}, PlacesAgree, NEW p \in PE, Call(p)
  PROVE  Shape'
<1>1. /\ log \in Seq(CallRecord) /\ Len(log) \in Nat
      /\ calls \in [PE -> Nat] /\ \A q \in PE : calls[q] <= Len(log)
      /\ \A n \in 1 .. Len(log) : CallOK(log[n], n)
  BY DEF Shape
<1>2. calls' = [calls EXCEPT ![p] = @ + 1]  BY DEF Call
<1>3. CASE calls[p] < Len(log)
  <2>1. log' = log  BY <1>3 DEF Call
  <2>2. calls' \in [PE -> Nat] /\ \A q \in PE : calls'[q] <= Len(log)
    BY <1>1, <1>2, <1>3
  <2>3. Array(pc)' /\ Array(errcode)' /\ \A q \in PE : pc'[q] \in Done \cup Checking \cup
       {"refused", "allocate", "arrive", "leave", "free", "free_leave", "release"}
    BY DEF Call, Goto, Array, Shape, Done, Checking
  <2>4. Array(heap)' /\ Array(cell)' /\ Array(pe)' /\ Array(malloc_error)'
        /\ arrived' = arrived /\ left' = left
    BY DEF Call, Array, Shape, barrier
  <2>. QED  BY <1>1, <2>1, <2>2, <2>3, <2>4 DEF Shape
<1>4. CASE ~ (calls[p] < Len(log))
  <2>1. calls[p] = Len(log) /\ Len(log) < Len(Menu)
    BY <1>1, <1>4 DEF Call
  <2>2. PICK c \in Calls : log' = Append(log, c)  BY <1>4 DEF Call
  <2>3. c \in CallRecord /\ CallOK(c, Len(log) + 1)  BY <2>1, CallAllowed
  <2>4. /\ log' \in Seq(CallRecord) /\ Len(log') = Len(log) + 1 /\ log'[Len(log) + 1] = c
        /\ \A n \in 1 .. Len(log) : log'[n] = log[n]
    BY <1>1, <2>2, <2>3
  <2>5. \A n \in 1 .. Len(log') : CallOK(log'[n], n)
    <3>1. ASSUME NEW n \in 1 .. Len(log') PROVE n \in 1 .. Len(log) \/ n = Len(log) + 1
      BY <1>1, <2>4
    <3>. QED  BY <1>1, <2>3, <2>4, <3>1
  <2>6. calls' \in [PE -> Nat] /\ \A q \in PE : calls'[q] <= Len(log')
    BY <1>1, <1>2, <2>1, <2>4
  <2>7. Array(pc)' /\ Array(errcode)' /\ \A q \in PE : pc'[q] \in Done \cup Checking \cup
       {"refused", "allocate", "arrive", "leave", "free", "free_leave", "release"}
    BY DEF Call, Goto, Array, Shape, Done, Checking
  <2>8. Array(heap)' /\ Array(cell)' /\ Array(pe)' /\ Array(malloc_error)'
        /\ arrived' = arrived /\ left' = left
    BY DEF Call, Array, Shape, barrier
  <2>. QED  BY <2>4, <2>5, <2>6, <2>7, <2>8 DEF Shape
<1>. QED  BY <1>3, <1>4

\* A call starts from where the last one ended.
LEMMA CallAt ==
  ASSUME Shape, Shape', NEW H, NEW G, Past(H), Past(G)', NEW p \in PE, At(p, H), Call(p),
         \A n \in 0 .. Len(log) : G[n] = H[n]
  PROVE  At(p, G)'
<1>1. /\ pc[p] = "outside" /\ calls'[p] = calls[p] + 1 /\ calls[p] \in 0 .. Len(log)
      /\ heap' = heap /\ malloc_error' = malloc_error /\ arrived' = arrived /\ left' = left
  BY DEF Call, Shape, barrier
<1>2. PICK s, t, c, n : s = G[calls'[p] - 1] /\ t = G[calls'[p]] /\ c = log'[calls'[p]] /\ n = calls'[p]
  OBVIOUS
<1>3. n \in 1 .. Len(log') /\ n \in Nat \ {0} /\ n - 1 \in 0 .. Len(log') /\ n - 1 = calls[p]
  <2>1. calls'[p] <= Len(log') /\ Len(log') \in Nat  BY DEF Shape
  <2>. QED  BY <1>1, <1>2, <2>1
<1>4. CallOK(c, n) /\ GoodHeap(s.heap, n - 1) /\ s.bars \in Nat /\ t = After(s, c)
  <2>1. CallOK(c, n)  BY <1>2, <1>3 DEF Shape
  <2>2. G[n] = After(G[n - 1], log'[n])  BY <1>3 DEF Past, History
  <2>3. GoodHeap(G[n - 1].heap, n - 1) /\ G[n - 1].bars \in Nat  BY <1>3 DEF Past
  <2>. QED  BY <1>2, <2>1, <2>2, <2>3
<1>5. /\ heap[p] = s.heap /\ malloc_error[p] = s.error /\ errcode[p] = s.code
      /\ Bars(p, s.bars, s.bars)
  <2>1. s = H[calls[p]]  BY <1>1, <1>2, <1>3
  <2>2. AtRest(p, s)  BY <2>1 DEF At
  <2>. QED  BY <1>1, <2>2 DEF AtRest, Done
<1>6. CASE c.op = "shpalloc" /\ c.size[p] = 0
  <2>1. errcode'[p] = "BAD_SIZE" /\ pc' = pc
    BY <1>2, <1>6 DEF Call, Shape, Array
  <2>2. Nothing(c)  BY <1>4, <1>6 DEF Nothing, CallOK
  <2>3. t = State(s.heap, s.error, "BAD_SIZE", s.bars)  BY <1>4, <2>2 DEF After, AfterNothing
  <2>4. t.heap = s.heap /\ t.error = s.error /\ t.code = "BAD_SIZE" /\ t.bars = s.bars
    BY <2>3, StateFacts
  <2>5. AtRest(p, t)'
    BY <1>1, <1>5, <2>1, <2>4 DEF AtRest, Bars
  <2>6. pc'[p] \in Done  BY <1>1, <2>1 DEF Done
  <2>. QED  BY <1>2, <2>5, <2>6 DEF At
<1>7. CASE ~ (c.op = "shpalloc" /\ c.size[p] = 0)
  <2>1. /\ errcode' = errcode
        /\ pc'[p] = CASE Kind(c) = "free" -> "free"
                      [] Kind(c) = "realloc" /\ c.size[p] = 0 /\ Address(heap[p], c.block) # NULL -> "free"
                      [] c.op = "free_nb" -> "release"
                      [] OTHER -> IF Debug THEN "check" ELSE "allocate"
    <3>1. c = log'[calls'[p]]  BY <1>2
    <3>. QED  BY <1>7, <3>1 DEF Call, Goto, Shape, Array
  <2>2. ~Nothing(c)  BY <1>7 DEF Nothing
  <2>3. Of(c, s.heap) = Address(heap[p], c.block)  BY <1>5 DEF Of
  <2>4. Kind(c) = "realloc" => (c.size[p] = 0 <=> Size(c) = 0)
    <3>1. SUFFICES ASSUME Kind(c) = "realloc" PROVE c.size[p] = 0 <=> Size(c) = 0  OBVIOUS
    <3>2. c.op # "shpalloc"  BY <1>3, <1>4, <3>1, KindFacts
    <3>. DEFINE r == CHOOSE q \in PE : TRUE
    <3>3. r \in PE  OBVIOUS
    <3>4. Size(c) = c.size[r]  BY <3>2 DEF Size
    <3>. HIDE DEF r
    <3>. QED  BY <1>4, <3>3, <3>4 DEF CallOK
  <2>5. CASE Releases(c, s.heap)
    <3>1. pc'[p] = IF c.op = "free_nb" THEN "release" ELSE "free"
      BY <1>3, <1>4, <2>1, <2>3, <2>4, <2>5, KindFacts DEF Releases, Frees
    <3>2. InCall(p, s, t, c)'
      BY <1>1, <1>5, <2>1, <2>2, <2>5, <3>1
         DEF InCall, InCheck, InAllocation, InRelease, Checking, Bars
    <3>3. pc'[p] \notin Done  BY <3>1 DEF Done
    <3>4. AtRest(p, G[calls[p]])'  BY <3>3 DEF AtRest
    <3>. QED  BY <1>2, <1>3, <3>2, <3>3, <3>4 DEF At
  <2>6. CASE ~Releases(c, s.heap)
    <3>1. Allocates(c, s.heap)  BY <2>2, <2>6 DEF Allocates
    <3>2. pc'[p] = IF Debug THEN "check" ELSE "allocate"
      BY <1>3, <1>4, <2>1, <2>3, <2>4, <2>6, KindFacts DEF Releases, Frees
    <3>3. Same(c) \/ Debug  BY <1>4 DEF CallOK
    <3>4. InCall(p, s, t, c)'
      <4>1. CASE Debug
        BY <1>1, <1>5, <2>1, <3>1, <3>2, <4>1
           DEF InCall, InCheck, InAllocation, InRelease, Checking, Bars
      <4>2. CASE ~Debug
        <5>1. Bars(p, s.bars + Checks, s.bars + Checks)
          BY <1>4, <1>5, <4>2 DEF Checks, Bars
        <5>2. pc'[p] = "allocate" /\ Same(c)  BY <3>2, <3>3, <4>2
        <5>. QED
          BY <1>1, <1>5, <2>1, <3>1, <5>1, <5>2
             DEF InCall, InCheck, InAllocation, InRelease, Checking, Bars
      <4>. QED  BY <4>1, <4>2
    <3>5. pc'[p] \notin Done  BY <3>2 DEF Done
    <3>6. AtRest(p, G[calls[p]])'  BY <3>5 DEF AtRest
    <3>. QED  BY <1>2, <1>3, <3>4, <3>5, <3>6 DEF At
  <2>. QED  BY <2>5, <2>6
<1>. QED  BY <1>6, <1>7

\* A put changes nothing but what is in flight.
LEMMA PutKeeps ==
  ASSUME Shape, NEW H, Past(H), NEW p \in PE, At(p, H), NEW q \in PE, Put(p, q)
  PROVE  Shape' /\ Apart(p) /\ log' = log /\ At(p, H)'
<1>1. /\ pc[p] = "outside" /\ log' = log /\ calls' = calls /\ heap' = heap /\ cell' = cell /\ pe' = pe
      /\ malloc_error' = malloc_error /\ errcode' = errcode /\ arrived' = arrived /\ left' = left
  BY DEF Put, barrier
<1>2. pc' = pc \/ pc' = [pc EXCEPT ![p] = "not symmetric"]  BY DEF Put, Goto
<1>3. Array(pc)' /\ pc'[p] \in {"outside", "not symmetric"} /\ \A r \in PE : r # p => pc'[r] = pc[r]
  BY <1>1, <1>2 DEF Shape, Array
<1>4. Shape'
  <2>1. \A r \in PE : pc'[r] \in Done \cup Checking \cup
       {"refused", "allocate", "arrive", "leave", "free", "free_leave", "release"}
    BY <1>3 DEF Shape, Done
  <2>. QED  BY <1>1, <1>3, <2>1 DEF Shape, Array
<1>5. Apart(p)  BY <1>1, <1>3 DEF Apart
<1>6. At(p, H)'
  <2>1. PICK s : s = H[calls[p]]  OBVIOUS
  <2>2. AtRest(p, s)  BY <2>1 DEF At
  <2>3. AtRest(p, s)'  BY <1>1, <1>3, <2>2 DEF AtRest, Done, Bars
  <2>. QED  BY <1>1, <1>3, <2>1, <2>3 DEF At, Done
<1>. QED  BY <1>1, <1>4, <1>5, <1>6

\* It holds at the start.
LEMMA InitIInv ==
  ASSUME Init
  PROVE  IInv
<1>. DEFINE H == [n \in {0} |-> State(<<>>, "OK", "OK", 0)]
<1>2. log = <<>> /\ Len(log) = 0 /\ \A p \in PE : calls[p] = 0  BY DEF Init
<1>3. Shape
  <2>0. <<>> \in Seq(CallRecord)  OBVIOUS
  <2>1. /\ log \in Seq(CallRecord) /\ \A n \in 1 .. Len(log) : CallOK(log[n], n)
        /\ calls \in [PE -> Nat] /\ \A p \in PE : calls[p] <= Len(log)
    <3>1. ~ \E n \in 1 .. Len(log) : TRUE  BY <1>2
    <3>2. calls \in [PE -> Nat]  BY DEF Init
    <3>. QED  BY <1>2, <2>0, <3>1, <3>2
  <2>2. /\ Array(pc) /\ Array(heap) /\ Array(cell) /\ Array(pe) /\ Array(malloc_error) /\ Array(errcode)
        /\ \A p \in PE : pc[p] \in Done
    BY DEF Init, Array, Done
  <2>3. /\ arrived = [p \in PE |-> 0] /\ left = [p \in PE |-> 0]
    BY DEF Init, Barrier!Init
  <2>. QED  BY <2>1, <2>2, <2>3 DEF Shape
<1>4. H[0] = State(<<>>, "OK", "OK", 0)  OBVIOUS
<1>. HIDE DEF H
<1>5. H[0].heap = <<>> /\ H[0].error = "OK" /\ H[0].code = "OK" /\ H[0].bars = 0
  BY <1>4, StateFacts
<1>6. GoodHeap(<<>>, 0)
  <2>1. DOMAIN <<>> = {} /\ <<>> = [a \in DOMAIN <<>> |-> <<>>[a]]  OBVIOUS
  <2>. QED  BY <2>1 DEF GoodHeap, Named
<1>7. Past(H)
  <2>1. \A n \in 0 .. Len(log) : n = 0  BY <1>2
  <2>2. ~ \E n \in 1 .. Len(log) : TRUE  BY <1>2
  <2>3. Stable(H)
    <3>1. ~ \E l \in 0 + 1 .. 0 : TRUE  OBVIOUS
    <3>. QED  BY <2>1 DEF Stable
  <2>. QED  BY <1>4, <1>5, <1>6, <2>1, <2>2, <2>3 DEF Past, History
<1>8. ASSUME NEW p \in PE PROVE At(p, H)
  <2>1. pc[p] \in Done /\ pc[p] # "internal error"  BY DEF Init, Done
  <2>2. /\ heap[p] = <<>> /\ malloc_error[p] = "OK" /\ errcode[p] = "OK"
        /\ arrived[p] = 0 /\ left[p] = 0
    BY DEF Init, Barrier!Init
  <2>. QED  BY <1>2, <1>5, <2>1, <2>2 DEF At, AtRest, Bars
<1>. QED  BY <1>3, <1>7, <1>8 DEF IInv

\* A step of p, with what it leaves behind.
LEMMA StepIInv ==
  ASSUME Shape, Shape', NEW H, NEW G, Past(G)', \A q \in PE : At(q, H), NEW p \in PE, At(p, G)', Apart(p),
         \A n \in 1 .. Len(log) : log'[n] = log[n],
         \A n \in 0 .. Len(log) : G[n] = H[n]
  PROVE  IInv'
<1>1. ASSUME NEW q \in PE PROVE At(q, G)'
  <2>1. CASE q = p  BY <2>1
  <2>2. CASE q # p  BY <2>2, Elsewhere DEF Apart
  <2>. QED  BY <2>1, <2>2
<1>. QED  BY <1>1 DEF IInv

\* What was between calls does not change.
LEMMA PastKept ==
  ASSUME NEW H, Past(H), log' = log
  PROVE  Past(H)'
<1>1. Stable(H)'  BY DEF Past, Stable
<1>. QED  BY <1>1 DEF Past, History

\* And every step keeps it.
LEMMA NextIInv ==
  ASSUME Debug \/ Differing = {}, PlacesAgree, IInv, [Next]_vars
  PROVE  IInv'
<1>1. Shape  BY DEF IInv
<1>2. PICK H : Past(H) /\ \A p \in PE : At(p, H)  BY DEF IInv
<1>3. ASSUME NEW p \in PE, Call(p) PROVE IInv'
  <2>1. Shape'  BY <1>1, <1>3, CallShape
  <2>2. Apart(p)  BY <1>1, <1>3 DEF Call, Apart, Goto, barrier, Shape, Array
  <2>3. CASE log' = log
    <3>1. Past(H)'  BY <1>2, <2>3, PastKept
    <3>2. At(p, H)'  BY <1>1, <1>2, <1>3, <2>1, <3>1, CallAt
    <3>. QED  BY <1>1, <1>2, <2>1, <2>2, <2>3, <3>1, <3>2, StepIInv
  <2>4. CASE log' # log
    <3>1. Len(log) < Len(Menu) /\ \E c \in Calls : log' = Append(log, c)
      <4>1. calls[p] <= Len(log) /\ calls[p] \in Nat /\ Len(log) \in Nat  BY <1>1 DEF Shape
      <4>2. ~ (calls[p] < Len(log)) /\ calls[p] < Len(Menu)  BY <1>3, <2>4 DEF Call
      <4>3. \E c \in Calls : log' = Append(log, c)  BY <1>3, <4>2 DEF Call
      <4>. QED  BY <4>1, <4>2, <4>3
    <3>2. PICK c \in Calls : log' = Append(log, c)  BY <3>1
    <3>3. CallOK(c, Len(log) + 1)  BY <1>1, <3>1, CallAllowed
    <3>4. PICK G : Past(G)' /\ \A n \in 0 .. Len(log) : G[n] = H[n]
      BY <1>1, <1>2, <3>2, <3>3, PastExtended
    <3>5. \A n \in 1 .. Len(log) : log'[n] = log[n]
      <4>1. c \in CallRecord  BY <1>1, <3>1, CallAllowed
      <4>. QED  BY <1>1, <3>2, <4>1 DEF Shape
    <3>6. At(p, G)'  BY <1>1, <1>2, <1>3, <2>1, <3>4, CallAt
    <3>. QED  BY <1>1, <1>2, <2>1, <2>2, <3>4, <3>5, <3>6, StepIInv
  <2>. QED  BY <2>3, <2>4
<1>4. ASSUME NEW p \in PE, LibraryStep(p) PROVE IInv'
  <2>1. Kept /\ Apart(p) /\ log' = log /\ calls' = calls  BY <1>1, <1>4, LibraryKept
  <2>2. Shape'  BY <1>1, <2>1 DEF Shape, Kept
  <2>3. At(p, H)'  BY <1>1, <1>2, <1>4, LibraryAt
  <2>4. Past(H)'  BY <1>2, <2>1, PastKept
  <2>. QED  BY <1>1, <1>2, <2>1, <2>2, <2>3, <2>4, StepIInv
<1>5. ASSUME NEW p \in PE, NEW q \in PE, Put(p, q) PROVE IInv'
  <2>1. Shape' /\ Apart(p) /\ log' = log /\ At(p, H)'  BY <1>1, <1>2, <1>5, PutKeeps
  <2>2. Past(H)'  BY <1>2, <2>1, PastKept
  <2>. QED  BY <1>1, <1>2, <2>1, <2>2, StepIInv
<1>6. CASE (\E m \in flight : Land(m)) \/ UNCHANGED vars
  <2>1. /\ log' = log /\ calls' = calls /\ pc' = pc /\ heap' = heap /\ cell' = cell /\ pe' = pe
        /\ malloc_error' = malloc_error /\ errcode' = errcode /\ arrived' = arrived /\ left' = left
    BY <1>6 DEF Land, vars, barrier
  <2>2. Shape'  BY <1>1, <2>1 DEF Shape, Array
  <2>3. Past(H)'  BY <1>2, <2>1, PastKept
  <2>4. ASSUME NEW q \in PE PROVE At(q, H)'  BY <1>1, <1>2, <2>1, Elsewhere
  <2>. QED  BY <2>2, <2>3, <2>4 DEF IInv
<1>. QED  BY <1>3, <1>4, <1>5, <1>6 DEF Next

\* All PEs follow one history of the heap, in a build that compares sizes or a
\* program that passes the same ones, if it aligns blocks to no more than the heaps
\* of all PEs are aligned alike.
THEOREM SymmHeapInvariant ==
  ASSUME Debug \/ Differing = {}, PlacesAgree
  PROVE  Spec => []IInv
<1>1. Init => IInv  BY InitIInv
<1>2. IInv /\ [Next]_vars => IInv'  BY NextIInv
<1>. QED  BY <1>1, <1>2, PTL DEF Spec

\* Symmetric heaps stay alike: whatever PEs do meanwhile, two that have returned from
\* the same call have the same heap and were told the same (symmem.c:55-280), if they
\* pass the same sizes or compare them and alignments find the same places everywhere.
THEOREM HeapsStayAlike ==
  ASSUME Debug \/ Differing = {}, PlacesAgree
  PROVE  Spec => []HeapsAlike
<1>1. IInv => HeapsAlike
  <2>1. SUFFICES ASSUME IInv, NEW p \in PE, NEW q \in PE, pc[p] = "outside", pc[q] = "outside",
                        calls[p] = calls[q]
                 PROVE  /\ heap[p] = heap[q]
                        /\ malloc_error[p] = malloc_error[q] /\ errcode[p] = errcode[q]
    BY DEF HeapsAlike
  <2>2. PICK H : \A r \in PE : At(r, H)  BY <2>1 DEF IInv
  <2>. QED  BY <2>1, <2>2 DEF At, AtRest, Done
<1>. QED  BY <1>1, SymmHeapInvariant, PTL

\* A PE that reads the size of another finds the long of the same call, not
\* yet freed (symmem.c:86-139), under the same conditions.
THEOREM SizesComparedAreLive ==
  ASSUME Debug \/ Differing = {}, PlacesAgree
  PROVE  Spec => []ComparesLiveSizes
<1>1. IInv => ComparesLiveSizes
  <2>1. SUFFICES ASSUME IInv, NEW p \in PE, pc[p] = "compare", NEW q \in PE \ pe[p]
                 PROVE  Address(heap[q], Cell) = Address(heap[p], Cell) /\ calls[q] = calls[p]
    BY DEF ComparesLiveSizes
  <2>2. Shape  BY <2>1 DEF IInv
  <2>3. PICK H : Past(H) /\ \A r \in PE : At(r, H)  BY <2>1 DEF IInv
  <2>4. PICK s, t, c, n : s = H[calls[p] - 1] /\ t = H[calls[p]] /\ InTheCall(p, s, t, c, n)
    BY <2>1, <2>2, <2>3, TheCall DEF Done
  <2>5. calls[q] = n /\ InTheCall(q, s, t, c, n) /\ pc[q] \in {"check_leave", "compare", "check_end"}
    BY <2>1, <2>2, <2>3, <2>4, Meeting
  <2>6. heap[p] = CellHeap(s.heap)  BY <2>1, <2>4 DEF InTheCall, InCall, InCheck
  <2>7. heap[q] = CellHeap(s.heap)  BY <2>5 DEF InTheCall, InCall, InCheck
  <2>8. n = calls[p]  BY <2>4 DEF InTheCall
  <2>. QED  BY <2>5, <2>6, <2>7, <2>8
<1>. QED  BY <1>1, SymmHeapInvariant, PTL

-----------------------------------------------------------------------------
(* Puts in flight.                                                         *)

InFlight == \A m \in flight : Flying(m)

\* A release build does not meet before it resizes a block.
Settling == Debug \/ \A n \in 1 .. Len(log) : log[n].op \notin {"realloc", "shpclmove"}

Early == Checking \cup {"refused", "allocate", "free", "free_leave", "release"}

\* Where a step leads.
LEMMA LibraryGoes ==
  ASSUME Shape, NEW p \in PE, LibraryStep(p)
  PROVE  \/ pc[p] \in Early \ {"refused", "allocate", "release"} /\ pc'[p] \in Early
         \/ pc[p] \in {"refused", "allocate", "release"} /\ pc'[p] \in Done \cup {"arrive"}
         \/ pc[p] \in {"arrive", "leave"} /\ pc'[p] \in Done \cup {"leave"}
<1>. DEFINE Goal ==
         \/ pc[p] \in Early \ {"refused", "allocate", "release"} /\ pc'[p] \in Early
         \/ pc[p] \in {"refused", "allocate", "release"} /\ pc'[p] \in Done \cup {"arrive"}
         \/ pc[p] \in {"arrive", "leave"} /\ pc'[p] \in Done \cup {"leave"}
<1>0. Array(pc)  BY DEF Shape
<1>1. ASSUME CheckBegin(p) PROVE Goal
  <2>1. pc[p] = "check" /\ pc'[p] \in {"out of memory", "check_arrive"}
    BY <1>0, <1>1 DEF CheckBegin, Goto, Return, Array
  <2>. QED  BY <2>1 DEF Early, Checking, Done
<1>2. ASSUME CheckArrive(p) PROVE Goal
  <2>1. pc[p] = "check_arrive" /\ pc'[p] \in {"check_leave"}
    BY <1>0, <1>2 DEF CheckArrive, Goto, Return, Array
  <2>. QED  BY <2>1 DEF Early, Checking, Done
<1>3. ASSUME CheckLeave(p) PROVE Goal
  <2>1. pc[p] = "check_leave" /\ pc'[p] \in {"compare"}
    BY <1>0, <1>3 DEF CheckLeave, Goto, Return, Array
  <2>. QED  BY <2>1 DEF Early, Checking, Done
<1>4. ASSUME NEW q \in PE, Compare(p, q) PROVE Goal
  BY <1>0, <1>4 DEF Compare, Early, Checking
<1>5. ASSUME CheckArriveAgain(p) PROVE Goal
  <2>1. pc[p] = "compare" /\ pc'[p] \in {"check_end"}
    BY <1>0, <1>5 DEF CheckArriveAgain, Goto, Return, Array
  <2>. QED  BY <2>1 DEF Early, Checking, Done
<1>6. ASSUME CheckEnd(p) PROVE Goal
  <2>1. pc[p] = "check_end" /\ pc'[p] \in {"allocate", "refused"}
    BY <1>0, <1>6 DEF CheckEnd, Goto, Return, Array
  <2>. QED  BY <2>1 DEF Early, Checking, Done
<1>7. ASSUME Refused(p) PROVE Goal
  <2>1. pc[p] = "refused" /\ pc'[p] \in {"arrive", "outside", "aborted"}
    BY <1>0, <1>7 DEF Refused, Goto, Return, Array
  <2>. QED  BY <2>1 DEF Early, Checking, Done
<1>8. ASSUME Allocate(p) PROVE Goal
  <2>1. pc[p] = "allocate" /\ pc'[p] \in {"arrive", "outside"}
    BY <1>0, <1>8 DEF Allocate, Goto, Return, Array
  <2>. QED  BY <2>1 DEF Early, Checking, Done
<1>9. ASSUME Reallocate(p) PROVE Goal
  <2>1. pc[p] = "allocate" /\ pc'[p] \in {"arrive"}
    BY <1>0, <1>9 DEF Reallocate, Goto, Return, Array
  <2>. QED  BY <2>1 DEF Early, Checking, Done
<1>10. ASSUME LastArrive(p) PROVE Goal
  <2>1. pc[p] = "arrive" /\ pc'[p] \in {"leave"}
    BY <1>0, <1>10 DEF LastArrive, Goto, Return, Array
  <2>. QED  BY <2>1 DEF Early, Checking, Done
<1>11. ASSUME LastLeave(p) PROVE Goal
  <2>1. pc[p] = "leave" /\ pc'[p] \in {"outside", "aborted"}
    BY <1>0, <1>11 DEF LastLeave, Goto, Return, Array
  <2>. QED  BY <2>1 DEF Early, Checking, Done
<1>12. ASSUME FreeArrive(p) PROVE Goal
  <2>1. pc[p] = "free" /\ pc'[p] \in {"free_leave"}
    BY <1>0, <1>12 DEF FreeArrive, Goto, Return, Array
  <2>. QED  BY <2>1 DEF Early, Checking, Done
<1>13. ASSUME FreeLeave(p) PROVE Goal
  <2>1. pc[p] = "free_leave" /\ pc'[p] \in {"release"}
    BY <1>0, <1>13 DEF FreeLeave, Goto, Return, Array
  <2>. QED  BY <2>1 DEF Early, Checking, Done
<1>14. ASSUME Release(p) PROVE Goal
  <2>1. pc[p] = "release" /\ pc'[p] \in {"outside", "aborted", "internal error"}
    BY <1>0, <1>14 DEF Release, Goto, Return, Array
  <2>. QED  BY <2>1 DEF Early, Checking, Done
<1>. HIDE DEF Goal
<1>15. Goal
  BY <1>1, <1>2, <1>3, <1>4, <1>5, <1>6, <1>7, <1>8, <1>9, <1>10, <1>11, <1>12, <1>13, <1>14 DEF LibraryStep
<1>. QED  BY <1>15 DEF Goal

\* A PE in a call has the blocks of before until it changes its own, then those
\* of after.
LEMMA BlocksInTheCall ==
  ASSUME Shape, NEW p \in PE, NEW s, NEW t, NEW c, NEW n, InTheCall(p, s, t, c, n), NEW k \in Nat \ {0}
  PROVE  /\ pc[p] \in Early => Address(heap[p], k) = Address(s.heap, k)
         /\ pc[p] \in {"arrive", "leave"} => heap[p] = t.heap
<1>1. InCall(p, s, t, c) /\ GoodHeap(s.heap, n - 1) /\ n \in Nat \ {0}  BY DEF InTheCall
<1>2. CASE pc[p] \in {"check_arrive", "check_leave", "compare", "check_end"}
  <2>1. Place(s.heap, 1) # NULL /\ heap[p] = CellHeap(s.heap)
    BY <1>1, <1>2 DEF InCall, InCheck
  <2>2. k # Lost /\ k # Cell /\ n - 1 \in Nat  BY <1>1 DEF Lost, Cell
  <2>3. Address(heap[p], k) = Address(s.heap, k)  BY <1>1, <2>1, <2>2, CellHeapFacts
  <2>. QED  BY <1>2, <2>3
<1>3. CASE pc[p] \notin {"check_arrive", "check_leave", "compare", "check_end"}
  BY <1>1, <1>3 DEF InCall, InCheck, InAllocation, InRelease, Early, Checking
<1>. QED  BY <1>2, <1>3

\* In a release build an allocation is of a new block,
LEMMA NewBlock ==
  ASSUME Settling, ~Debug, NEW n \in 1 .. Len(log), NEW c, c = log[n], CallOK(c, n),
         NEW h, Allocates(c, h)
  PROVE  c.block = n
<1>1. c.op \notin {"realloc", "shpclmove"}  BY DEF Settling
<1>2. Kind(c) # "free" /\ c.op # "free_nb"  BY DEF Allocates, Releases, Frees
<1>3. Kind(c) \in {"malloc", "align", "malloc_nb"}  BY <1>1, <1>2 DEF CallOK, CallKinds, Kind
<1>. QED  BY <1>3 DEF CallOK

\* which is nowhere before.
LEMMA NotYet ==
  ASSUME NEW n \in Nat \ {0}, NEW h, GoodHeap(h, n - 1)
  PROVE  Address(h, n) = NULL
<1>1. \A a \in DOMAIN h : h[a].name # n  BY DEF GoodHeap, Lost
<1>. QED  BY <1>1 DEF Address

\* A PE that has a put in flight has met nobody since its last call ended.
LEMMA SourceAt ==
  ASSUME Settling, Shape, NEW H, Past(H), NEW p \in PE, At(p, H), Unmet(p),
         pc[p] = "release" => log[calls[p]].op = "free_nb",
         NEW k \in Nat \ {0}, pc[p] = "arrive" => k # calls[p]
  PROVE  \E j \in 0 .. Len(log) :
           /\ calls[p] - 1 <= j /\ j <= calls[p]
           /\ H[j].bars \in Nat /\ arrived[p] = H[j].bars /\ left[p] = H[j].bars
           /\ Address(heap[p], k) = Address(H[j].heap, k)
<1>1. calls[p] \in 0 .. Len(log) /\ Len(log) \in Nat  BY DEF Shape
<1>2. CASE pc[p] \in Done
  <2>1. heap[p] = H[calls[p]].heap /\ Bars(p, H[calls[p]].bars, H[calls[p]].bars)
    BY <1>2 DEF At, AtRest
  <2>2. H[calls[p]].bars \in Nat  BY <1>1 DEF Past
  <2>. QED  BY <1>1, <2>1, <2>2 DEF Bars
<1>3. CASE pc[p] \notin Done
  <2>1. PICK s, t, c, n : s = H[calls[p] - 1] /\ t = H[calls[p]] /\ InTheCall(p, s, t, c, n)
    BY <1>3, TheCall
  <2>2. /\ n = calls[p] /\ n \in Nat \ {0} /\ c = log[n] /\ InCall(p, s, t, c) /\ s.bars \in Nat
    BY <2>1 DEF InTheCall
  <2>3. \/ pc[p] \in {"check", "out of memory", "check_arrive", "free", "release"}
        \/ ~Debug /\ pc[p] \in {"allocate", "arrive"}
    BY <1>3 DEF Unmet, Done
  <2>4. Bars(p, s.bars, s.bars)
    <3>1. CASE pc[p] \in {"check", "out of memory", "check_arrive", "free", "release"}
      BY <2>2, <3>1 DEF InCall, InCheck, InRelease
    <3>2. CASE ~Debug /\ pc[p] \in {"allocate", "arrive"}
      <4>1. Bars(p, s.bars + Checks, s.bars + Checks)  BY <2>2, <3>2 DEF InCall, InAllocation
      <4>2. s.bars + Checks = s.bars  BY <2>2, <3>2 DEF Checks
      <4>. QED  BY <4>1, <4>2
    <3>. QED  BY <2>3, <3>1, <3>2
  <2>5. Address(heap[p], k) = Address(s.heap, k)
    <3>1. CASE pc[p] \in Early  BY <2>1, <3>1, BlocksInTheCall
    <3>2. CASE pc[p] \notin Early
      <4>1. ~Debug /\ pc[p] = "arrive"  BY <2>3, <3>2 DEF Early, Checking
      <4>2. Allocates(c, s.heap)  BY <2>2, <4>1 DEF InCall, InAllocation
      <4>3. n \in 1 .. Len(log) /\ CallOK(c, n) /\ GoodHeap(s.heap, n - 1) /\ t = After(s, c)
        BY <1>1, <2>1, <2>2 DEF InTheCall
      <4>4. c.block = n  BY <2>2, <4>1, <4>2, <4>3, NewBlock
      <4>5. Address(t.heap, k) = Address(s.heap, k)
        BY <2>2, <4>1, <4>3, <4>4, AfterElse
      <4>6. heap[p] = t.heap  BY <2>1, <4>1, BlocksInTheCall
      <4>. QED  BY <4>5, <4>6
    <3>. QED  BY <3>1, <3>2
  <2>6. n - 1 \in 0 .. Len(log) /\ s = H[n - 1]  BY <1>1, <2>1, <2>2
  <2>. QED  BY <1>1, <2>2, <2>4, <2>5, <2>6 DEF Bars
<1>. QED  BY <1>2, <1>3

\* As long as a put to a block is in flight its destination does nothing to it.
LEMMA TargetStays ==
  ASSUME Settling, Shape, Shape', NEW H, Past(H), \A r \in PE : At(r, H) /\ At(r, H)', NEW p \in PE,
         LibraryStep(p), NEW m \in flight, Flying(m), m.dst = p
  PROVE  Address(heap'[p], m.name) = Address(heap[p], m.name)
<1>1. log' = log /\ calls' = calls /\ pc[p] \notin Done
  BY LibraryKept, LibraryGoes DEF Early, Checking, Done
<1>2. PICK s, t, c, n : s = H[calls[p] - 1] /\ t = H[calls[p]] /\ InTheCall(p, s, t, c, n)
  BY <1>1, TheCall
<1>3. /\ n = calls[p] /\ n \in Nat \ {0} /\ n <= Len(log) /\ c = log[n] /\ CallOK(c, n)
      /\ GoodHeap(s.heap, n - 1) /\ s.bars \in Nat /\ t = After(s, c) /\ InCall(p, s, t, c)
      /\ Len(log) \in Nat
  BY <1>2 DEF InTheCall, Shape
<1>. DEFINE k == m.name
<1>4. k \in Nat \ {0}  BY <1>3 DEF Flying
<1>. HIDE DEF k
<1>5. pc'[p] \notin Done => InTheCall(p, s, t, c, n)'
  <2>1. SUFFICES ASSUME pc'[p] \notin Done PROVE InTheCall(p, s, t, c, n)'  OBVIOUS
  <2>2. InCall(p, s, t, c)'  BY <1>1, <1>2, <1>3, <2>1 DEF At
  <2>. QED  BY <1>1, <1>3, <2>2 DEF InTheCall, Now
<1>6. pc'[p] \in Done \cup {"arrive", "leave"} => heap'[p] = t.heap
  <2>1. pc'[p] \in Done => heap'[p] = t.heap  BY <1>1, <1>2 DEF At, AtRest
  <2>2. pc'[p] \in {"arrive", "leave"} => heap'[p] = t.heap
    BY <1>5 DEF InTheCall, InCall, InAllocation, Done
  <2>. QED  BY <2>1, <2>2
<1>7. pc[p] \in {"arrive", "leave"} => heap[p] = t.heap /\ pc'[p] \in Done \cup {"leave"}
  <2>1. pc[p] \in {"arrive", "leave"} => heap[p] = t.heap
    BY <1>2, <1>4, BlocksInTheCall
  <2>2. pc[p] \in {"arrive", "leave"} => pc'[p] \in Done \cup {"leave"}
    BY LibraryGoes DEF Early, Checking
  <2>. QED  BY <2>1, <2>2
<1>8. pc[p] \in Early \ {"refused", "allocate", "release"} =>
        pc'[p] \in Early
  BY LibraryGoes DEF Early, Checking
<1>9. pc[p] \in Early => Address(heap[p], k) = Address(s.heap, k)
  BY <1>2, <1>4, BlocksInTheCall
<1>10. pc'[p] \in Early => heap'[p] = s.heap \/ heap'[p] = CellHeap(s.heap)
  BY <1>5 DEF InTheCall, InCall, InCheck, InAllocation, InRelease, Early, Checking, Done
<1>11. pc'[p] \in Early => Address(heap'[p], k) = Address(s.heap, k)
  <2>1. SUFFICES ASSUME pc'[p] \in Early PROVE Address(heap'[p], k) = Address(s.heap, k)  OBVIOUS
  <2>2. CASE heap'[p] = s.heap  BY <2>2
  <2>3. CASE heap'[p] # s.heap
    <3>1. pc'[p] \in {"check_arrive", "check_leave", "compare", "check_end"}
      BY <1>5, <2>1, <2>3 DEF InTheCall, InCall, InCheck, InAllocation, InRelease, Early, Checking, Done
    <3>2. Place(s.heap, 1) # NULL /\ heap'[p] = CellHeap(s.heap)
      BY <1>5, <3>1 DEF InTheCall, InCall, InCheck, Done
    <3>3. k # Lost /\ k # Cell /\ n - 1 \in Nat  BY <1>3, <1>4 DEF Lost, Cell
    <3>. QED  BY <1>3, <3>2, <3>3, CellHeapFacts
  <2>. QED  BY <2>2, <2>3
<1>12. CASE pc[p] \in {"refused", "allocate", "release"}
  <2>1. pc'[p] \in Done \cup {"arrive"}
    BY <1>12, LibraryGoes DEF Early
  <2>2. heap'[p] = t.heap  BY <1>6, <2>1
  <2>3. Address(heap[p], k) = Address(s.heap, k)  BY <1>9, <1>12 DEF Early
  <2>4. k # c.block => Address(t.heap, k) = Address(s.heap, k)
    BY <1>3, <1>4, AfterElse
  <2>5. ASSUME k = c.block PROVE Address(t.heap, k) = Address(s.heap, k)
    <3>1. PICK j \in 0 .. Len(log) :
             /\ calls[m.src] - 1 <= j /\ j <= calls[m.src]
             /\ H[j].bars \in Nat /\ arrived[m.src] = H[j].bars /\ left[m.src] = H[j].bars
             /\ Address(heap[m.src], k) = Address(H[j].heap, k)
      BY <1>4, SourceAt DEF Flying, k
    <3>2. left[p] <= H[j].bars /\ H[j].bars <= arrived[p]
      <4>1. left[p] <= arrived[m.src] /\ left[m.src] <= arrived[p]  BY DEF Shape, Flying
      <4>. QED  BY <3>1, <4>1
    <3>3. Address(H[j].heap, k) # NULL /\ Address(s.heap, k) # NULL
      <4>1. Address(heap[m.src], k) # NULL /\ Address(heap[p], k) = Address(heap[m.src], k)
        BY DEF Flying, k
      <4>. QED  BY <1>4, <2>3, <3>1, <4>1
    <3>4. t.bars \in Nat /\ s.bars <= t.bars  BY <1>3, AfterBars
    <3>5. n <= j => t.bars <= H[j].bars
      <4>1. SUFFICES ASSUME n <= j PROVE H[n].bars <= H[j].bars  BY <1>2, <1>3
      <4>2. n \in 0 .. Len(log)  BY <1>3
      <4>. QED  BY <4>1, <4>2 DEF Past
    <3>6. j < n => H[j].bars <= s.bars
      <4>1. SUFFICES ASSUME j < n PROVE H[j].bars <= H[n - 1].bars  BY <1>2, <1>3
      <4>2. n - 1 \in 0 .. Len(log) /\ j <= n - 1  BY <1>3, <4>1
      <4>. QED  BY <4>2 DEF Past
    <3>7. n <= j /\ H[j].bars = t.bars =>
            Address(H[j].heap, k) = NULL \/ Address(H[j].heap, k) = Address(t.heap, k)
      <4>1. SUFFICES ASSUME n <= j, H[j].bars = H[n].bars
                     PROVE  Address(H[j].heap, k) = NULL \/ Address(H[j].heap, k) = Address(H[n].heap, k)
        BY <1>2, <1>3
      <4>2. n \in 0 .. Len(log) /\ Stable(H) /\ k \in 1 .. n  BY <1>3, <2>5 DEF Past, CallOK
      <4>. QED  BY <4>1, <4>2 DEF Stable
    <3>8. CASE pc[p] = "refused"
      <4>1. Debug /\ Allocates(c, s.heap) /\ ~Same(c) /\ Bars(p, s.bars + 2, s.bars + 2)
        BY <1>3, <3>8 DEF InCall, InAllocation
      <4>2. H[j].bars = s.bars + 2  BY <1>3, <3>1, <3>2, <4>1 DEF Bars
      <4>3. n <= j  BY <1>3, <3>1, <3>6, <4>2
      <4>4. s.bars + 2 <= t.bars  BY <1>3, <4>1, AfterBars
      <4>5. H[j].bars = t.bars  BY <1>3, <3>1, <3>4, <3>5, <4>2, <4>3, <4>4
      <4>6. Address(t.heap, k) # NULL  BY <3>3, <3>7, <4>3, <4>5
      <4>. QED  BY <1>3, <1>4, <4>1, <4>6, AfterElse
    <3>9. CASE pc[p] = "allocate"
      <4>1. Allocates(c, s.heap) /\ Same(c) /\ Bars(p, s.bars + Checks, s.bars + Checks)
        BY <1>3, <3>9 DEF InCall, InAllocation
      <4>2. ASSUME Debug PROVE c.block = n
        <5>1. Checks = 2  BY <4>2 DEF Checks
        <5>2. H[j].bars = s.bars + 2  BY <1>3, <3>1, <3>2, <4>1, <5>1 DEF Bars
        <5>3. n <= j  BY <1>3, <3>1, <3>6, <5>2
        <5>4. t.bars = s.bars + 2 + LastBar(c)
          BY <1>3, <4>1, <5>1, StateFacts DEF After, AfterAllocation, Allocates
        <5>5. LastBar(c) = 0  BY <1>3, <3>1, <3>5, <5>2, <5>3, <5>4 DEF LastBar
        <5>6. c.op = "malloc_nb"  BY <5>5 DEF LastBar
        <5>. QED  BY <1>3, <5>6 DEF CallOK, Kind
      <4>3. ASSUME ~Debug PROVE c.block = n
        <5>1. n \in 1 .. Len(log)  BY <1>3
        <5>. QED  BY <1>3, <4>1, <4>3, <5>1, NewBlock
      <4>4. Address(s.heap, k) = NULL  BY <1>3, <2>5, <4>2, <4>3, NotYet
      <4>. QED  BY <3>3, <4>4
    <3>10. CASE pc[p] = "release" /\ c.op # "free_nb"
      <4>1. ~Nothing(c) /\ Releases(c, s.heap) /\ Bars(p, s.bars + 1, s.bars + 1)
        BY <1>3, <3>10 DEF InCall, InRelease
      <4>2. H[j].bars = s.bars + 1  BY <1>3, <3>1, <3>2, <4>1 DEF Bars
      <4>3. n <= j  BY <1>3, <3>1, <3>6, <4>2
      <4>4. t.bars = s.bars + 1  BY <1>3, <3>10, <4>1, AfterBars
      <4>5. Address(t.heap, k) # NULL  BY <3>3, <3>7, <4>2, <4>3, <4>4
      <4>6. Address(t.heap, k) = NULL  BY <1>3, <1>4, <2>5, <4>1, AfterElse
      <4>. QED  BY <4>5, <4>6
    <3>11. CASE pc[p] = "release" /\ c.op = "free_nb"
      <4>1. ~Nothing(c) /\ Releases(c, s.heap) /\ Bars(p, s.bars, s.bars)
        BY <1>3, <3>11 DEF InCall, InRelease
      <4>2. H[j].bars = s.bars  BY <1>3, <3>1, <3>2, <4>1 DEF Bars
      <4>3. n < calls[m.src]
        <5>1. \A x \in calls[m.src] .. Len(log) : x > 0 => ~ (log[x].op = "free_nb" /\ log[x].block = k)
          BY DEF Flying, k
        <5>2. calls[m.src] \in Nat  BY DEF Shape, Flying
        <5>. QED  BY <1>3, <2>5, <3>11, <5>1, <5>2
      <4>4. n <= j
        <5>1. calls[m.src] \in Nat  BY DEF Shape, Flying
        <5>. QED  BY <1>3, <3>1, <4>3, <5>1
      <4>5. t.bars = s.bars  BY <1>3, <3>1, <3>4, <3>5, <4>2, <4>4
      <4>6. Address(t.heap, k) # NULL  BY <3>3, <3>7, <4>2, <4>4, <4>5
      <4>7. Address(t.heap, k) = NULL  BY <1>3, <1>4, <2>5, <4>1, AfterElse
      <4>. QED  BY <4>6, <4>7
    <3>. QED  BY <1>12, <3>8, <3>9, <3>10, <3>11
  <2>6. Address(heap'[p], k) = Address(heap[p], k)  BY <2>2, <2>3, <2>4, <2>5
  <2>. QED  BY <2>6 DEF k
<1>13. CASE pc[p] \notin {"refused", "allocate", "release"}
  <2>1. CASE pc[p] \in {"arrive", "leave"}
    <3>1. heap[p] = t.heap /\ heap'[p] = t.heap  BY <1>6, <1>7, <2>1
    <3>. QED  BY <3>1
  <2>2. CASE pc[p] \notin {"arrive", "leave"}
    <3>1. pc[p] \in Early \ {"refused", "allocate", "release"}
      BY <1>1, <1>13, <2>2 DEF Shape, Early
    <3>2. Address(heap'[p], k) = Address(heap[p], k)  BY <1>8, <1>9, <1>11, <3>1
    <3>. QED  BY <3>2 DEF k
  <2>. QED  BY <2>1, <2>2
<1>. QED  BY <1>12, <1>13

\* A PE with a put in flight keeps the block, and stays where it may have one.
LEMMA SourceStays ==
  ASSUME Settling, Shape, Shape', NEW H, Past(H), \A r \in PE : At(r, H) /\ At(r, H)', NEW p \in PE,
         LibraryStep(p), NEW m \in flight, Flying(m), m.src = p
  PROVE  /\ Address(heap'[p], m.name) = Address(heap[p], m.name)
         /\ Unmet(p)'
         /\ pc'[p] # "release"
         /\ pc'[p] = "arrive" => m.name # calls[p]
<1>1. \/ pc[p] \in {"check", "check_arrive", "free", "release"}
      \/ ~Debug /\ pc[p] \in {"allocate", "arrive"}
  <2>1. pc[p] \notin Done /\ pc[p] # "out of memory"
    BY DEF LibraryStep, CheckBegin, CheckArrive, CheckLeave, Compare, CheckArriveAgain, CheckEnd,
       Refused, Allocate, Reallocate, LastArrive, LastLeave, FreeArrive, FreeLeave, Release, Done
  <2>. QED  BY <2>1 DEF Flying, Unmet, Done
<1>2. ~Arrive(p)  BY DEF Arrive
<1>3. CheckBegin(p) \/ Release(p) \/ Allocate(p) \/ Reallocate(p)
  <2>1. ~CheckArrive(p) /\ ~FreeArrive(p) /\ ~LastArrive(p)
    BY <1>2 DEF CheckArrive, FreeArrive, LastArrive
  <2>. QED  BY <1>1, <2>1
    DEF LibraryStep, CheckLeave, Compare, CheckArriveAgain, CheckEnd,
        Refused, LastLeave, FreeLeave
<1>4. log' = log /\ calls' = calls  BY LibraryKept
<1>5. pc[p] \notin Done  BY <1>1 DEF Done
<1>6. PICK s, t, c, n : s = H[calls[p] - 1] /\ t = H[calls[p]] /\ InTheCall(p, s, t, c, n)
  BY <1>5, TheCall
<1>7. /\ n = calls[p] /\ n \in Nat \ {0} /\ n <= Len(log) /\ c = log[n] /\ CallOK(c, n)
      /\ GoodHeap(s.heap, n - 1) /\ s.bars \in Nat /\ t = After(s, c) /\ InCall(p, s, t, c)
      /\ Len(log) \in Nat
  BY <1>6 DEF InTheCall, Shape
<1>. DEFINE k == m.name
<1>8. k \in Nat \ {0}  BY <1>7 DEF Flying
<1>. HIDE DEF k
<1>9. pc[p] \in Early  BY <1>3 DEF CheckBegin, Release, Allocate, Reallocate, Early, Checking
<1>10. Address(heap[p], k) = Address(s.heap, k)  BY <1>6, <1>8, <1>9, BlocksInTheCall
<1>11. CASE CheckBegin(p)
  <2>1. pc'[p] \in {"out of memory", "check_arrive"}
    BY <1>11 DEF CheckBegin, Goto, Shape, Array
  <2>2. pc'[p] \notin Done /\ pc'[p] \in Early  BY <2>1 DEF Done, Early, Checking
  <2>3. InCall(p, s, t, c)'  BY <1>4, <1>6, <1>7, <2>2 DEF At
  <2>4. heap'[p] = s.heap \/ (Place(s.heap, 1) # NULL /\ heap'[p] = CellHeap(s.heap))
    BY <2>1, <2>3 DEF InCall, InCheck
  <2>5. k # Lost /\ k # Cell /\ n - 1 \in Nat  BY <1>7, <1>8 DEF Lost, Cell
  <2>6. Address(heap'[p], k) = Address(s.heap, k)  BY <1>7, <2>4, <2>5, CellHeapFacts
  <2>. QED  BY <1>10, <2>1, <2>6 DEF k, Unmet
<1>12. CASE Release(p)
  <2>1. pc[p] = "release"  BY <1>12 DEF Release
  <2>2. c.op = "free_nb" /\ c.block # k
    <3>1. c.op = "free_nb"  BY <1>7, <2>1 DEF Flying
    <3>2. \A x \in calls[p] .. Len(log) : x > 0 => ~ (log[x].op = "free_nb" /\ log[x].block = k)
      BY DEF Flying, k
    <3>. QED  BY <1>7, <3>1, <3>2
  <2>3. Kind(c) = "free_nb" /\ c = Now(p)  BY <1>7, <2>2 DEF Kind, Now
  <2>4. pc'[p] \in {"outside", "internal error"}
    BY <1>12, <2>2, <2>3 DEF Release, Return, IsFortran, Goto, Shape, Array
  <2>5. heap'[p] = t.heap  BY <1>4, <1>6, <2>4 DEF At, AtRest, Done
  <2>6. Address(t.heap, k) = Address(s.heap, k)  BY <1>7, <1>8, <2>2, AfterElse
  <2>. QED  BY <1>10, <2>4, <2>5, <2>6 DEF k, Unmet
<1>13. CASE Allocate(p) \/ Reallocate(p)
  <2>1. ~Debug /\ pc[p] = "allocate"  BY <1>1, <1>13 DEF Allocate, Reallocate
  <2>2. Allocates(c, s.heap)  BY <1>7, <2>1 DEF InCall, InAllocation
  <2>3. c.block = n
    <3>1. n \in 1 .. Len(log)  BY <1>7
    <3>. QED  BY <1>7, <2>1, <2>2, <3>1, NewBlock
  <2>4. k # n
    <3>1. Address(heap[p], k) # NULL  BY DEF Flying, k
    <3>. QED  BY <1>7, <1>10, <3>1, NotYet
  <2>5. Address(t.heap, k) = Address(s.heap, k)  BY <1>7, <1>8, <2>3, <2>4, AfterElse
  <2>6. pc'[p] \in {"outside", "arrive"}
    BY <1>13 DEF Allocate, Reallocate, Goto, Shape, Array
  <2>7. heap'[p] = t.heap
    <3>1. CASE pc'[p] = "outside"  BY <1>4, <1>6, <3>1 DEF At, AtRest, Done
    <3>2. CASE pc'[p] = "arrive"
      <4>1. InCall(p, s, t, c)'  BY <1>4, <1>6, <1>7, <3>2 DEF At, Done
      <4>. QED  BY <3>2, <4>1 DEF InCall, InAllocation
    <3>. QED  BY <2>6, <3>1, <3>2
  <2>8. Unmet(p)'  BY <2>1, <2>6 DEF Unmet
  <2>. QED  BY <1>7, <1>10, <2>4, <2>5, <2>6, <2>7, <2>8 DEF k
<1>. QED  BY <1>3, <1>11, <1>12, <1>13

\* A call that meets the others passes a barrier.
LEMMA MeetingMoves ==
  ASSUME Shape, NEW H, Past(H), NEW n \in 1 .. Len(log), Meets(n), NEW p \in PE
  PROVE  H[n - 1].bars # H[n].bars
<1>1. Len(log) \in Nat /\ n - 1 \in 0 .. Len(log) /\ n \in Nat \ {0}  BY DEF Shape
<1>2. H[n] = After(H[n - 1], log[n]) /\ H[n - 1].bars \in Nat  BY <1>1 DEF Past, History
<1>3. log[n].op \notin {"malloc_nb", "free_nb"} /\ ~Nothing(log[n])  BY DEF Meets, Nothing
<1>4. PICK s, c : s = H[n - 1] /\ c = log[n]  OBVIOUS
<1>5. After(s, c).bars # s.bars  BY <1>2, <1>3, <1>4, AfterBars
<1>. QED  BY <1>2, <1>4, <1>5

\* Between two calls without a barrier in between, a block the PEs have met after
\* allocating is in the same place, unless shfree_nb releases it.
LEMMA SameBoundary ==
  ASSUME Shape, NEW H, Past(H), NEW i \in 0 .. Len(log), NEW j \in 0 .. Len(log), NEW p \in PE,
         H[i].bars = H[j].bars, NEW k \in 1 .. i, Address(H[i].heap, k) # NULL,
         \E l \in k .. i : Meets(l),
         \A l \in i + 1 .. Len(log) : ~ (log[l].op = "free_nb" /\ log[l].block = k)
  PROVE  Address(H[j].heap, k) = Address(H[i].heap, k)
<1>1. Len(log) \in Nat /\ Stable(H)  BY DEF Shape, Past
<1>2. CASE i <= j
  <2>1. \A l \in i + 1 .. j : ~ (log[l].op = "free_nb" /\ log[l].block = k)  BY <1>1
  <2>. QED  BY <1>1, <1>2, <2>1 DEF Stable
<1>3. CASE ~ (i <= j)
  <2>1. j <= i  BY <1>1, <1>3
  <2>2. PICK l \in k .. i : Meets(l)  OBVIOUS
  <2>3. l \in 1 .. Len(log) /\ l - 1 \in 0 .. Len(log) /\ l \in 0 .. Len(log)  BY <1>1
  <2>4. H[l - 1].bars # H[l].bars  BY <2>2, <2>3, MeetingMoves
  <2>5. l <= j
    <3>1. SUFFICES ASSUME j <= l - 1 PROVE FALSE  BY <1>1, <2>3
    <3>2. H[j].bars <= H[l - 1].bars /\ H[l - 1].bars <= H[l].bars /\ H[l].bars <= H[i].bars
      <4>1. \A x, y \in 0 .. Len(log) : x <= y => H[x].bars <= H[y].bars  BY DEF Past
      <4>. QED  BY <1>1, <2>3, <3>1, <4>1
    <3>3. H[l - 1].bars \in Nat /\ H[l].bars \in Nat /\ H[i].bars \in Nat  BY <2>3 DEF Past
    <3>. QED  BY <2>4, <3>2, <3>3
  <2>6. k \in 1 .. j  BY <1>1, <2>5
  <2>. QED  BY <1>1, <2>1, <2>6 DEF Stable
<1>. QED  BY <1>2, <1>3

\* A block a PE may put to is where it is on all PEs.
LEMMA PutsAgree ==
  ASSUME Settling, Shape, NEW H, Past(H), \A r \in PE : At(r, H),
         NEW p \in PE, pc[p] = "outside", NEW q \in PE,
         NEW k \in InUse(p)
  PROVE  Address(heap[q], k) = Address(heap[p], k)
<1>. DEFINE i == calls[p]
            B == H[i].bars
<1>1. /\ i \in 0 .. Len(log) /\ Len(log) \in Nat /\ B \in Nat
      /\ calls[q] \in 0 .. Len(log)
  BY DEF Shape, Past
<1>2. heap[p] = H[i].heap /\ Bars(p, B, B)  BY DEF At, AtRest, Done
<1>3. /\ k \in Nat \ {0} /\ k \in 1 .. i /\ Address(H[i].heap, k) # NULL
      /\ \A l \in i + 1 .. Len(log) : ~ (log[l].op = "free_nb" /\ log[l].block = k)
      /\ \E l \in k .. i : Meets(l)
  BY <1>1, <1>2 DEF InUse
<1>4. left[q] <= B /\ B <= arrived[q] /\ left[q] \in Nat /\ arrived[q] \in Nat
  <2>1. left[p] <= arrived[q] /\ left[q] <= arrived[p]  BY DEF Shape
  <2>. QED  BY <1>2, <2>1 DEF Bars, Shape
<1>. HIDE DEF i, B
<1>5. \A j \in 0 .. Len(log) : H[j].bars = B => Address(H[j].heap, k) = Address(H[i].heap, k)
  BY <1>1, <1>3, SameBoundary DEF B
<1>6. CASE pc[q] \in Done
  <2>1. heap[q] = H[calls[q]].heap /\ Bars(q, H[calls[q]].bars, H[calls[q]].bars)
    BY <1>6 DEF At, AtRest
  <2>2. H[calls[q]].bars = B
    <3>1. H[calls[q]].bars \in Nat  BY <1>1 DEF Past
    <3>. QED  BY <1>1, <1>4, <2>1, <3>1 DEF Bars
  <2>. QED  BY <1>1, <1>2, <1>5, <2>1, <2>2
<1>7. CASE pc[q] \notin Done
  <2>1. PICK s, t, c, n : s = H[calls[q] - 1] /\ t = H[calls[q]] /\ InTheCall(q, s, t, c, n)
    BY <1>7, TheCall
  <2>2. /\ n = calls[q] /\ n \in Nat \ {0} /\ n <= Len(log) /\ c = log[n] /\ CallOK(c, n)
        /\ GoodHeap(s.heap, n - 1) /\ s.bars \in Nat /\ t = After(s, c) /\ InCall(q, s, t, c)
        /\ n \in 0 .. Len(log) /\ n - 1 \in 0 .. Len(log)
    <3>1. /\ n = calls[q] /\ n \in Nat \ {0} /\ n <= Len(log) /\ c = log[n] /\ CallOK(c, n)
          /\ GoodHeap(s.heap, n - 1) /\ s.bars \in Nat /\ t = After(s, c) /\ InCall(q, s, t, c)
      BY <2>1 DEF InTheCall
    <3>. QED  BY <1>1, <3>1
  <2>3. s.bars <= left[q] /\ arrived[q] <= t.bars /\ t.bars \in Nat  BY <1>7, <2>1, BarsOfTheCall
  <2>4. H[n - 1] = s /\ H[n] = t  BY <2>1, <2>2
  <2>5. i < n => B = s.bars
    <3>1. SUFFICES ASSUME i < n PROVE B = s.bars  OBVIOUS
    <3>2. i <= n - 1  BY <1>1, <2>2, <3>1
    <3>3. H[i].bars <= H[n - 1].bars  BY <1>1, <2>2, <3>2 DEF Past
    <3>. QED  BY <1>1, <1>4, <2>2, <2>3, <2>4, <3>3 DEF B
  <2>6. n <= i => B = t.bars
    <3>1. SUFFICES ASSUME n <= i PROVE B = t.bars  OBVIOUS
    <3>3. H[n].bars <= H[i].bars  BY <1>1, <2>2, <3>1 DEF Past
    <3>. QED  BY <1>1, <1>4, <2>3, <2>4, <3>3 DEF B
  <2>7. CASE pc[q] \in {"arrive", "leave"}
    <3>1. heap[q] = t.heap  BY <1>3, <2>1, <2>7, BlocksInTheCall
    <3>2. CASE n <= i
      BY <1>2, <1>5, <2>2, <2>4, <2>6, <3>1, <3>2
    <3>3. CASE i < n
      <4>1. k # n  BY <1>1, <1>3, <2>2, <3>3
      <4>2. s.bars + Checks <= left[q] /\ Allocates(c, s.heap)
        <5>1. \/ Bars(q, s.bars + Checks, s.bars + Checks)
              \/ Bars(q, s.bars + Checks + 1, s.bars + Checks)
          BY <2>2, <2>7 DEF InCall, InAllocation
        <5>2. Allocates(c, s.heap)  BY <2>2, <2>7 DEF InCall, InAllocation
        <5>. QED  BY <2>2, <5>1, <5>2 DEF Bars, Checks
      <4>3. ~Debug  BY <1>1, <1>4, <2>2, <2>5, <3>3, <4>2 DEF Checks
      <4>4. c.block = n
        <5>1. n \in 1 .. Len(log)  BY <1>1, <2>2
        <5>. QED  BY <2>2, <4>2, <4>3, <5>1, NewBlock
      <4>5. Address(t.heap, k) = Address(s.heap, k)  BY <1>3, <2>2, <4>1, <4>4, AfterElse
      <4>. QED  BY <1>2, <1>5, <2>2, <2>4, <2>5, <3>1, <3>3, <4>5
    <3>. QED  BY <1>1, <2>2, <3>2, <3>3
  <2>8. CASE pc[q] \notin {"arrive", "leave"}
    <3>1. pc[q] \in Early  BY <1>7, <2>8 DEF Shape, Early
    <3>2. Address(heap[q], k) = Address(s.heap, k)  BY <1>3, <2>1, <3>1, BlocksInTheCall
    <3>3. CASE i < n
      BY <1>2, <1>5, <2>2, <2>4, <2>5, <3>2, <3>3
    <3>4. CASE n <= i
      <4>1. B = t.bars /\ Address(t.heap, k) = Address(H[i].heap, k)
        BY <1>5, <2>2, <2>4, <2>6, <3>4
      <4>2. CASE k # c.block
        BY <1>2, <1>3, <2>2, <3>2, <4>1, <4>2, AfterElse
      <4>3. CASE k = c.block
        <5>1. ~Nothing(c) /\ ~ (Releases(c, s.heap))
          <6>1. ~Nothing(c)
            BY <2>2, <3>1 DEF InCall, InCheck, InAllocation, InRelease, Early, Allocates
          <6>2. Releases(c, s.heap) => Address(t.heap, k) = NULL
            BY <1>3, <2>2, <4>3, <6>1, AfterElse
          <6>. QED  BY <1>3, <4>1, <6>1, <6>2
        <5>2. Allocates(c, s.heap)  BY <5>1 DEF Allocates
        <5>3. CASE ~Same(c)
          <6>1. Debug  BY <2>2, <5>3 DEF CallOK
          <6>. QED  BY <1>2, <1>3, <2>2, <3>2, <4>1, <5>2, <5>3, <6>1, AfterElse
        <5>4. CASE Same(c)
          <6>1. t.bars = s.bars + Checks + LastBar(c)
            BY <2>2, <5>2, <5>4, StateFacts DEF After, AfterAllocation, Allocates
          <6>2. arrived[q] <= s.bars + Checks
            <7>1. pc[q] \in Checking \cup {"refused", "allocate"}
              BY <2>2, <3>1, <5>1 DEF InCall, InRelease, Early
            <7>2. \/ Bars(q, s.bars, s.bars) \/ Bars(q, s.bars + 1, s.bars)
                  \/ Bars(q, s.bars + 1, s.bars + 1) \/ Bars(q, s.bars + 2, s.bars + 1)
                  \/ Bars(q, s.bars + 2, s.bars + 2) \/ pc[q] = "allocate"
              BY <2>2, <7>1 DEF InCall, InCheck, InAllocation, Checking
            <7>3. pc[q] = "allocate" => Bars(q, s.bars + Checks, s.bars + Checks)
              BY <2>2 DEF InCall, InAllocation
            <7>4. pc[q] # "allocate" => Checks = 2
              BY <2>2, <7>1 DEF InCall, InCheck, InAllocation, Checks
            <7>5. s.bars \in Nat /\ Checks \in Nat  BY <2>2 DEF Checks
            <7>6. CASE pc[q] = "allocate"
              <8>1. arrived[q] = s.bars + Checks  BY <7>3, <7>6 DEF Bars
              <8>. QED  BY <7>5, <8>1
            <7>7. CASE pc[q] # "allocate"
              <8>1. arrived[q] \in {s.bars, s.bars + 1, s.bars + 2}  BY <7>2, <7>7 DEF Bars
              <8>. QED  BY <7>4, <7>5, <7>7, <8>1
            <7>. QED  BY <7>6, <7>7
          <6>3. LastBar(c) = 0
            <7>1. Checks \in Nat /\ LastBar(c) \in Nat  BY DEF Checks, LastBar
            <7>2. s.bars + Checks + LastBar(c) <= arrived[q]  BY <1>4, <4>1, <6>1
            <7>3. s.bars \in Nat /\ arrived[q] \in Nat  BY <1>4, <2>2
            <7>. QED  BY <6>2, <7>1, <7>2, <7>3
          <6>4. c.op = "malloc_nb"  BY <6>3 DEF LastBar
          <6>5. k = n  BY <2>2, <4>3, <6>4 DEF CallOK, Kind
          <6>6. PICK l \in k .. i : Meets(l)  BY <1>3
          <6>7. l # n  BY <2>2, <6>4, <6>6 DEF Meets
          <6>8. l \in 1 .. Len(log) /\ l - 1 \in 0 .. Len(log) /\ l \in 0 .. Len(log) /\ n <= l - 1 /\ l <= i
            BY <1>1, <2>2, <6>5, <6>6, <6>7
          <6>9. H[n].bars <= H[l - 1].bars /\ H[l - 1].bars <= H[l].bars /\ H[l].bars <= H[i].bars
            <7>1. \A x, y \in 0 .. Len(log) : x <= y => H[x].bars <= H[y].bars  BY DEF Past
            <7>2. n \in 0 .. Len(log) /\ l - 1 <= l  BY <1>1, <2>2, <6>8
            <7>. QED  BY <1>1, <6>8, <7>1, <7>2
          <6>10. H[l - 1].bars \in Nat /\ H[l].bars \in Nat /\ H[n].bars = B /\ H[i].bars = B
            BY <2>4, <4>1, <6>8 DEF Past, B
          <6>11. H[l - 1].bars = H[l].bars  BY <1>1, <6>9, <6>10
          <6>. QED  BY <6>6, <6>8, <6>11, MeetingMoves
        <5>. QED  BY <5>3, <5>4
      <4>. QED  BY <4>2, <4>3
    <3>. QED  BY <1>1, <2>2, <3>3, <3>4
  <2>. QED  BY <2>7, <2>8
<1>. QED  BY <1>6, <1>7

\* The table of sections finds every static variable.
LEMMA VariablesAreGlobal ==
  ASSUME NEW v \in Variables
  PROVE  IS_GLOBAL(v)
<1>1. PICK i \in DOMAIN Sections :
        /\ v \in Sections[i].start .. Sections[i].start + Sections[i].size - 1
        /\ <<Sections[i].type, Sections[i].name>> \in
             {<<"PROGBITS", ".data">>, <<"NOBITS", ".bss">>, <<"PROGBITS", ".rodata">>}
        /\ \A j \in DOMAIN Sections :
             Sections[j].type = Sections[i].type /\ Sections[j].name = Sections[i].name => j = i
        /\ \A j \in SymbolTable : i < j
  BY ExecutableAssumption
<1>2. v \in Area(Sections[i].type, Sections[i].name)
  <2>. DEFINE found == {j \in ReadSections : /\ Sections[j].type = Sections[i].type
                                             /\ Sections[j].name = Sections[i].name}
              last == CHOOSE j \in found : \A l \in found : l <= j
  <2>1. found = {i}
    <3>1. i \in found  BY <1>1 DEF ReadSections
    <3>2. \A j \in found : j = i  BY <1>1 DEF ReadSections
    <3>. QED  BY <3>1, <3>2
  <2>2. Area(Sections[i].type, Sections[i].name) =
          IF found = {} THEN {} ELSE Sections[last].start .. Sections[last].start + Sections[last].size - 1
    BY DEF Area
  <2>3. last = i
    <3>1. last = CHOOSE j \in {i} : \A l \in {i} : l <= j  BY <2>1
    <3>2. i <= i  BY AddressAssumption
    <3>. QED  BY <3>1, <3>2
  <2>. HIDE DEF found, last
  <2>. QED  BY <1>1, <2>1, <2>2, <2>3
<1>3. CASE Sections[i].name = ".data"
  <2>1. Sections[i].type = "PROGBITS"  BY <1>1, <1>3
  <2>. QED  BY <1>2, <1>3, <2>1 DEF IS_GLOBAL, elfdata
<1>4. CASE Sections[i].name = ".bss"
  <2>1. Sections[i].type = "NOBITS"  BY <1>1, <1>4
  <2>. QED  BY <1>2, <1>4, <2>1 DEF IS_GLOBAL, elfbss
<1>5. CASE Sections[i].name = ".rodata"
  <2>1. Sections[i].type = "PROGBITS"  BY <1>1, <1>5
  <2>. QED  BY <1>2, <1>5, <2>1 DEF IS_GLOBAL, elfro
<1>. QED  BY <1>1, <1>3, <1>4, <1>5

\* A place in the heap is looked up as far from the start of the other heap.
LEMMA HeapAddresses ==
  ASSUME NEW p \in PE, NEW q \in PE, NEW a \in 0 .. HeapSize - 1
  PROVE  /\ Lookup(p, Base[p] + a, q) = Base[q] + a
         /\ Base[q] + a # NULL
<1>1. Base[p] \in Nat /\ Base[q] \in Nat /\ HeapSize \in Nat  BY AddressAssumption
<1>2. ~ IS_GLOBAL(Base[p] + a)  BY ExecutableAssumption
<1>3. (Base[p] + a) - Base[p] = a /\ ~ (a < 0 \/ a > HeapSize)  BY <1>1
<1>. QED  BY <1>1, <1>2, <1>3 DEF Lookup, NULL

\* Between calls a block is in the heap.
LEMMA BlockInHeap ==
  ASSUME Shape, NEW H, Past(H), NEW p \in PE, At(p, H), pc[p] = "outside", NEW k \in Nat \ {0},
         Address(heap[p], k) # NULL
  PROVE  Address(heap[p], k) \in 0 .. HeapSize - 1
<1>1. heap[p] = H[calls[p]].heap  BY DEF At, AtRest, Done
<1>2. calls[p] \in 0 .. Len(log)  BY DEF Shape
<1>3. Named(heap[p])  BY <1>1, <1>2 DEF Past, GoodHeap
<1>4. k # Lost  BY DEF Lost
<1>. QED  BY <1>3, <1>4, AddressOf DEF Named

\* A new call: shfree_nb waits for the puts to its block, and the others have barriers.
LEMMA CallFlight ==
  ASSUME Shape, Shape', NEW H, \A r \in PE : At(r, H), InFlight, NEW p \in PE, Call(p)
  PROVE  InFlight'
<1>1. /\ flight' = flight /\ heap' = heap /\ calls' = [calls EXCEPT ![p] = @ + 1]
      /\ calls \in [PE -> Nat] /\ Len(log) \in Nat /\ \A r \in PE : calls[r] <= Len(log)
      /\ calls' \in [PE -> Nat] /\ \A r \in PE : calls'[r] <= Len(log')
  BY DEF Call, Shape
<1>2. \/ log' = log
      \/ \E c \in Calls : log' = Append(log, c)
  BY DEF Call
<1>3. /\ Len(log') \in {Len(log), Len(log) + 1}
      /\ \A x \in 1 .. Len(log) : log'[x] = log[x]
      /\ Len(log') = Len(log) + 1 => \E c \in Calls : log'[Len(log) + 1] = c
  <2>1. CASE log' = log  BY <1>1, <2>1
  <2>2. CASE \E c \in Calls : log' = Append(log, c)
    <3>1. PICK c \in Calls : log' = Append(log, c)  BY <2>2
    <3>2. /\ Len(log') = Len(log) + 1 /\ log'[Len(log) + 1] = c
          /\ \A x \in 1 .. Len(log) : log'[x] = log[x]
      BY <3>1 DEF Shape
    <3>. QED  BY <1>1, <3>2
  <2>. QED  BY <1>2, <2>1, <2>2
<1>4. SUFFICES ASSUME NEW m \in flight PROVE Flying(m)'  BY <1>1 DEF InFlight
<1>5. Flying(m)  BY DEF InFlight
<1>6. \A r \in PE : r # p => pc'[r] = pc[r] /\ calls'[r] = calls[r]
  BY <1>1 DEF Call, Goto, Shape, Array
<1>7. /\ pc'[p] \in {"outside", "free", "release", "check"} \/ (~Debug /\ pc'[p] = "allocate")
      /\ pc'[p] = "release" => log'[calls'[p]].op = "free_nb"
  <2>. DEFINE c == log'[calls'[p]]
  <2>1. \/ pc' = pc /\ pc[p] = "outside"
        \/ pc'[p] = CASE Kind(c) = "free" -> "free"
                      [] Kind(c) = "realloc" /\ c.size[p] = 0 /\ Address(heap[p], c.block) # NULL -> "free"
                      [] c.op = "free_nb" -> "release"
                      [] OTHER -> IF Debug THEN "check" ELSE "allocate"
    BY DEF Call, Goto, Shape, Array
  <2>. HIDE DEF c
  <2>2. /\ pc'[p] \in {"outside", "free", "release", "check"} \/ (~Debug /\ pc'[p] = "allocate")
        /\ pc'[p] = "release" => c.op = "free_nb"
    BY <2>1
  <2>. QED  BY <2>2 DEF c
<1>8. Unmet(m.src)'
  BY <1>5, <1>6, <1>7 DEF Flying, Unmet
<1>9. pc'[m.src] = "release" => log'[calls'[m.src]].op = "free_nb"
  <2>1. CASE m.src = p  BY <1>7, <2>1
  <2>2. CASE m.src # p
    <3>1. SUFFICES ASSUME pc[m.src] = "release" PROVE log'[calls[m.src]].op = "free_nb"
      BY <1>5, <1>6, <2>2 DEF Flying
    <3>2. m.src \in PE /\ log[calls[m.src]].op = "free_nb"  BY <1>5, <3>1 DEF Flying
    <3>3. calls[m.src] > 0  BY <3>1, <3>2 DEF At, Done
    <3>4. calls[m.src] \in 1 .. Len(log)  BY <1>1, <3>2, <3>3
    <3>. QED  BY <1>3, <3>2, <3>4
  <2>. QED  BY <2>1, <2>2
<1>10. ASSUME NEW x \in calls'[m.src] .. Len(log'), x > 0
       PROVE  ~ (log'[x].op = "free_nb" /\ log'[x].block = m.name)
  <2>0. m.src \in PE  BY <1>5 DEF Flying
  <2>1. calls'[m.src] \in Nat /\ calls[m.src] \in Nat /\ calls[m.src] <= calls'[m.src]
    BY <1>1, <2>0
  <2>2. CASE x \in 1 .. Len(log)
    <3>1. x \in calls[m.src] .. Len(log)  BY <1>1, <1>10, <2>1, <2>2
    <3>2. ~ (log[x].op = "free_nb" /\ log[x].block = m.name)  BY <1>5, <1>10, <3>1 DEF Flying
    <3>. QED  BY <1>3, <2>2, <3>2
  <2>3. CASE x \notin 1 .. Len(log)
    <3>1. x = Len(log) + 1 /\ Len(log') = Len(log) + 1  BY <1>1, <1>3, <1>10, <2>1, <2>3
    <3>2. PICK c \in Calls : log'[x] = c  BY <1>3, <3>1
    <3>3. PICK op, sizes : c \in [op : {op}, block : Blocks(op), size : sizes]
      BY DEF Calls
    <3>4. c.op = op /\ c.block \in Blocks(op)  BY <3>3
    <3>5. c.op = "free_nb" => Settled(c.block)  BY <3>4 DEF Blocks
    <3>. QED  BY <3>2, <3>5 DEF Settled
  <2>. QED  BY <2>2, <2>3
<1>11. m.name \in 1 .. Len(log')  BY <1>1, <1>3, <1>5 DEF Flying
<1>12. pc'[m.src] = "arrive" => m.name # calls'[m.src]  BY <1>5, <1>6, <1>7 DEF Flying
<1>. QED  BY <1>1, <1>5, <1>8, <1>9, <1>10, <1>11, <1>12 DEF Flying

\* A step of the library: neither end of a put touches its block.
LEMMA LibraryFlight ==
  ASSUME Settling, Shape, Shape', NEW H, Past(H), \A r \in PE : At(r, H) /\ At(r, H)', InFlight,
         NEW p \in PE, LibraryStep(p)
  PROVE  InFlight'
<1>1. Apart(p) /\ log' = log /\ calls' = calls  BY LibraryKept
<1>2. flight' = flight
  BY DEF LibraryStep, CheckBegin, CheckArrive, CheckLeave, Compare, CheckArriveAgain, CheckEnd,
     Refused, Allocate, Reallocate, LastArrive, LastLeave, FreeArrive, FreeLeave, Release
<1>3. SUFFICES ASSUME NEW m \in flight PROVE Flying(m)'  BY <1>2 DEF InFlight
<1>4. Flying(m)  BY DEF InFlight
<1>5. CASE m.src = p
  <2>1. heap'[m.dst] = heap[m.dst]  BY <1>1, <1>4, <1>5 DEF Apart, Flying
  <2>2. /\ Address(heap'[p], m.name) = Address(heap[p], m.name) /\ Unmet(p)' /\ pc'[p] # "release"
        /\ pc'[p] = "arrive" => m.name # calls[p]
    BY <1>4, <1>5, SourceStays
  <2>. QED  BY <1>1, <1>4, <1>5, <2>1, <2>2 DEF Flying
<1>6. CASE m.src # p
  <2>1. heap'[m.src] = heap[m.src] /\ pc'[m.src] = pc[m.src]  BY <1>1, <1>4, <1>6 DEF Apart, Flying
  <2>2. Address(heap'[m.dst], m.name) = Address(heap[m.dst], m.name)
    <3>1. CASE m.dst = p  BY <1>4, <3>1, TargetStays
    <3>2. CASE m.dst # p  BY <1>1, <1>4, <3>2 DEF Apart, Flying
    <3>. QED  BY <3>1, <3>2
  <2>3. Unmet(m.src)'  BY <1>4, <2>1 DEF Flying, Unmet
  <2>. QED  BY <1>1, <1>4, <2>1, <2>2, <2>3 DEF Flying
<1>. QED  BY <1>5, <1>6

\* A new put: its block is in the same place on both PEs.
LEMMA PutFlight ==
  ASSUME Settling, Shape, NEW H, Past(H), \A r \in PE : At(r, H), InFlight,
         NEW p \in PE, NEW q \in PE, p # q, Put(p, q)
  PROVE  InFlight'
<1>1. /\ pc[p] = "outside" /\ log' = log /\ calls' = calls /\ heap' = heap
  BY DEF Put
<1>2. PICK k \in InUse(p) :
        \/ pc' = [pc EXCEPT ![p] = "not symmetric"] /\ flight' = flight
        \/ /\ pc' = pc
           /\ flight' = flight \cup {[src |-> p, dst |-> q, addr |-> Lookup(p, Where(p, k), q), name |-> k]}
  BY DEF Put, Goto
<1>3. \A r \in PE : pc'[r] = pc[r] \/ (r = p /\ pc'[r] = "not symmetric")
  BY <1>2 DEF Shape, Array
<1>4. ASSUME NEW m \in flight PROVE Flying(m)'
  <2>1. Flying(m)  BY DEF InFlight
  <2>2. Unmet(m.src)'  BY <1>3, <2>1 DEF Flying, Unmet
  <2>3. /\ pc'[m.src] = "release" => pc[m.src] = "release"
        /\ pc'[m.src] = "arrive" => pc[m.src] = "arrive"
    BY <1>3, <2>1 DEF Flying
  <2>. QED  BY <1>1, <2>1, <2>2, <2>3 DEF Flying
<1>5. ASSUME pc' = pc,
             NEW m, m = [src |-> p, dst |-> q, addr |-> Lookup(p, Where(p, k), q), name |-> k]
      PROVE  Flying(m)'
  <2>. DEFINE a == Address(heap[p], k)
  <2>1. m.src = p /\ m.dst = q /\ m.addr = Lookup(p, Where(p, k), q) /\ m.name = k  BY <1>5
  <2>2. calls[p] \in 0 .. Len(log) /\ Len(log) \in Nat  BY DEF Shape
  <2>3. /\ k \in 1 .. Len(log) /\ a # NULL
        /\ \A x \in calls[p] + 1 .. Len(log) : ~ (log[x].op = "free_nb" /\ log[x].block = k)
    BY <2>2 DEF InUse
  <2>4. a \in 0 .. HeapSize - 1  BY <1>1, <2>3, BlockInHeap
  <2>5. Where(p, k) = Base[p] + a  BY <2>3 DEF Where
  <2>6. m.addr = Base[q] + a  BY <2>1, <2>4, <2>5, HeapAddresses
  <2>7. Address(heap[q], k) = a  BY <1>1, PutsAgree
  <2>8. ASSUME NEW x \in calls[p] .. Len(log), x > 0
        PROVE  ~ (log[x].op = "free_nb" /\ log[x].block = k)
    <3>1. CASE x # calls[p]
      <4>1. x \in calls[p] + 1 .. Len(log)  BY <2>2, <2>8, <3>1
      <4>. QED  BY <2>3, <4>1
    <3>2. CASE x = calls[p]
      <4>1. SUFFICES ASSUME log[x].op = "free_nb", log[x].block = k PROVE FALSE  OBVIOUS
      <4>2. PICK s, c : s = H[x - 1] /\ c = log[x]  OBVIOUS
      <4>3. x \in 1 .. Len(log) /\ x \in Nat \ {0} /\ x - 1 \in 0 .. Len(log)
        BY <2>2, <2>8
      <4>4. CallOK(c, x) /\ GoodHeap(s.heap, x - 1) /\ H[x] = After(s, c)
        BY <4>2, <4>3 DEF Shape, Past, History
      <4>5. ~Nothing(c) /\ Releases(c, s.heap)  BY <4>1, <4>2 DEF Nothing, Releases
      <4>6. Address(H[x].heap, c.block) = NULL
        <5>1. c.block \in Nat \ {0}  BY <2>3, <4>1, <4>2
        <5>. QED  BY <4>3, <4>4, <4>5, <5>1, AfterElse
      <4>7. heap[p] = H[x].heap  BY <1>1, <3>2 DEF At, AtRest, Done
      <4>. QED  BY <2>3, <4>1, <4>2, <4>6, <4>7
    <3>. QED  BY <3>1, <3>2
  <2>9. Unmet(p) /\ pc[p] \notin {"release", "arrive"}  BY <1>1 DEF Unmet
  <2>10. Unmet(p)'  BY <1>5, <2>9 DEF Unmet
  <2>11. /\ Address(heap[p], k) = a /\ Address(heap'[p], k) = a /\ Address(heap'[q], k) = a
         /\ a # NULL /\ m.addr = Base[q] + a
    BY <1>1, <2>3, <2>6, <2>7
  <2>. HIDE DEF a
  <2>12. \A x \in calls'[m.src] .. Len(log') : x > 0 => ~ (log'[x].op = "free_nb" /\ log'[x].block = m.name)
    BY <1>1, <2>1, <2>8
  <2>13. pc'[p] \notin {"release", "arrive"}  BY <1>5, <2>9
  <2>. QED  BY <1>1, <2>1, <2>3, <2>10, <2>11, <2>12, <2>13 DEF Flying
<1>. QED
  <2>1. CASE flight' = flight  BY <1>4, <2>1 DEF InFlight
  <2>2. CASE flight' # flight
    <3>1. PICK m : m = [src |-> p, dst |-> q, addr |-> Lookup(p, Where(p, k), q), name |-> k]
      OBVIOUS
    <3>2. pc' = pc /\ flight' = flight \cup {m}  BY <1>2, <2>2, <3>1
    <3>3. Flying(m)'  BY <1>5, <3>1, <3>2
    <3>. QED  BY <1>4, <3>2, <3>3 DEF InFlight
  <2>. QED  BY <2>1, <2>2

\* Every step keeps puts on their way to their blocks.
LEMMA NextFlight ==
  ASSUME Settling, IInv, IInv', InFlight, [Next]_vars
  PROVE  InFlight'
<1>1. Shape /\ Shape'  BY DEF IInv
<1>2. PICK H : Past(H) /\ \A r \in PE : At(r, H)  BY DEF IInv
<1>3. ASSUME NEW p \in PE, Call(p) PROVE InFlight'  BY <1>1, <1>2, <1>3, CallFlight
<1>4. ASSUME NEW p \in PE, LibraryStep(p) PROVE InFlight'
  <2>1. Apart(p) /\ log' = log /\ calls' = calls  BY <1>1, <1>4, LibraryKept
  <2>2. At(p, H)'  BY <1>1, <1>2, <1>4, LibraryAt
  <2>3. ASSUME NEW r \in PE PROVE At(r, H)'
    <3>1. CASE r = p  BY <2>2, <3>1
    <3>2. CASE r # p  BY <1>1, <1>2, <2>1, <3>2, Elsewhere DEF Apart
    <3>. QED  BY <3>1, <3>2
  <2>. QED  BY <1>1, <1>2, <1>4, <2>3, LibraryFlight
<1>5. ASSUME NEW p \in PE, NEW q \in PE, p # q, Put(p, q) PROVE InFlight'
  BY <1>1, <1>2, <1>5, PutFlight
<1>6. CASE (\E m \in flight : Land(m)) \/ UNCHANGED vars
  <2>1. /\ log' = log /\ calls' = calls /\ pc' = pc /\ heap' = heap /\ \A m \in flight' : m \in flight
    BY <1>6 DEF Land, vars, barrier
  <2>. QED  BY <2>1 DEF InFlight, Flying, Unmet
<1>. QED  BY <1>3, <1>4, <1>5, <1>6 DEF Next

\* What the program may put to is accessible.
LEMMA FlightLands ==
  ASSUME IInv, InFlight, NEW p \in PE, NEW q \in PE, pc[p] = "outside"
  PROVE  /\ \A n \in InUse(p) : Accessible(p, Where(p, n), q)
         /\ \A v \in Variables : Lookup(p, v, q) = v
<1>1. Shape  BY DEF IInv
<1>2. PICK H : Past(H) /\ \A r \in PE : At(r, H)  BY DEF IInv
<1>3. ASSUME NEW n \in InUse(p) PROVE Accessible(p, Where(p, n), q)
  <2>1. n \in Nat \ {0} /\ Address(heap[p], n) # NULL  BY <1>1 DEF InUse, Shape
  <2>2. Address(heap[p], n) \in 0 .. HeapSize - 1  BY <1>1, <1>2, <2>1, BlockInHeap
  <2>3. Where(p, n) = Base[p] + Address(heap[p], n)  BY <2>1 DEF Where
  <2>. QED  BY <2>2, <2>3, HeapAddresses DEF Accessible
<1>4. \A v \in Variables : Lookup(p, v, q) = v  BY VariablesAreGlobal DEF Lookup
<1>. QED  BY <1>3, <1>4

\* A program whose menu never resizes a block never does.
LEMMA NextSettling ==
  ASSUME Debug \/ \A n \in DOMAIN Menu : DOMAIN Menu[n] \cap {"realloc", "shpclmove"} = {},
         IInv, Settling, [Next]_vars
  PROVE  Settling'
<1>1. Shape  BY DEF IInv
<1>2. CASE Debug  BY <1>2 DEF Settling
<1>3. CASE ~Debug /\ \E p \in PE : Call(p) /\ log' # log
  <2>1. PICK p \in PE : Call(p) /\ log' # log  BY <1>3
  <2>2. calls[p] <= Len(log) /\ calls[p] \in Nat /\ Len(log) \in Nat  BY <1>1 DEF Shape
  <2>3. ~ (calls[p] < Len(log)) /\ calls[p] < Len(Menu)  BY <2>1 DEF Call
  <2>4. PICK c \in Calls : log' = Append(log, c)  BY <2>1, <2>3 DEF Call
  <2>5. Len(log) + 1 \in DOMAIN Menu  BY <2>2, <2>3, HeapAssumption
  <2>6. c.op \notin {"realloc", "shpclmove"}
    <3>. DEFINE menu == Menu[Len(log) + 1]
    <3>1. PICK op \in DOMAIN menu : c \in [op : {op}, block : Blocks(op), size : Requested(menu[op])]
      BY DEF Calls
    <3>. QED  BY <1>3, <2>5, <3>1
  <2>7. /\ Len(log') = Len(log) + 1 /\ log'[Len(log) + 1] = c
        /\ \A n \in 1 .. Len(log) : log'[n] = log[n]
    BY <1>1, <2>4 DEF Shape
  <2>8. ASSUME NEW n \in 1 .. Len(log') PROVE n \in 1 .. Len(log) \/ n = Len(log) + 1
    BY <2>2, <2>7
  <2>. QED  BY <1>3, <2>6, <2>7, <2>8 DEF Settling
<1>4. CASE ~ \E p \in PE : Call(p) /\ log' # log
  <2>1. ASSUME NEW p \in PE, LibraryStep(p) PROVE log' = log  BY <1>1, <2>1, LibraryKept
  <2>2. ASSUME NEW p \in PE, NEW q \in PE, Put(p, q) PROVE log' = log  BY <2>2 DEF Put
  <2>3. log' = log  BY <1>4, <2>1, <2>2 DEF Next, Land, vars
  <2>. QED  BY <2>3 DEF Settling
<1>. QED  BY <1>2, <1>3, <1>4

\* No put to the symmetric heap lands anywhere but in the block it was meant for
\* (symmem.c:158 and 227), in a debug build whatever the program does, in a release
\* build if it passes the same sizes everywhere and does not resize its blocks; in both
\* if the alignments it passes find the same places everywhere (dlmalloc.c:4394).
THEOREM PutsLand ==
  ASSUME \/ Debug
         \/ /\ Differing = {}
            /\ \A n \in DOMAIN Menu : DOMAIN Menu[n] \cap {"realloc", "shpclmove"} = {},
         PlacesAgree
  PROVE  Spec => []PutsLandInTheirBlock
<1>1. Init => InFlight /\ Settling
  <2>1. SUFFICES ASSUME Init PROVE InFlight /\ Settling  OBVIOUS
  <2>2. flight = {} /\ Len(log) = 0  BY <2>1 DEF Init
  <2>3. ~ \E n \in 1 .. Len(log) : TRUE  BY <2>2
  <2>. QED  BY <2>2, <2>3 DEF InFlight, Settling
<1>2. IInv /\ Settling /\ [Next]_vars => Settling'  BY NextSettling
<1>3. IInv /\ IInv' /\ Settling /\ InFlight /\ [Next]_vars => InFlight'  BY NextFlight
<1>4. IInv /\ InFlight => PutsLandInTheirBlock
  <2>1. SUFFICES ASSUME IInv, InFlight PROVE PutsLandInTheirBlock  OBVIOUS
  <2>2. ASSUME NEW m \in flight PROVE Where(m.dst, m.name) = m.addr
    BY <2>1 DEF InFlight, Flying, Where
  <2>. QED  BY <2>1, <2>2, FlightLands DEF PutsLandInTheirBlock
<1>5. Spec => []IInv
  <2>1. Debug \/ Differing = {}  OBVIOUS
  <2>. QED  BY <2>1, SymmHeapInvariant
<1>. QED  BY <1>1, <1>2, <1>3, <1>4, <1>5, PTL DEF Spec

=============================================================================
