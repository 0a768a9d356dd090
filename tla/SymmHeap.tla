------------------------------ MODULE SymmHeap ------------------------------
(***************************************************************************)
(* The symmetric heap: memory/symmem.c over memory/memalloc.c and          *)
(* memory/debug_alloc.c, and fortran/fortran-mem.c over it.  shmem_malloc, *)
(* shmem_align, shmem_realloc and shmem_free work on the heap of each PE;  *)
(* barriers and, in a debug build, a comparison of sizes keep the heaps    *)
(* alike.  shmalloc_nb and shfree_nb leave the barrier to the program.     *)
(*                                                                         *)
(* The program is the same on all PEs: the first PE to make its n-th call  *)
(* chooses it, the others follow.  What differs may be the size.  Between  *)
(* calls it puts to its blocks on other PEs.  Puts to static variables,    *)
(* which stay where they are, are left out.  Barriers are                  *)
(* shmem_barrier_all, that is a quiet and SyncBarrier.                     *)
(* Memory comes in units, a long in one.  Places in a heap are counted     *)
(* from its start, addresses are those of SymmAddr.                        *)
(***************************************************************************)
EXTENDS SymmAddr, FiniteSets, Functions

CONSTANTS
  Variables,      \* where the program's static variables are
  Debug,          \* HAVE_FEATURE_DEBUG
  Menu,           \* what the program may do, call by call: operations and sizes
  Alignment,      \* the alignment it passes
  Scale,          \* units of a Fortran word
  Aborting,       \* the calls with the abort argument of Fortran set
  Differing,      \* the calls at which it may pass different sizes
  MaxPuts         \* bound: puts of one PE in flight

ASSUME HeapAssumption ==
  /\ Variables \subseteq Nat /\ Debug \in BOOLEAN
  /\ Len(Menu) \in Nat /\ DOMAIN Menu = 1 .. Len(Menu)
  /\ \A n \in DOMAIN Menu :
       /\ DOMAIN Menu[n] \subseteq {"malloc", "align", "realloc", "free", "malloc_nb", "free_nb",
                                  "shpalloc", "shpclmove", "shpdeallc"}
       /\ \A op \in DOMAIN Menu[n] : Menu[n][op] \subseteq Nat
  /\ Alignment \in Nat \ {0} /\ Scale \in Nat \ {0}
  /\ Aborting \subseteq Nat /\ Differing \subseteq Nat /\ MaxPuts \in Nat

\* Heaps are apart from static variables, and each of those is in a section the
\* table is made of: there is one of that name, and it precedes the symbol table.
ASSUME ExecutableAssumption ==
  /\ \A p \in PE : \A a \in 0 .. HeapSize - 1 : ~ IS_GLOBAL(Base[p] + a)
  /\ \A v \in Variables : \E i \in DOMAIN Sections :
       /\ v \in Sections[i].start .. Sections[i].start + Sections[i].size - 1
       /\ <<Sections[i].type, Sections[i].name>> \in
            {<<"PROGBITS", ".data">>, <<"NOBITS", ".bss">>, <<"PROGBITS", ".rodata">>}
       /\ \A j \in DOMAIN Sections :
            Sections[j].type = Sections[i].type /\ Sections[j].name = Sections[i].name => j = i
       /\ \A j \in SymbolTable : i < j

VARIABLES
  log,            \* the calls of the program: what, which block, what sizes
  calls,          \* how many each PE has begun
  pc,             \* where each PE is
  heap,           \* the blocks of each heap: their size and their name
  atp,            \* the debug table of each PE: sizes by address
  cell,           \* *shmalloc_remote_size on each PE
  pe,             \* the PEs each one has compared sizes with
  malloc_error,
  errcode,        \* what the Fortran routines told each PE last
  flight,         \* puts that have not landed
  arrived, left   \* the barrier

vars == <<log, calls, pc, heap, atp, cell, pe, malloc_error, errcode, flight, arrived, left>>
barrier == <<arrived, left>>

Barrier == INSTANCE SyncBarrier WITH Member <- PE

-----------------------------------------------------------------------------
(* Each mspace is dlmalloc's: what matters here is that it is              *)
(* deterministic, and that it aligns the addresses of blocks, not their    *)
(* places in the heap.  This one takes the first place that fits.          *)

Cell == 0          \* the name of the block __shmalloc_symmetry_check uses
Lost == -1         \* the name of a block the program has no pointer to any more

Used(h) == UNION {a .. a + h[a].size - 1 : a \in DOMAIN h}
Fits(h, size, a) == a + size <= HeapSize /\ (a .. a + size - 1) \cap Used(h) = {}

\* No block is smaller than one unit.
AtLeastOne(size) == IF size = 0 THEN 1 ELSE size

FirstFit(h, size, places) ==
  LET fitting == {a \in places : Fits(h, size, a)}
  IN  IF fitting = {} THEN NULL ELSE CHOOSE a \in fitting : \A b \in fitting : a <= b

\* mspace_malloc and mspace_memalign.
Place(h, size) == FirstFit(h, size, 0 .. HeapSize - 1)
AlignedPlaces(p) == {a \in 0 .. HeapSize - 1 : (Base[p] + a) % Alignment = 0}
PlaceAligned(p, h, size) == FirstFit(h, size, AlignedPlaces(p))

With(f, a, v) == [b \in DOMAIN f \cup {a} |-> IF b = a THEN v ELSE f[b]]
Without(f, a) == Restrict(f, DOMAIN f \ {a})

Block(size, name) == [size |-> size, name |-> name]
Address(h, name) ==
  IF \E a \in DOMAIN h : h[a].name = name THEN CHOOSE a \in DOMAIN h : h[a].name = name ELSE NULL

\* Where a block goes when it is resized: it stays if it can.
Resized(h, a, size) ==
  IF Fits(Without(h, a), size, a) THEN a ELSE Place(h, size)

-----------------------------------------------------------------------------
Init ==
  /\ log = <<>>
  /\ calls = [p \in PE |-> 0]
  /\ pc = [p \in PE |-> IF TableInit = 0 THEN "outside" ELSE "no symbols"]
  /\ heap = [p \in PE |-> <<>>]
  /\ atp = [p \in PE |-> <<>>]
  /\ cell = [p \in PE |-> 0]
  /\ pe = [p \in PE |-> {}]
  /\ malloc_error = [p \in PE |-> "OK"]
  /\ errcode = [p \in PE |-> "OK"]
  /\ flight = {}
  /\ Barrier!Init

Goto(p, l) == pc' = [pc EXCEPT ![p] = l]
SetHeap(p, h) == heap' = [heap EXCEPT ![p] = h]
SetError(p, e) == malloc_error' = [malloc_error EXCEPT ![p] = e]

\* The call p is in.
Now(p) == log[calls[p]]
Kind(c) ==
  CASE c.op = "shpalloc" -> "malloc"
    [] c.op = "shpclmove" -> "realloc"
    [] c.op = "shpdeallc" -> "free"
    [] OTHER -> c.op
IsFortran(c) == c.op \in {"shpalloc", "shpclmove", "shpdeallc"}

\* shpalloc counts words, shpclmove does not.
MySize(p) == IF Now(p).op = "shpalloc" THEN Scale * Now(p).size[p] ELSE Now(p).size[p]
MyAddress(p) == Address(heap[p], Now(p).block)

\* Back to the program.  A Fortran routine passes malloc_error on, and ends the
\* program on an error if it is told to.
Return(p, error) ==
  /\ errcode' = IF IsFortran(Now(p)) THEN [errcode EXCEPT ![p] = error] ELSE errcode
  /\ Goto(p, IF IsFortran(Now(p)) /\ error # "OK" /\ calls[p] \in Aborting THEN "aborted" ELSE "outside")

\* debug_alloc_add and debug_alloc_del, if they are compiled in.
TableAdd(p, a, size) ==
  atp' = IF Debug THEN [atp EXCEPT ![p] = With(@, a, size)] ELSE atp
TableDel(p, a) ==
  atp' = IF Debug THEN [atp EXCEPT ![p] = Without(@, a)] ELSE atp

\* shmem_barrier_all: a quiet, and the barrier.
Arrive(p) ==
  /\ \A m \in flight : m.src # p
  /\ Barrier!Arrive(p)

-----------------------------------------------------------------------------
(* What the program may put to: its blocks and its static variables.       *)

\* Where a block is on q.
Where(q, n) ==
  LET a == Address(heap[q], n) IN IF a = NULL THEN NULL ELSE Base[q] + a

\* The n-th call meets the other PEs in a barrier.
Meets(n) ==
  /\ log[n].op \notin {"malloc_nb", "free_nb"}
  /\ \A p \in PE : ~ (log[n].op = "shpalloc" /\ log[n].size[p] = 0)

\* A program that uses the calls without a barrier has to meet between the
\* allocation of a block and its use ...
InUse(p) ==
  {n \in 1 .. calls[p] :
    /\ Address(heap[p], n) # NULL
    /\ \E k \in n .. calls[p] : Meets(k)
    /\ \A k \in calls[p] + 1 .. Len(log) : ~ (log[k].op = "free_nb" /\ log[k].block = n)}

\* ... and between its use and its release.
Settled(n) == \A m \in flight : m.name # n

-----------------------------------------------------------------------------
Names == {n \in 1 .. Len(log) : Kind(log[n]) \in {"malloc", "align", "malloc_nb"}}

\* What the PEs may pass to the next call.
Requested(sizes) ==
  {s \in [PE -> sizes] :
    \/ \A p, q \in PE : s[p] = s[q]
    \/ Len(log) + 1 \in Differing /\ \A p \in PE : s[p] # 0}

Blocks(op) ==
  CASE op \in {"malloc", "align", "malloc_nb", "shpalloc"} -> {Len(log) + 1}
    [] op = "free_nb" -> {n \in Names : Settled(n)}
    [] OTHER -> Names

Calls ==
  LET menu == Menu[Len(log) + 1]
  IN  UNION {[op : {op}, block : Blocks(op), size : Requested(menu[op])] : op \in DOMAIN menu}

\* A block is named after the call that allocates it; where there is none, or no
\* more, the program passes NULL.  shrealloc(NULL) is shmem_malloc, shrealloc to
\* nothing is shmem_free, and shpalloc wants a positive length.
Call(p) ==
  /\ pc[p] = "outside"
  /\ calls[p] < Len(Menu)
  /\ calls' = [calls EXCEPT ![p] = @ + 1]
  /\ IF calls[p] < Len(log) THEN log' = log ELSE \E c \in Calls : log' = Append(log, c)
  /\ LET c == log'[calls'[p]]
     IN  IF c.op = "shpalloc" /\ c.size[p] = 0
         THEN /\ errcode' = [errcode EXCEPT ![p] = "BAD_SIZE"]
              /\ UNCHANGED pc
         ELSE /\ Goto(p, CASE Kind(c) = "free" -> "free"
                           [] Kind(c) = "realloc" /\ c.size[p] = 0 /\ Address(heap[p], c.block) # NULL -> "free"
                           [] c.op = "free_nb" -> "release"
                           [] OTHER -> IF Debug THEN "check" ELSE "allocate")
              /\ UNCHANGED errcode
  /\ UNCHANGED <<heap, atp, cell, pe, malloc_error, flight, barrier>>

\* __shmalloc_symmetry_check: a long on the heap holds the size, a PE without
\* space for it exits with a fatal message ...
CheckBegin(p) ==
  /\ pc[p] = "check"
  /\ LET a == Place(heap[p], 1)
     IN  IF a = NULL
         THEN /\ TableAdd(p, NULL, 1)
              /\ Goto(p, "out of memory")
              /\ UNCHANGED <<heap, cell, malloc_error>>
         ELSE /\ SetHeap(p, With(heap[p], a, Block(1, Cell)))
              /\ TableAdd(p, a, 1)
              /\ cell' = [cell EXCEPT ![p] = MySize(p)]
              /\ Goto(p, "check_arrive")
              /\ UNCHANGED malloc_error
  /\ UNCHANGED <<log, calls, pe, errcode, flight, barrier>>

CheckArrive(p) ==
  /\ pc[p] = "check_arrive"
  /\ Arrive(p)
  /\ Goto(p, "check_leave")
  /\ UNCHANGED <<log, calls, heap, atp, cell, pe, malloc_error, errcode, flight>>

CheckLeave(p) ==
  /\ pc[p] = "check_leave"
  /\ Barrier!Leave(p)
  /\ pe' = [pe EXCEPT ![p] = {p}]
  /\ SetError(p, "OK")
  /\ Goto(p, "compare")
  /\ UNCHANGED <<log, calls, heap, atp, cell, errcode, flight>>

Bug_CompareNeighbour(p, q) ==
  /\ pc[p] = "compare"
  /\ q \notin pe[p]
  /\ pe' = [pe EXCEPT ![p] = PE]
  /\ IF cell[q] = MySize(p) THEN UNCHANGED malloc_error ELSE SetError(p, "SYMMSIZE_FAILED")
  /\ UNCHANGED <<log, calls, pc, heap, atp, cell, errcode, flight, barrier>>

\* ... and is compared with those of the others, up to the first that differs.
Compare(p, q) ==
  /\ pc[p] = "compare"
  /\ q \notin pe[p]
  /\ \A r \in PE : r < q => r \in pe[p]
  /\ IF cell[q] = MySize(p)
     THEN /\ pe' = [pe EXCEPT ![p] = @ \cup {q}]
          /\ UNCHANGED malloc_error
     ELSE /\ pe' = [pe EXCEPT ![p] = PE]
          /\ SetError(p, "SYMMSIZE_FAILED")
  /\ UNCHANGED <<log, calls, pc, heap, atp, cell, errcode, flight, barrier>>

CheckArriveAgain(p) ==
  /\ pc[p] = "compare"
  /\ pe[p] = PE
  /\ Arrive(p)
  /\ Goto(p, "check_end")
  /\ UNCHANGED <<log, calls, heap, atp, cell, pe, malloc_error, errcode, flight>>

Bug_CheckEnd(p) ==
  /\ pc[p] = "check_end"
  /\ left' = [left EXCEPT ![p] = @ + 1]
  /\ SetHeap(p, Without(heap[p], Address(heap[p], Cell)))
  /\ TableDel(p, Address(heap[p], Cell))
  /\ Goto(p, IF malloc_error[p] = "OK" THEN "allocate" ELSE "refused")
  /\ UNCHANGED <<log, calls, cell, pe, malloc_error, errcode, flight, arrived>>

\* When everyone has compared, the long is freed.
CheckEnd(p) ==
  /\ pc[p] = "check_end"
  /\ Barrier!Leave(p)
  /\ SetHeap(p, Without(heap[p], Address(heap[p], Cell)))
  /\ TableDel(p, Address(heap[p], Cell))
  /\ Goto(p, IF malloc_error[p] = "OK" THEN "allocate" ELSE "refused")
  /\ UNCHANGED <<log, calls, cell, pe, malloc_error, errcode, flight>>

\* A Fortran program whose shpclmove fails is left with a null pointer.
Forget(p) ==
  IF Now(p).op = "shpclmove"
  THEN SetHeap(p, [heap[p] EXCEPT ![MyAddress(p)].name = Lost])
  ELSE UNCHANGED heap

\* shmalloc meets the others in any case, shrealloc, shmemalign and shmalloc_nb
\* return.
IsMalloc(p) ==
  Kind(Now(p)) = "malloc" \/ (Kind(Now(p)) = "realloc" /\ MyAddress(p) = NULL)

Refused(p) ==
  /\ pc[p] = "refused"
  /\ IF IsMalloc(p)
     THEN Goto(p, "arrive") /\ UNCHANGED <<heap, errcode>>
     ELSE Return(p, malloc_error[p]) /\ Forget(p)
  /\ UNCHANGED <<log, calls, atp, cell, pe, malloc_error, flight, barrier>>

\* mspace_malloc or mspace_memalign.  A failure goes into the table too.
Allocate(p) ==
  /\ pc[p] = "allocate"
  /\ MyAddress(p) = NULL
  /\ LET size == AtLeastOne(MySize(p))
         a == IF Now(p).op = "align" THEN PlaceAligned(p, heap[p], size) ELSE Place(heap[p], size)
     IN  /\ IF a = NULL
            THEN SetError(p, IF Now(p).op = "align" THEN "MEMALIGN_FAILED" ELSE "FAIL") /\ UNCHANGED heap
            ELSE SetError(p, "OK") /\ SetHeap(p, With(heap[p], a, Block(size, Now(p).block)))
         /\ TableAdd(p, a, MySize(p))
  /\ Goto(p, IF Now(p).op = "malloc_nb" THEN "outside" ELSE "arrive")
  /\ UNCHANGED <<log, calls, cell, pe, errcode, flight, barrier>>

\* mspace_realloc.  The table gets the new size, at the old address.
Reallocate(p) ==
  /\ pc[p] = "allocate"
  /\ MyAddress(p) # NULL
  /\ LET old == MyAddress(p)
         a == Resized(heap[p], old, MySize(p))
     IN  /\ IF a = NULL
            THEN SetError(p, "REALLOC_FAILED") /\ Forget(p)
            ELSE SetError(p, "OK")
                 /\ SetHeap(p, With(Without(heap[p], old), a, Block(MySize(p), Now(p).block)))
         /\ TableAdd(p, old, MySize(p))
  /\ Goto(p, "arrive")
  /\ UNCHANGED <<log, calls, cell, pe, errcode, flight, barrier>>

\* The barrier at the end of an allocation.
LastArrive(p) ==
  /\ pc[p] = "arrive"
  /\ Arrive(p)
  /\ Goto(p, "leave")
  /\ UNCHANGED <<log, calls, heap, atp, cell, pe, malloc_error, errcode, flight>>

LastLeave(p) ==
  /\ pc[p] = "leave"
  /\ Barrier!Leave(p)
  /\ Return(p, malloc_error[p])
  /\ UNCHANGED <<log, calls, heap, atp, cell, pe, malloc_error, flight>>

\* shfree: the barrier comes first.
FreeArrive(p) ==
  /\ pc[p] = "free"
  /\ Arrive(p)
  /\ Goto(p, "free_leave")
  /\ UNCHANGED <<log, calls, heap, atp, cell, pe, malloc_error, errcode, flight>>

Bug_FreeEarly(p) ==
  /\ pc[p] = "free_leave"
  /\ left' = [left EXCEPT ![p] = @ + 1]
  /\ Goto(p, "release")
  /\ UNCHANGED <<log, calls, heap, atp, cell, pe, malloc_error, errcode, flight, arrived>>

FreeLeave(p) ==
  /\ pc[p] = "free_leave"
  /\ Barrier!Leave(p)
  /\ Goto(p, "release")
  /\ UNCHANGED <<log, calls, heap, atp, cell, pe, malloc_error, errcode, flight>>

\* shfree_nb
Release(p) ==
  /\ pc[p] = "release"
  /\ LET a == MyAddress(p)
     IN  IF a = NULL
         THEN /\ SetError(p, "ALREADY_FREE")
              /\ Return(p, "ALREADY_FREE")
              /\ UNCHANGED <<heap, atp>>
         ELSE /\ SetHeap(p, Without(heap[p], a))
              /\ TableDel(p, a)
              /\ SetError(p, "OK")
              /\ IF Debug /\ a \notin DOMAIN atp[p]
                 THEN Goto(p, "internal error") /\ UNCHANGED errcode
                 ELSE Return(p, "OK")
  /\ UNCHANGED <<log, calls, cell, pe, flight, barrier>>

\* The program puts to one of its blocks on another PE.  A debug build ends it
\* if the address is not symmetric (SYMMETRY_CHECK).
Put(p, q) ==
  /\ pc[p] = "outside"
  /\ Cardinality({m \in flight : m.src = p}) < MaxPuts
  /\ \E n \in InUse(p) :
       LET dest == Where(p, n)
       IN  IF Debug /\ Lookup(p, dest, p) = NULL
           THEN Goto(p, "not symmetric") /\ UNCHANGED flight
           ELSE /\ flight' = flight \cup {[src |-> p, dst |-> q, addr |-> Lookup(p, dest, q), name |-> n]}
                /\ UNCHANGED pc
  /\ UNCHANGED <<log, calls, heap, atp, cell, pe, malloc_error, errcode, barrier>>

Land(m) ==
  /\ flight' = flight \ {m}
  /\ UNCHANGED <<log, calls, pc, heap, atp, cell, pe, malloc_error, errcode, barrier>>

LibraryStep(p) ==
  \/ CheckBegin(p) \/ CheckArrive(p) \/ CheckLeave(p) \/ (\E q \in PE : Compare(p, q))
  \/ CheckArriveAgain(p) \/ CheckEnd(p) \/ Refused(p) \/ Allocate(p) \/ Reallocate(p)
  \/ LastArrive(p) \/ LastLeave(p) \/ FreeArrive(p) \/ FreeLeave(p) \/ Release(p)

Next ==
  \/ \E p \in PE : Call(p) \/ LibraryStep(p)
  \/ \E p \in PE, q \in PE : p # q /\ Put(p, q)
  \/ \E m \in flight : Land(m)

Spec == Init /\ [][Next]_vars

-----------------------------------------------------------------------------
\* PEs that have made the same calls have the same heap and heard the same,
\* whatever sizes they passed.
HeapsAlike ==
  \A p, q \in PE : pc[p] = "outside" /\ pc[q] = "outside" /\ calls[p] = calls[q] =>
    /\ heap[p] = heap[q]
    /\ malloc_error[p] = malloc_error[q] /\ errcode[p] = errcode[q]

\* symmem.c:158: after an allocation "everyone will be ready for remote memory
\* use", and before blocks are freed (227) "everyone has synched": a put lands in
\* the block it was meant for, one to a static variable in that variable, and all
\* that the program may put to is accessible.
PutsLandInTheirBlock ==
  /\ \A m \in flight : Where(m.dst, m.name) = m.addr
  /\ \A p, q \in PE : pc[p] = "outside" =>
       /\ \A n \in InUse(p) : Accessible(p, Where(p, n), q)
       /\ \A v \in Variables : Lookup(p, v, q) = v

\* What one PE reads of another to compare sizes is the size the other passed to
\* the same call.
ComparesLiveSizes ==
  \A p \in PE : pc[p] = "compare" => \A q \in PE \ pe[p] :
    /\ Address(heap[q], Cell) = Address(heap[p], Cell)
    /\ calls[q] = calls[p]

\* debug_alloc_del calls a missing entry an "internal error".
\* The code does not keep this promise: see Divergences in README.md.
NoInternalError == \A p \in PE : pc[p] # "internal error"

=============================================================================
