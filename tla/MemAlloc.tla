------------------------------ MODULE MemAlloc ------------------------------
(***************************************************************************)
(* memory/memalloc.c: the symmetric heap of a PE, an Mspace over the       *)
(* memory the PE registered with GASNet, and a program that allocates,     *)
(* resizes and frees.  In a debug build memory/debug_alloc.c keeps a hash  *)
(* table of the blocks.                                                    *)
(*                                                                         *)
(* The PEs make the same calls, and a call works on the heap of its PE     *)
(* alone: SymmHeap models how they meet around each of them.               *)
(***************************************************************************)
EXTENDS Mspace, SequencesExt, FiniteSetsExt

CONSTANTS
  Base,           \* where the heap starts
  Sizes,          \* the sizes the program passes
  Alignments,     \* the alignments it passes
  Resizes,        \* the sizes it resizes blocks to
  Scripts,        \* how it may begin: positive, to allocate so much; negative, to free
                  \* its so manieth block in order of addresses
  MaxCalls,       \* bound: calls of its choice after that
  HASH_INITIAL_NUM_BUCKETS, HASH_BKT_CAPACITY_THRESH,
  Hash(_)         \* what HASH_JEN makes of an address

GASNET_PAGESIZE == 4096

ASSUME MemAllocAssumption ==
  /\ Capacity \in Nat /\ Capacity > FirstChunk + TOP_FOOT_SIZE
  /\ TrimThreshold \in Nat
  /\ Base \in Nat /\ Base % GASNET_PAGESIZE = 0
  /\ Sizes \subseteq Nat /\ Resizes \subseteq Nat \ {0} /\ Alignments \subseteq Nat \ {0}
  /\ Scripts \subseteq Seq(Int) /\ MaxCalls \in Nat
  /\ HASH_INITIAL_NUM_BUCKETS \in Nat \ {0} /\ HASH_BKT_CAPACITY_THRESH \in Nat \ {0}

VARIABLES
  myspace,        \* the mspace
  atp,            \* the debug table: records of an address and a size
  blocks,         \* what the program holds: size, bytes still as stored, alignment
  resized,        \* the blocks it has resized
  script,         \* what is left of the script
  calls           \* how many calls there were after it

vars == <<myspace, atp, blocks, resized, script, calls>>

Table == INSTANCE UtHash WITH HASH_FCN <- Hash

\* The program fills what it is given.
New(n, alignment) == [size |-> n, kept |-> n, alignment |-> alignment]

Init ==
  /\ myspace = init_user_mstate
  /\ atp = Table!NoTable
  /\ blocks = <<>>
  /\ resized = {}
  /\ script \in Scripts
  /\ calls = 0

Called ==
  IF script # <<>>
  THEN script' = Tail(script) /\ calls' = calls
  ELSE script' = script /\ calls < MaxCalls /\ calls' = calls + 1

\* The sizes and blocks of the next call.
Chosen(sizes) == IF script = <<>> THEN sizes ELSE {Head(script)} \cap Nat
Freed ==
  CASE script = <<>> -> DOMAIN blocks
    [] script # <<>> /\ Head(script) >= 0 -> {}
    [] OTHER -> {a \in DOMAIN blocks : Cardinality({b \in DOMAIN blocks : b <= a}) = -Head(script)}

debug_alloc_add(t, a, n) == Table!HASH_ADD(t, [key |-> a, size |-> n])
debug_alloc_replace(t, a, n) == Table!HASH_REPLACE(t, [key |-> a, size |-> n])
debug_alloc_find(t, a) == Table!HASH_FIND(t, a)
\* Without an entry there is a fatal message.  A build with tracing ends with it;
\* this is one without, where the call goes on.
debug_alloc_del(t, a) ==
  IF debug_alloc_find(t, a) = NULL THEN t ELSE Table!HASH_DELETE(t, debug_alloc_find(t, a))

\* The program holds what it is granted.  A failure, too, goes into the table.
Granted(got, n, alignment) ==
  /\ myspace' = got.heap
  /\ atp' = debug_alloc_add(atp, got.mem, n)
  /\ blocks' = IF got.mem = NULL THEN blocks ELSE With(blocks, got.mem, New(n, alignment))
  /\ UNCHANGED resized

shmemi_mem_alloc(n) ==
  /\ Called
  /\ \E got \in {mspace_malloc(myspace, n)} : Granted(got, n, MALLOC_ALIGNMENT)

shmemi_mem_align(alignment, n) ==
  /\ Called
  /\ \E got \in {mspace_memalign(myspace, Base, alignment, n)} : Granted(got, n, alignment)

\* A block that cannot be resized stays as it is.  Its table entry gets the new
\* size in any case, and keeps the old address.
shmemi_mem_realloc(a, n) ==
  \E got \in {mspace_realloc(myspace, a, n)} :
    LET new == IF got.mem = NULL THEN a ELSE got.mem
    IN  /\ Called
        /\ myspace' = got.heap
        /\ atp' = debug_alloc_replace(atp, a, n)
        /\ blocks' = IF got.mem = NULL THEN blocks
                     ELSE With(Without(blocks, a), new,
                               [New(n, MALLOC_ALIGNMENT) EXCEPT !.kept = Min({n, blocks[a].kept, got.copied})])
        /\ resized' = (resized \ {a}) \cup {new}

shmemi_mem_free(a) ==
  /\ Called
  /\ myspace' = mspace_free(myspace, a)
  /\ atp' = debug_alloc_del(atp, a)
  /\ blocks' = Without(blocks, a)
  /\ resized' = resized \ {a}

Next ==
  \/ \E n \in Chosen(Sizes) : shmemi_mem_alloc(n)
  \/ \E a \in Freed : shmemi_mem_free(a)
  \/ /\ script = <<>>
     /\ \/ \E alignment \in Alignments, n \in Sizes : shmemi_mem_align(alignment, n)
        \/ \E a \in DOMAIN blocks, n \in Resizes : shmemi_mem_realloc(a, n)

Spec == Init /\ [][Next]_vars

-----------------------------------------------------------------------------
\* The heap keeps the promises of Allocator: blocks never overlap each other or the
\* word ahead of a block that holds its size, stay in the segment, are aligned as
\* asked, and keep their contents while others come, grow, move and go.
Allocator == INSTANCE Allocator
  WITH First <- chunk2mem(FirstChunk), End <- TopEnd + SIZE_T_SIZE, Grain <- MALLOC_ALIGNMENT, Gap <- SIZE_T_SIZE
ImplementsAllocator == Allocator!Spec

\* What dlmalloc asserts of its bins, trees, tags and top after every call when it
\* is compiled with DEBUG.
ConsistentState == do_check_malloc_state(myspace)

FreeChunks(h) == {q \in Chunks(h) : ~h.chunk[q].cinuse}
Fitting(h, n) == {q \in FreeChunks(h) : chunksize(h, q) >= request2size(n)}

\* No memory leaks inside the allocator: every chunk is the state's own, a block
\* the program holds, or free, and no header remains of what was merged.
NothingLost ==
  /\ DOMAIN myspace.chunk = Chunks(myspace) \cup {myspace.top, TopEnd}
  /\ {chunk2mem(q) : q \in Chunks(myspace) \ (FreeChunks(myspace) \cup {0})} = DOMAIN blocks

\* dlmalloc.c:4189 and the comment at 2160: a request fails only if no free chunk
\* and not top is large enough, and a large one gets a smallest chunk that fits.
Smallest(h, chunks) == {q \in chunks : \A r \in chunks : chunksize(h, q) <= chunksize(h, r)}

BestFitOrFull ==
  \A n \in Sizes : \A got \in {mspace_malloc(myspace, n).mem} :
    LET fitting == Fitting(myspace, n)
    IN  /\ got = NULL => fitting = {} /\ myspace.topsize <= request2size(n)
        /\ n > MAX_SMALL_REQUEST /\ fitting # {} => mem2chunk(got) \in Smallest(myspace, fitting)

\* The debug table stays a table, however its buckets were split, with several
\* entries of one address in it: what is in it is found, and every block that was
\* not resized is in it.
TableFindsBlocks ==
  /\ Table!HASH_FSCK(atp)
  /\ \A e \in DOMAIN atp.elem : debug_alloc_find(atp, atp.elem[e].key) # NULL
  /\ \A a \in DOMAIN blocks \ resized : debug_alloc_find(atp, a) # NULL
=============================================================================
