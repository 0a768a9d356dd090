------------------------------- MODULE Mspace -------------------------------
(***************************************************************************)
(* The heap of one PE as dlmalloc/dlmalloc.c keeps it, compiled with       *)
(* ONLY_MSPACES, without MMAP and MORECORE and without footers, on a       *)
(* machine with 64-bit pointers: an mspace of one external segment.        *)
(*                                                                         *)
(* An mspace is a record, and every operation a function of it.  Addresses *)
(* are offsets from the start of the segment; a chunk is named by the      *)
(* address of its header.  chunk holds the headers there are: a word that  *)
(* is part of somebody's payload is not kept, and a header that is merged  *)
(* into another chunk is dropped.  The lock around each public call makes  *)
(* it one step.                                                            *)
(***************************************************************************)
EXTENDS Integers, Sequences, FiniteSets, TLC

CONSTANTS
  Capacity,        \* bytes of the segment
  TrimThreshold    \* top sizes above which free calls sys_trim

LOCAL INSTANCE SequencesExt
LOCAL INSTANCE FiniteSetsExt
LOCAL INSTANCE Functions

-----------------------------------------------------------------------------
(* Sizes and alignments. *)

SIZE_T_SIZE == 8
MALLOC_ALIGNMENT == 8
TWO_SIZE_T_SIZES == 2 * SIZE_T_SIZE
CHUNK_OVERHEAD == SIZE_T_SIZE
MIN_CHUNK_SIZE == 4 * SIZE_T_SIZE
NULL == 0

\* A size_t, narrowed to what TLC counts with.
SizeModulus == 2 ^ 30
MAX_SIZE_T == SizeModulus - 1
Minus(a, b) == (a - b) % SizeModulus

Aligned(n, alignment) == ((n + alignment - 1) \div alignment) * alignment
align_offset(a) == Aligned(a, MALLOC_ALIGNMENT) - a

chunk2mem(p) == p + TWO_SIZE_T_SIZES
mem2chunk(mem) == mem - TWO_SIZE_T_SIZES

MAX_REQUEST == SizeModulus - 4 * MIN_CHUNK_SIZE
MIN_REQUEST == MIN_CHUNK_SIZE - CHUNK_OVERHEAD - 1
pad_request(n) == Aligned(n + CHUNK_OVERHEAD, MALLOC_ALIGNMENT)
request2size(n) == IF n < MIN_REQUEST THEN MIN_CHUNK_SIZE ELSE pad_request(n)

SizeOfSegment == 4 * SIZE_T_SIZE      \* sizeof(struct malloc_segment)
SizeOfState == 944                    \* sizeof(struct malloc_state)
TOP_FOOT_SIZE == align_offset(chunk2mem(0)) + pad_request(SizeOfSegment) + MIN_CHUNK_SIZE

-----------------------------------------------------------------------------
(* Which bin a free chunk belongs to. *)

SMALLBIN_SHIFT == 3
TREEBIN_SHIFT == 8
NSMALLBINS == 32
NTREEBINS == 32
MIN_LARGE_SIZE == 2 ^ TREEBIN_SHIFT
MAX_SMALL_REQUEST == MIN_LARGE_SIZE - 1 - (MALLOC_ALIGNMENT - 1) - CHUNK_OVERHEAD

is_small(s) == s \div 2 ^ SMALLBIN_SHIFT < NSMALLBINS
small_index(s) == s \div 2 ^ SMALLBIN_SHIFT
small_index2size(i) == i * 2 ^ SMALLBIN_SHIFT

Bit(s, k) == (s \div 2 ^ k) % 2

\* Two trees for each power of two: the highest bit of s and the one after it.
compute_tree_index(s) ==
  CASE s < MIN_LARGE_SIZE -> 0
    [] s >= 2 ^ (TREEBIN_SHIFT + 16) -> NTREEBINS - 1
    [] OTHER -> CHOOSE i \in 0 .. NTREEBINS - 1 :
                  s \div 2 ^ (i \div 2 + TREEBIN_SHIFT - 1) = 2 + (i % 2)

\* The child of a node at this depth of tree i where size s belongs: the tree is
\* a trie on the bits of the size that its index leaves open.
Branch(i, s, depth) == Bit(s, i \div 2 + TREEBIN_SHIFT - 2 - depth)

minsize_for_tree_index(i) ==
  2 ^ (i \div 2 + TREEBIN_SHIFT) + (i % 2) * 2 ^ (i \div 2 + TREEBIN_SHIFT - 1)

-----------------------------------------------------------------------------
(* Headers.  prev_foot is the word below a header: the size of the chunk   *)
(* before it if that is free, and payload otherwise.                       *)

NoChunk == [prev_foot |-> 0, size |-> 0, pinuse |-> FALSE, cinuse |-> FALSE]

With(f, a, v) == (a :> v) @@ f
Without(f, a) == Restrict(f, DOMAIN f \ {a})
HeaderIn(chunks, p) == IF p \in DOMAIN chunks THEN chunks[p] ELSE NoChunk

chunksize(h, p) == h.chunk[p].size
next_chunk(h, p) == p + chunksize(h, p)
SetHeader(h, p, c) == [h EXCEPT !.chunk = With(@, p, c)]
Forget(h, p) == [h EXCEPT !.chunk = Without(@, p)]

SetPinuse(h, p) ==
  [h EXCEPT !.chunk = With(@, p, [HeaderIn(@, p) EXCEPT !.pinuse = TRUE, !.prev_foot = 0])]
clear_pinuse(h, p) == [h EXCEPT !.chunk[p].pinuse = FALSE]
set_foot(h, p, s) ==
  [h EXCEPT !.chunk = With(@, p + s, [HeaderIn(@, p + s) EXCEPT !.prev_foot = s])]

FreeChunk(s) == [prev_foot |-> 0, size |-> s, pinuse |-> TRUE, cinuse |-> FALSE]

set_size_and_pinuse_of_inuse_chunk(h, p, s) ==
  SetHeader(h, p, [prev_foot |-> 0, size |-> s, pinuse |-> TRUE, cinuse |-> TRUE])
set_inuse(h, p, s) ==
  SetPinuse([h EXCEPT !.chunk = With(@, p, [HeaderIn(@, p) EXCEPT !.size = s, !.cinuse = TRUE])], p + s)
set_inuse_and_pinuse(h, p, s) ==
  SetPinuse(set_size_and_pinuse_of_inuse_chunk(h, p, s), p + s)
set_size_and_pinuse_of_free_chunk(h, p, s) == set_foot(SetHeader(h, p, FreeChunk(s)), p, s)
set_free_with_pinuse(h, p, s, n) ==
  set_size_and_pinuse_of_free_chunk(clear_pinuse(h, n), p, s)


-----------------------------------------------------------------------------
(* Small bins: circular lists, the front first.  A bin that is not marked  *)
(* in smallmap keeps stale links nobody follows.                           *)

SmallBin(h, i) == IF i \in h.smallmap THEN h.smallbins[i] ELSE <<>>

insert_small_chunk(h, p, s) ==
  [h EXCEPT !.smallbins[small_index(s)] = <<p>> \o SmallBin(h, small_index(s)),
            !.smallmap = @ \cup {small_index(s)}]

Bug_BinStaysMarked(h, p, s) == [h EXCEPT !.smallbins[small_index(s)] = Remove(@, p)]

unlink_small_chunk(h, p, s) ==
  [h EXCEPT !.smallbins[small_index(s)] = Remove(@, p),
            !.smallmap = IF h.smallbins[small_index(s)] = <<p>> THEN @ \ {small_index(s)} ELSE @]

unlink_first_small_chunk(h, p, i) == unlink_small_chunk(h, p, small_index2size(i))

replace_dv(h, p, s) ==
  [(IF h.dvsize # 0 THEN insert_small_chunk(h, h.dv, h.dvsize) ELSE h) EXCEPT !.dvsize = s, !.dv = p]

-----------------------------------------------------------------------------
(* Tree bins: tries of the large free chunks, one node for each size, with *)
(* the other chunks of its size in a ring.  Those have no parent.          *)

BIN == 1           \* the parent of a root: the bin, which is no address

NewNode(i, p) == [fd |-> p, bk |-> p, child |-> <<NULL, NULL>>, parent |-> BIN, index |-> i]
Child(h, t, b) == h.node[t].child[b + 1]
leftmost_child(h, t) == IF Child(h, t, 0) # NULL THEN Child(h, t, 0) ELSE Child(h, t, 1)

\* The node of size s, or the last one on the way to where it belongs.
RECURSIVE Walk(_, _, _, _)
Walk(h, t, s, depth) ==
  LET next == Child(h, t, Branch(h.node[t].index, s, depth))
  IN  IF chunksize(h, t) = s \/ next = NULL THEN <<t, depth>> ELSE Walk(h, next, s, depth + 1)

insert_large_chunk(h, x, s) ==
  LET i == compute_tree_index(s)
      new == With(h.node, x, NewNode(i, x))
      end == Walk(h, h.treebins[i], s, 0)
      t == end[1]
      f == h.node[t].fd
  IN  IF i \notin h.treemap
      THEN [h EXCEPT !.node = new, !.treebins[i] = x, !.treemap = @ \cup {i}]
      ELSE IF chunksize(h, t) # s
      THEN [h EXCEPT !.node = [new EXCEPT ![t].child[Branch(i, s, end[2]) + 1] = x, ![x].parent = t]]
      ELSE [h EXCEPT !.node = [new EXCEPT ![t].fd = x, ![f].bk = x,
                                          ![x].fd = f, ![x].bk = t, ![x].parent = NULL]]

\* A leaf below x, turning right wherever there is a right child.
RECURSIVE Leaf(_, _)
Leaf(h, x) ==
  LET r == IF Child(h, x, 1) # NULL THEN Child(h, x, 1) ELSE Child(h, x, 0)
  IN  IF r = NULL THEN x ELSE Leaf(h, r)

ReplaceChild(child, x, r) == [c \in {1, 2} |-> IF child[c] = x THEN r ELSE child[c]]

\* What takes the place of x: the chunk before it in its ring, else a leaf below
\* it, which its own parent loses, else nothing.
Replacement(h, x) ==
  CASE h.node[x].bk # x -> h.node[x].bk
    [] h.node[x].bk = x /\ Leaf(h, x) # x -> Leaf(h, x)
    [] OTHER -> NULL

\* The nodes once r has left its own place, for that of x.
Taken(h, x, r) ==
  CASE r = NULL -> h.node
    [] r # NULL /\ r = h.node[x].bk -> [h.node EXCEPT ![h.node[x].fd].bk = r, ![r].fd = h.node[x].fd]
    [] OTHER -> [h.node EXCEPT ![h.node[r].parent].child = ReplaceChild(@, r, NULL)]

\* The nodes once r, if any, has the parent and the children of x.
Inherit(node, x, r) ==
  [n \in DOMAIN node |->
     CASE n = r -> [node[n] EXCEPT !.parent = node[x].parent,
                      !.child = [c \in {1, 2} |-> IF node[x].child[c] # NULL THEN node[x].child[c] ELSE @[c]]]
       [] n = node[x].parent -> [node[n] EXCEPT !.child = ReplaceChild(@, x, r)]
       [] r # NULL /\ n \in Range(node[x].child) -> [node[n] EXCEPT !.parent = r]
       [] OTHER -> node[n]]

unlink_large_chunk(h, x) ==
  LET r == Replacement(h, x)
      i == h.node[x].index
      others == Without(Inherit(Taken(h, x, r), x, r), x)
  IN  CASE h.node[x].parent = NULL -> [h EXCEPT !.node = Without(Taken(h, x, r), x)]
        [] h.node[x].parent = BIN ->
             [h EXCEPT !.node = others, !.treebins[i] = r, !.treemap = IF r = NULL THEN @ \ {i} ELSE @]
        [] OTHER -> [h EXCEPT !.node = others]

insert_chunk(h, p, s) ==
  IF is_small(s) THEN insert_small_chunk(h, p, s) ELSE insert_large_chunk(h, p, s)
unlink_chunk(h, p, s) ==
  IF is_small(s) THEN unlink_small_chunk(h, p, s) ELSE unlink_large_chunk(h, p)

-----------------------------------------------------------------------------
(* create_mspace_with_base.  The state of the mspace is its first chunk    *)
(* and always in use; the rest is top, up to the space kept for a foot.    *)

FirstChunk == pad_request(SizeOfState)
TopEnd == Capacity - TOP_FOOT_SIZE

init_top(h, p, psize) ==
  LET offset == align_offset(chunk2mem(p))
      q == p + offset
      s == psize - offset
      h1 == SetHeader(h, q, FreeChunk(s))
      h2 == SetHeader(h1, q + s, [NoChunk EXCEPT !.size = TOP_FOOT_SIZE])
  IN  [h2 EXCEPT !.top = q, !.topsize = s, !.trim_check = TrimThreshold]

init_user_mstate ==
  LET zero == [chunk |-> <<>>, smallbins |-> [i \in 0 .. NSMALLBINS - 1 |-> <<>>], smallmap |-> {},
               node |-> <<>>, treebins |-> [i \in 0 .. NTREEBINS - 1 |-> NULL], treemap |-> {},
               dv |-> NULL, dvsize |-> 0, top |-> NULL, topsize |-> 0, trim_check |-> 0]
      state == SetHeader(zero, 0, [NoChunk EXCEPT !.size = FirstChunk, !.pinuse = TRUE, !.cinuse = TRUE])
  IN  init_top(state, FirstChunk, TopEnd - FirstChunk)

\* NULL for a segment that is too small.
create_mspace_with_base ==
  IF Capacity > FirstChunk + TOP_FOOT_SIZE THEN <<init_user_mstate>> ELSE <<>>

-----------------------------------------------------------------------------
(* mspace_malloc: the heap afterwards and the payload's address, or NULL.  *)

Result(h, p) == [heap |-> h, mem |-> chunk2mem(p)]
Failure(h) == [heap |-> h, mem |-> NULL]

\* sys_alloc has neither mmap nor morecore to ask.
sys_alloc(h, nb) == Failure(h)

\* Take nb bytes of the chunk at p, size s; a remainder that can be a chunk goes
\* into its bin, or becomes dv.
Remains(s, nb) == s - nb >= MIN_CHUNK_SIZE
Split(h, p, s, nb) ==
  IF Remains(s, nb)
  THEN set_size_and_pinuse_of_free_chunk(set_size_and_pinuse_of_inuse_chunk(h, p, nb), p + nb, s - nb)
  ELSE set_inuse_and_pinuse(h, p, s)
SplitToBin(h, p, s, nb) ==
  IF Remains(s, nb) THEN insert_chunk(Split(h, p, s, nb), p + nb, s - nb) ELSE Split(h, p, s, nb)
SplitToDv(h, p, s, nb) ==
  IF Remains(s, nb) THEN replace_dv(Split(h, p, s, nb), p + nb, s - nb) ELSE Split(h, p, s, nb)

\* The smallest chunk on the leftmost path below t, if it is a better fit than v.
RECURSIVE Leftmost(_, _, _, _)
Leftmost(h, t, v, nb) ==
  IF t = NULL THEN v
  ELSE LET better == /\ chunksize(h, t) >= nb
                     /\ v = NULL \/ chunksize(h, t) < chunksize(h, v)
       IN  Leftmost(h, leftmost_child(h, t), IF better THEN t ELSE v, nb)

Bug_Passed(rt, next, rst) == rst
Passed(rt, next, rst) == IF rt # NULL /\ rt # next THEN rt ELSE rst

\* Down the tree of nb's own bin: the best fit v on the path of nb, and the
\* deepest right subtree rst passed by, whose sizes are all larger.
RECURSIVE SearchBin(_, _, _, _, _, _)
SearchBin(h, t, v, rst, nb, depth) ==
  LET s == chunksize(h, t)
      v1 == IF s >= nb /\ (v = NULL \/ s < chunksize(h, v)) THEN t ELSE v
      rt == Child(h, t, 1)
      next == Child(h, t, Branch(h.node[t].index, nb, depth))
      rst1 == Passed(rt, next, rst)
  IN  CASE v1 # NULL /\ chunksize(h, v1) = nb -> [v |-> v1, t |-> NULL]
        [] ~(v1 # NULL /\ chunksize(h, v1) = nb) /\ next = NULL -> [v |-> v1, t |-> rst1]
        [] OTHER -> SearchBin(h, next, v1, rst1, nb, depth + 1)

Left(map, i) == {j \in map : j > i}

\* The best fit in the trees for a large request.
BestFit(h, nb) ==
  LET i == compute_tree_index(nb)
      own == IF h.treebins[i] = NULL THEN [v |-> NULL, t |-> NULL]
             ELSE SearchBin(h, h.treebins[i], NULL, NULL, nb, 0)
      left == Left(h.treemap, i)
      t == IF own.t = NULL /\ own.v = NULL /\ left # {} THEN h.treebins[Min(left)] ELSE own.t
  IN  Leftmost(h, t, own.v, nb)

\* Nothing if no chunk of a tree fits, or dv fits better.
tmalloc_large(h, nb) ==
  LET v == BestFit(h, nb)
      s == chunksize(h, v)
  IN  IF v # NULL /\ s - nb < Minus(h.dvsize, nb)
      THEN Result(SplitToBin(unlink_large_chunk(h, v), v, s, nb), v)
      ELSE Failure(h)

tmalloc_small(h, nb) ==
  LET t == h.treebins[Min(h.treemap)]
      v == Leftmost(h, leftmost_child(h, t), t, nb)
  IN  Result(SplitToDv(unlink_large_chunk(h, v), v, chunksize(h, v), nb), v)

\* The designated victim, then top.
DvOrTop(h, nb) ==
  CASE nb <= h.dvsize /\ h.dvsize - nb >= MIN_CHUNK_SIZE ->
         LET r == h.dv + nb
             s == h.dvsize - nb
             h1 == set_size_and_pinuse_of_free_chunk(h, r, s)
         IN  Result(set_size_and_pinuse_of_inuse_chunk([h1 EXCEPT !.dv = r, !.dvsize = s], h.dv, nb), h.dv)
    [] nb <= h.dvsize /\ h.dvsize - nb < MIN_CHUNK_SIZE ->
         Result(set_inuse_and_pinuse([h EXCEPT !.dv = NULL, !.dvsize = 0], h.dv, h.dvsize), h.dv)
    [] nb > h.dvsize /\ nb < h.topsize ->
         LET r == h.top + nb
             s == h.topsize - nb
             h1 == SetHeader([h EXCEPT !.top = r, !.topsize = s], r,
                             FreeChunk(s))
         IN  Result(set_size_and_pinuse_of_inuse_chunk(h1, h.top, nb), h.top)
    [] OTHER -> sys_alloc(h, nb)

mspace_malloc(h, bytes) ==
  LET small == bytes <= MAX_SMALL_REQUEST
      nb == CASE small -> request2size(bytes)
              [] bytes >= MAX_REQUEST -> MAX_SIZE_T
              [] OTHER -> pad_request(bytes)
      idx == small_index(nb)
      exact == h.smallmap \cap {idx, idx + 1}
      next == Left(h.smallmap, idx)
      First(i) == h.smallbins[i][1]
      large == tmalloc_large(h, nb)
  IN  CASE small /\ exact # {} ->
             LET i == Min(exact)
             IN  Result(set_inuse_and_pinuse(unlink_first_small_chunk(h, First(i), i),
                                             First(i), small_index2size(i)), First(i))
        [] small /\ exact = {} /\ nb > h.dvsize /\ next # {} ->
             LET i == Min(next)
             IN  Result(SplitToDv(unlink_first_small_chunk(h, First(i), i),
                                  First(i), small_index2size(i), nb), First(i))
        [] small /\ exact = {} /\ nb > h.dvsize /\ next = {} /\ h.treemap # {} -> tmalloc_small(h, nb)
        [] ~small /\ bytes < MAX_REQUEST /\ h.treemap # {} /\ large.mem # NULL -> large
        [] OTHER -> DvOrTop(h, nb)

-----------------------------------------------------------------------------
(* mspace_free. *)

\* The segment is external: nothing is released, and trimming is given up.
sys_trim(h) == IF h.topsize > h.trim_check THEN [h EXCEPT !.trim_check = MAX_SIZE_T] ELSE h
should_trim(h, s) == s > h.trim_check

\* The free chunk before c joins it; its own place in a bin is given up.
ConsolidateBackward(h, c, p) ==
  IF p = c THEN h
  ELSE Forget(IF p # h.dv THEN unlink_chunk(h, p, c - p) ELSE h, c)

\* p, of psize bytes and free, joins top.
IntoTop(h, p, psize) ==
  LET s == h.topsize + psize
      h1 == [SetHeader(Forget(h, h.top), p, FreeChunk(s)) EXCEPT !.top = p, !.topsize = s]
      h2 == IF p = h.dv THEN [h1 EXCEPT !.dv = NULL, !.dvsize = 0] ELSE h1
  IN  IF should_trim(h2, s) THEN sys_trim(h2) ELSE h2

\* p, of psize bytes and free, joins the free chunk after it, or is on its own.
IntoNext(h, p, next, psize) ==
  LET s == psize + chunksize(h, next)
      Joined(g) == set_size_and_pinuse_of_free_chunk(Forget(g, next), p, s)
  IN  CASE h.chunk[next].cinuse /\ p = h.dv ->
             [set_free_with_pinuse(h, p, psize, next) EXCEPT !.dvsize = psize]
        [] h.chunk[next].cinuse /\ p # h.dv ->
             insert_chunk(set_free_with_pinuse(h, p, psize, next), p, psize)
        [] next = h.dv -> [Joined(h) EXCEPT !.dv = p, !.dvsize = s]
        [] OTHER -> LET g == Joined(unlink_chunk(h, next, s - psize))
                    IN  IF p = g.dv THEN [g EXCEPT !.dvsize = s] ELSE insert_chunk(g, p, s)

\* Where the free chunk starts that p is, or becomes part of.
FrontOf(h, p) == IF h.chunk[p].pinuse THEN p ELSE p - h.chunk[p].prev_foot

mspace_free(h, mem) ==
  LET c == mem2chunk(mem)
      p == FrontOf(h, c)
      next == next_chunk(h, c)
      g == ConsolidateBackward(h, c, p)
  IN  IF next = g.top THEN IntoTop(g, p, next - p) ELSE IntoNext(g, p, next, next - p)

-----------------------------------------------------------------------------
(* mspace_realloc: in place if the chunk is large enough, with what is too *)
(* much freed, or if only top follows; else in a new chunk with a copy of  *)
(* the payload, or not at all.  copied is how much of it stays.            *)

Bug_PayloadOf(h, p) == chunksize(h, p) - TWO_SIZE_T_SIZES
PayloadOf(h, p) == chunksize(h, p) - CHUNK_OVERHEAD

mspace_realloc(h, mem, bytes) ==
  LET p == mem2chunk(mem)
      oldsize == chunksize(h, p)
      nb == request2size(bytes)
      rest == oldsize - nb
      usable == PayloadOf(h, p)
      InPlace(f) == [heap |-> f, mem |-> mem, copied |-> usable]
  IN  CASE bytes >= MAX_REQUEST -> [heap |-> h, mem |-> NULL, copied |-> 0]
        [] bytes < MAX_REQUEST /\ oldsize >= nb /\ rest < MIN_CHUNK_SIZE -> InPlace(h)
        [] bytes < MAX_REQUEST /\ oldsize >= nb /\ rest >= MIN_CHUNK_SIZE ->
             InPlace(mspace_free(set_inuse_and_pinuse(set_inuse(h, p, nb), p + nb, rest),
                                 chunk2mem(p + nb)))
        [] bytes < MAX_REQUEST /\ oldsize < nb /\ next_chunk(h, p) = h.top /\ oldsize + h.topsize > nb ->
             LET s == oldsize + h.topsize - nb
                 h1 == SetHeader(set_inuse(Forget(h, h.top), p, nb), p + nb,
                                 FreeChunk(s))
             IN  InPlace([h1 EXCEPT !.top = p + nb, !.topsize = s])
        [] OTHER ->
             LET new == mspace_malloc(h, bytes)
             IN  IF new.mem = NULL
                 THEN [heap |-> new.heap, mem |-> NULL, copied |-> 0]
                 ELSE [heap |-> mspace_free(new.heap, mem), mem |-> new.mem,
                       copied |-> Min({usable, bytes})]

-----------------------------------------------------------------------------
(* mspace_memalign of a segment that starts at base: a chunk with room to  *)
(* move, whose ends are given back.                                        *)

EffectiveAlignment(alignment) ==
  LET a == Max({alignment, MIN_CHUNK_SIZE})
  IN  Min({2 ^ k : k \in {j \in 4 .. 29 : 2 ^ j >= a}})

\* The first place in the chunk at c that is aligned and, if it is not c itself,
\* leaves a chunk before it.
AlignedChunk(c, base, a) ==
  LET br == mem2chunk(Aligned(base + chunk2mem(c), a) - base)
  IN  CASE br = c -> c
        [] br # c /\ br - c >= MIN_CHUNK_SIZE -> br
        [] OTHER -> br + a

Bug_EndNotFreed(h, c, p, nb) ==
  LET end == next_chunk(h, c)
      h1 == IF p # c THEN set_inuse(set_inuse(h, p, end - p), c, p - c) ELSE h
      h2 == IF end - p > nb + MIN_CHUNK_SIZE THEN set_inuse(set_inuse(h1, p, nb), p + nb, end - p - nb) ELSE h1
  IN  Result(IF p # c THEN mspace_free(h2, chunk2mem(c)) ELSE h2, p)

\* Keep nb bytes at p of the chunk at c, and free what is before and after.
Carve(h, c, p, nb) ==
  LET end == next_chunk(h, c)
      spare == end - p > nb + MIN_CHUNK_SIZE
      h1 == IF p # c THEN set_inuse(set_inuse(h, p, end - p), c, p - c) ELSE h
      h2 == IF spare THEN set_inuse(set_inuse(h1, p, nb), p + nb, end - p - nb) ELSE h1
      h3 == IF p # c THEN mspace_free(h2, chunk2mem(c)) ELSE h2
  IN  Result(IF spare THEN mspace_free(h3, chunk2mem(p + nb)) ELSE h3, p)

mspace_memalign(h, base, alignment, bytes) ==
  LET a == EffectiveAlignment(alignment)
      nb == request2size(bytes)
      got == mspace_malloc(h, nb + a + MIN_CHUNK_SIZE - CHUNK_OVERHEAD)
      c == mem2chunk(got.mem)
  IN  CASE alignment <= MALLOC_ALIGNMENT -> mspace_malloc(h, bytes)
        [] alignment > MALLOC_ALIGNMENT /\ bytes >= MAX_REQUEST - a -> Failure(h)
        [] OTHER -> IF got.mem = NULL THEN got ELSE Carve(got.heap, c, AlignedChunk(c, base, a), nb)

-----------------------------------------------------------------------------
(* What the library asserts of an mspace when it is compiled with DEBUG.   *)

\* The chunks from q up to top, by their sizes.
RECURSIVE ChunksFrom(_, _)
ChunksFrom(h, q) == IF q >= h.top THEN {} ELSE {q} \cup ChunksFrom(h, next_chunk(h, q))
Chunks(h) == ChunksFrom(h, 0)

is_inuse(h, p) == h.chunk[p].cinuse \/ ~h.chunk[p].pinuse

\* The ring of the chunks of one size in a tree, from u round to t.
RECURSIVE RingFrom(_, _, _)
RingFrom(h, t, u) == {u} \cup (IF h.node[u].fd = t THEN {} ELSE RingFrom(h, t, h.node[u].fd))

RECURSIVE Tree(_, _)
Tree(h, t) == IF t = NULL THEN {} ELSE {t} \cup Tree(h, Child(h, t, 0)) \cup Tree(h, Child(h, t, 1))

bin_find(h, x) ==
  LET s == chunksize(h, x)
      i == compute_tree_index(s)
      t == Walk(h, h.treebins[i], s, 0)[1]
  IN  IF is_small(s)
      THEN /\ small_index(s) \in h.smallmap
           /\ x \in Range(h.smallbins[small_index(s)])
      ELSE /\ i \in h.treemap
           /\ chunksize(h, t) = s
           /\ x \in RingFrom(h, t, t)

do_check_inuse_chunk(h, p) ==
  /\ is_inuse(h, p)
  /\ h.chunk[next_chunk(h, p)].pinuse
  /\ ~h.chunk[p].pinuse => next_chunk(h, p - h.chunk[p].prev_foot) = p

do_check_free_chunk(h, p) ==
  LET next == next_chunk(h, p)
  IN  /\ ~is_inuse(h, p)
      /\ ~h.chunk[next].pinuse
      /\ p # h.dv => /\ h.chunk[next].prev_foot = chunksize(h, p)
                     /\ next = h.top \/ is_inuse(h, next)

do_check_top_chunk(h) ==
  /\ h.topsize > 0
  /\ h.chunk[h.top] = FreeChunk(h.topsize)
  /\ h.topsize = TopEnd - h.top
  /\ ~h.chunk[TopEnd].pinuse

\* A node, the chunks of its size, and its children.
CheckNode(h, t) ==
  LET s == chunksize(h, t)
      n == h.node[t]
      c0 == Child(h, t, 0)
      c1 == Child(h, t, 1)
  IN  /\ n.index = compute_tree_index(s)
      /\ s >= minsize_for_tree_index(n.index) /\ s < minsize_for_tree_index(n.index + 1)
      /\ \A u \in RingFrom(h, t, t) :
           /\ h.node[h.node[u].fd].bk = u /\ h.node[h.node[u].bk].fd = u
           /\ chunksize(h, u) = s /\ h.node[u].index = n.index /\ ~is_inuse(h, u)
           /\ u # t => h.node[u].parent = NULL /\ h.node[u].child = <<NULL, NULL>>
      /\ IF n.parent = BIN THEN h.treebins[n.index] = t ELSE t \in Range(h.node[n.parent].child)
      /\ \A c \in {c0, c1} \ {NULL} : h.node[c].parent = t
      /\ c0 # NULL /\ c1 # NULL => chunksize(h, c0) < chunksize(h, c1)

do_check_tree(h, t) == \A u \in Tree(h, t) : CheckNode(h, u)
do_check_treebin(h, i) ==
  /\ h.treebins[i] = NULL => i \notin h.treemap
  /\ i \in h.treemap => do_check_tree(h, h.treebins[i])

do_check_smallbin(h, i) ==
  /\ i \in h.smallmap => SmallBin(h, i) # <<>>
  /\ \A p \in Range(SmallBin(h, i)) :
       do_check_free_chunk(h, p) /\ small_index(chunksize(h, p)) = i

\* Every chunk is in use or free and in its bin, and no two free chunks meet.
traverse_and_check(h) ==
  \A q \in Chunks(h) :
    IF is_inuse(h, q)
    THEN /\ ~bin_find(h, q)
         /\ do_check_inuse_chunk(h, q)
    ELSE /\ q = h.dv \/ bin_find(h, q)
         /\ h.chunk[q].pinuse
         /\ do_check_free_chunk(h, q)

do_check_malloc_state(h) ==
  /\ \A i \in 0 .. NSMALLBINS - 1 : do_check_smallbin(h, i)
  /\ \A i \in 0 .. NTREEBINS - 1 : do_check_treebin(h, i)
  /\ h.dvsize # 0 => /\ h.dvsize = chunksize(h, h.dv)
                     /\ h.dvsize >= MIN_CHUNK_SIZE
                     /\ ~bin_find(h, h.dv)
  /\ do_check_top_chunk(h)
  /\ traverse_and_check(h)
=============================================================================
