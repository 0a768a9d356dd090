------------------------------- MODULE UtHash -------------------------------
(***************************************************************************)
(* A hash table of uthash/uthash.h.  The elements are records with a key,  *)
(* each somewhere in memory: an element is named by its place, elem says   *)
(* what is there.  A table keeps the order they were added in, which       *)
(* iterations follow, and chains of the elements of each bucket.           *)
(***************************************************************************)
EXTENDS Integers, Sequences, FiniteSets

CONSTANTS
  HASH_INITIAL_NUM_BUCKETS,
  HASH_BKT_CAPACITY_THRESH,
  HASH_FCN(_)     \* the hash of a key

LOCAL INSTANCE SequencesExt
LOCAL INSTANCE FiniteSetsExt

NULL == 0

Bucket(chain, mult) == [chain |-> chain, expand_mult |-> mult]

\* head is NULL: there is no table.
NoTable == [elem |-> <<>>, order |-> <<>>, buckets |-> <<>>, ineff_expands |-> 0, noexpand |-> FALSE]
HASH_MAKE_TABLE ==
  [NoTable EXCEPT !.buckets = [b \in 0 .. HASH_INITIAL_NUM_BUCKETS - 1 |-> Bucket(<<>>, 0)]]

num_items(t) == Len(t.order)
num_buckets(t) == Cardinality(DOMAIN t.buckets)
HASH_TO_BKT(hashv, num_bkts) == hashv % num_bkts
BucketOf(t, key) == HASH_TO_BKT(HASH_FCN(key), num_buckets(t))

HASH_FIND_IN_BKT(t, bkt, key) ==
  LET chain == t.buckets[bkt].chain
      found == {i \in DOMAIN chain : t.elem[chain[i]].key = key}
  IN  IF found = {} THEN NULL ELSE chain[Min(found)]

HASH_FIND(t, key) == IF t.order = <<>> THEN NULL ELSE HASH_FIND_IN_BKT(t, BucketOf(t, key), key)

Bug_ExpandInPlace(t) == [t EXCEPT !.buckets =
  [b \in 0 .. 2 * num_buckets(t) - 1 |-> IF b < num_buckets(t) THEN t.buckets[b] ELSE Bucket(<<>>, 0)]]

\* Twice as many buckets; each element goes to the front of its new chain.  When
\* that left most of them in long chains twice in a row, there is no next time.
HASH_EXPAND_BUCKETS(t) ==
  LET n == 2 * num_buckets(t)
      ideal_chain_maxlen == num_items(t) \div n + (IF num_items(t) % n = 0 THEN 0 ELSE 1)
      all == FlattenSeq([b \in 1 .. num_buckets(t) |-> t.buckets[b - 1].chain])
      Chain(b) == Reverse(SelectSeq(all, LAMBDA e : HASH_TO_BKT(HASH_FCN(t.elem[e].key), n) = b))
      Excess(b) == Max({0, Len(Chain(b)) - ideal_chain_maxlen})
      nonideal_items == MapThenSumSet(Excess, 0 .. n - 1)
      ineff == IF nonideal_items > num_items(t) \div 2 THEN t.ineff_expands + 1 ELSE 0
      Mult(b) == IF Excess(b) > 0 THEN Len(Chain(b)) \div ideal_chain_maxlen ELSE 0
  IN  [t EXCEPT !.buckets = [b \in 0 .. n - 1 |-> Bucket(Chain(b), Mult(b))],
                !.ineff_expands = ineff,
                !.noexpand = @ \/ ineff > 1]

HASH_ADD_TO_BKT(t, bkt, e) ==
  LET added == [t EXCEPT !.buckets[bkt].chain = <<e>> \o @]
      bucket == added.buckets[bkt]
  IN  IF Len(bucket.chain) >= (bucket.expand_mult + 1) * HASH_BKT_CAPACITY_THRESH /\ ~t.noexpand
      THEN HASH_EXPAND_BUCKETS(added)
      ELSE added

\* The record gets memory that no other element uses.  Nothing looks for the key
\* among the elements there are.
HASH_ADD(table, record) ==
  LET t == IF table.order = <<>> THEN HASH_MAKE_TABLE ELSE table
      e == CHOOSE n \in 1 .. num_items(t) + 1 : n \notin DOMAIN t.elem
  IN  HASH_ADD_TO_BKT([t EXCEPT !.elem = [n \in DOMAIN @ \cup {e} |-> IF n = e THEN record ELSE @[n]],
                                !.order = Append(@, e)],
                      BucketOf(t, record.key), e)

HASH_DEL_IN_BKT(t, bkt, e) == [t EXCEPT !.buckets[bkt].chain = Remove(@, e)]

\* With its last element the table goes.
HASH_DELETE(t, e) ==
  IF t.order = <<e>>
  THEN NoTable
  ELSE [HASH_DEL_IN_BKT(t, BucketOf(t, t.elem[e].key), e)
          EXCEPT !.elem = [n \in DOMAIN @ \ {e} |-> @[n]], !.order = Remove(@, e)]

HASH_REPLACE(t, record) ==
  LET replaced == HASH_FIND(t, record.key)
  IN  HASH_ADD(IF replaced = NULL THEN t ELSE HASH_DELETE(t, replaced), record)

-----------------------------------------------------------------------------
\* What the header asserts of a table when it is compiled with HASH_DEBUG: the
\* chains and the order hold the same elements, each once.
HASH_FSCK(t) ==
  LET chains == FlattenSeq([b \in 1 .. num_buckets(t) |-> t.buckets[b - 1].chain])
  IN  /\ Len(chains) = num_items(t)
      /\ ToSet(chains) = DOMAIN t.elem
      /\ ToSet(t.order) = DOMAIN t.elem
      /\ Cardinality(DOMAIN t.elem) = num_items(t)
=============================================================================
