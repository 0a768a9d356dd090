----------------------------- MODULE MCMemAlloc -----------------------------
(* Fragmented heaps to begin with: large chunks of one tree, its nodes     *)
(* with children and grandchildren; rings of chunks of the same size; and  *)
(* small ones in bins.                                                     *)
EXTENDS MemAlloc

Trie  == <<248, 24, 280, 24, 312, 24, 344, 24, -5, -1, -2, -4>>
Rings == <<248, 24, 248, 24, 248, 24, 312, 24, -3, -1, -1>>
Small == <<24, 24, 40, 24, 24, 24, 64, 24, -3, -1, -2>>

MCScripts == {<<>>, Trie, Rings, Small}

\* Some addresses share a bucket for ever.
MCHash(a) == (a \div 8) % 5
=============================================================================
