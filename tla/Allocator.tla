----------------------------- MODULE Allocator -----------------------------
(***************************************************************************)
(* What a heap promises its user: blocks that are aligned as asked, apart  *)
(* from each other and inside the segment; a block keeps its place and     *)
(* contents until it is freed, and the contents that fit when it is        *)
(* resized.                                                                *)
(***************************************************************************)
EXTENDS Integers

CONSTANTS
  First, End,     \* the addresses blocks may occupy: First .. End - 1
  Base, Grain,    \* where the space is in memory, the alignment of every block
  Gap             \* what the allocator keeps for itself ahead of each block

VARIABLE
  blocks          \* by address: size, contents as the bytes still as stored, alignment

Block == [size : Nat, kept : Nat, alignment : Nat]

Init == blocks = <<>>

With(f, a, v) == [b \in DOMAIN f \cup {a} |-> IF b = a THEN v ELSE f[b]]
Without(f, a) == [b \in DOMAIN f \ {a} |-> f[b]]

\* Two blocks of these sizes at a and b leave room for what is kept ahead of the
\* second.  Even a block of no bytes has an address of its own.
Apart(a, m, b, n) == a + m + Gap <= b \/ b + n + Gap <= a

Fits(f, a, n) ==
  /\ a % Grain = 0
  /\ First <= a /\ a + n <= End
  /\ \A b \in DOMAIN f : Apart(a, n, b, f[b].size)

Least(m, n) == IF m <= n THEN m ELSE n

\* A new block of n bytes, which its user fills.
Allocate(a, n, alignment) ==
  /\ n \in Nat /\ alignment \in Nat \ {0}
  /\ (Base + a) % alignment = 0
  /\ Fits(blocks, a, n)
  /\ blocks' = With(blocks, a, [size |-> n, kept |-> n, alignment |-> alignment])

\* A block of n bytes at b takes over from the one at a.
Resize(a, b, n) ==
  /\ n \in Nat
  /\ a \in DOMAIN blocks
  /\ Fits(Without(blocks, a), b, n)
  /\ blocks' = With(Without(blocks, a), b,
                     [size |-> n, kept |-> Least(blocks[a].kept, n), alignment |-> Grain])

Free(a) ==
  /\ a \in DOMAIN blocks
  /\ blocks' = Without(blocks, a)

\* A request that is refused changes nothing.
Next ==
  \/ \E a \in DOMAIN blocks' : Allocate(a, blocks'[a].size, blocks'[a].alignment)
  \/ \E a \in DOMAIN blocks, b \in DOMAIN blocks' : Resize(a, b, blocks'[b].size)
  \/ \E a \in DOMAIN blocks : Free(a)

Spec == Init /\ [][Next]_blocks
=============================================================================
