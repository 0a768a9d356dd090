------------------------------ MODULE TwoTree -------------------------------
(***************************************************************************)
(* The binary tree of broadcast/broadcast-tree.c: set_2tree numbers the    *)
(* nodes from the first PE of the active set, build_tree swaps that PE and *)
(* the root.  A node is [parent, child_l, child_r], NoPE for none.         *)
(***************************************************************************)
EXTENDS Integers

NoPE == -1

Node(parent, child_l, child_r) == [parent |-> parent, child_l |-> child_l, child_r |-> child_r]

\* The parent's place is rounded down to a multiple of the stride.
ParentOf(PE_start, PE_stride, my_pe) ==
  IF my_pe = PE_start
  THEN NoPE
  ELSE LET half == (my_pe - PE_start - PE_stride) \div 2
       IN  PE_start + half - (half % PE_stride)

set_2tree(PE_start, PE_stride, PE_size, my_pe) ==
  LET max_pe == PE_start + PE_stride * (PE_size - 1)
      left == 2 * (my_pe - PE_start) + PE_stride + PE_start
      right == left + PE_stride
      OrNone(pe) == IF pe > max_pe THEN NoPE ELSE pe
  IN  Node(ParentOf(PE_start, PE_stride, my_pe), OrNone(left), OrNone(right))

\* The first PE of the set and the root take each other's place.
Exchanged(PE_start, step, PE_root, PE_size, mype) ==
  LET root == PE_start + step * PE_root
      IfOwn(pe) == IF pe = root THEN PE_start ELSE pe
  IN  IF mype = PE_start
      THEN [set_2tree(PE_start, step, PE_size, root) EXCEPT
              !.parent = IF @ = PE_start THEN root ELSE @]
      ELSE [set_2tree(PE_start, step, PE_size, PE_start) EXCEPT
              !.child_l = IfOwn(@), !.child_r = IfOwn(@)]

Bug_ParentsNotUpdated(PE_start, PE_root_abs, node) ==
  [node EXCEPT !.parent = IF @ = PE_start THEN PE_root_abs ELSE @]

\* The others see them in their new places.
Relinked(PE_start, PE_root_abs, node) ==
  [node EXCEPT !.parent = CASE @ = PE_start -> PE_root_abs
                            [] @ = PE_root_abs -> PE_start
                            [] OTHER -> @,
               !.child_l = IF @ = PE_root_abs THEN PE_start ELSE @,
               !.child_r = IF @ = PE_root_abs THEN PE_start ELSE @]

build_tree(PE_start, step, PE_root, PE_size, mype) ==
  LET root == PE_start + step * PE_root
      mine == set_2tree(PE_start, step, PE_size, mype)
  IN  CASE PE_root = 0 -> mine
        [] PE_root # 0 /\ mype \in {PE_start, root} ->
             Exchanged(PE_start, step, PE_root, PE_size, mype)
        [] OTHER -> Relinked(PE_start, root, mine)

=============================================================================
