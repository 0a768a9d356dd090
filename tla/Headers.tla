------------------------------- MODULE Headers -------------------------------
(***************************************************************************)
(* What the C headers let a program call: the routines that shmem.h and    *)
(* shmemx.h declare and, of a library built for profiling, pshmem.h and    *)
(* pshmemx.h under names with a p in front; and the generic variants that  *)
(* shmem.h and pshmem.h define for C11, which select a routine by the type *)
(* of an argument.                                                         *)
(*                                                                         *)
(* Within a family a routine is named by the C type in its name, by the    *)
(* bits of an element, or mem.                                             *)
(***************************************************************************)

Number == {"short", "int", "long", "longlong", "longdouble", "double", "float"}
Word == {"32", "64", "128"}
WholeNumber == {"int", "long", "longlong"}
Real == {"float", "double"}

\* Declared by shmem.h and shmemx.h.
shmem_put == Number \cup Word \cup {"char", "mem"}
shmem_get == Number \cup Word \cup {"char", "mem"}
shmem_p == Number \cup {"char"}
shmem_g == Number \cup {"char"}
shmem_iput == Number \cup Word \cup {"char"}
shmem_iget == Number \cup Word \cup {"char"}
shmem_put_nbi == Number \cup Word \cup {"char", "mem"}
shmem_get_nbi == Number \cup Word \cup {"char", "mem"}
shmemx_put_nb == Number \cup Word \cup {"complexd", "mem"}
shmemx_get_nb == Number \cup Word \cup {"complexd", "mem"}
shmem_wait_until == WholeNumber \cup {"short"}
shmem_wait == WholeNumber \cup {"short"}
shmem_swap == WholeNumber \cup Real
shmem_cswap == WholeNumber
shmem_fadd == WholeNumber
shmem_finc == WholeNumber
shmem_add == WholeNumber
shmem_inc == WholeNumber
shmem_fetch == WholeNumber \cup Real
shmem_set == WholeNumber \cup Real
shmemx_xor == WholeNumber

shmem_broadcast == {32, 64}
shmem_fcollect == {32, 64}
shmem_collect == {32, 64}
shmem_sum_to_all == Number \cup {"complexf", "complexd"}
shmem_prod_to_all == Number \cup {"complexf", "complexd"}
shmem_and_to_all == WholeNumber \cup {"short"}
shmem_or_to_all == WholeNumber \cup {"short"}
shmem_xor_to_all == WholeNumber \cup {"short"}
shmem_max_to_all == Number
shmem_min_to_all == Number

\* Declared by pshmem.h and pshmemx.h.
pshmem_put == Number \cup Word \cup {"mem"}
pshmem_get == Number \cup Word \cup {"mem"}
pshmem_p == Number \cup {"char"}
pshmem_g == Number \cup {"char"}
pshmem_iput == Number \cup Word
pshmem_iget == Number \cup Word
pshmem_put_nbi == Number \cup Word \cup {"char", "mem"}
pshmem_get_nbi == Number \cup Word \cup {"char", "mem"}
pshmemx_put_nb == Number \cup Word \cup {"mem"}
pshmemx_get_nb == Number \cup Word \cup {"complexd", "mem"}
pshmem_wait_until == WholeNumber \cup {"short"}
pshmem_wait == WholeNumber \cup {"short"}
pshmem_swap == WholeNumber \cup Real
pshmem_cswap == WholeNumber
pshmem_fadd == WholeNumber
pshmem_finc == WholeNumber
pshmem_add == WholeNumber
pshmem_inc == WholeNumber
pshmem_fetch == WholeNumber \cup Real
pshmem_set == WholeNumber \cup Real
pshmemx_xor == WholeNumber

pshmem_broadcast == {32, 64}
pshmem_fcollect == {32, 64}
pshmem_collect == {32, 64}
pshmem_sum_to_all == Number \cup {"complexf", "complexd"}
pshmem_prod_to_all == Number \cup {"complexf", "complexd"}
pshmem_and_to_all == WholeNumber \cup {"short"}
pshmem_or_to_all == WholeNumber \cup {"short"}
pshmem_xor_to_all == WholeNumber \cup {"short"}
pshmem_max_to_all == Number
pshmem_min_to_all == Number

\* What wait_until may compare for.
shmem_cmp_constants == {"eq", "ne", "gt", "le", "lt", "ge"}

-----------------------------------------------------------------------------
\* The associations of a generic variant, from the C types it knows to the
\* routines it names; it selects by the object its first argument points to, or
\* by that argument, which is a pointer, itself.
Associations(types) == [t \in types |-> t]
ByObject(to) == [by |-> "object", to |-> to]
ByPointer(to) == [by |-> "pointer", to |-> to]

generic_put == ByObject(Associations(Number \cup {"char"}))
generic_get == ByObject(Associations(Number \cup {"char"}))
generic_p == ByObject(Associations(Number \cup {"char"}))
generic_g == ByPointer(Associations(Number \cup {"char"}))
generic_iput == ByObject(Associations(Number \cup {"char"}))
generic_swap == ByObject(Associations(WholeNumber \cup Real))
generic_cswap == ByObject(Associations(WholeNumber))
generic_fadd == ByObject(Associations(WholeNumber))
generic_finc == ByObject(Associations(WholeNumber))
generic_add == ByObject(Associations(WholeNumber))
generic_inc == ByObject(Associations(WholeNumber))
generic_fetch == ByObject(Associations(WholeNumber \cup Real))
generic_set == ByObject(Associations(WholeNumber \cup Real))
generic_wait == ByObject(Associations(WholeNumber \cup {"short"}))
generic_wait_until == ByObject(Associations(WholeNumber \cup {"short"}))

pgeneric_put == ByObject(Associations(Number \cup {"char"}))
pgeneric_get == ByObject(Associations(Number \cup {"char"}))
pgeneric_p == ByObject(Associations(Number \cup {"char"}))
pgeneric_g == ByPointer(Associations(Number \cup {"char"}))
pgeneric_iput == ByObject(Associations(Number \cup {"char"}))
pgeneric_swap == ByObject(Associations(WholeNumber \cup Real))
pgeneric_cswap == ByObject(Associations(WholeNumber))
pgeneric_fadd == ByObject(Associations(WholeNumber))
pgeneric_finc == ByObject(Associations(WholeNumber))
pgeneric_add == ByObject(Associations(WholeNumber))
pgeneric_inc == ByObject(Associations(WholeNumber))
pgeneric_fetch == ByObject(Associations(WholeNumber \cup Real))
pgeneric_set == ByObject(Associations(WholeNumber \cup Real))
pgeneric_wait == ByObject(Associations(WholeNumber \cup {"short"}))
pgeneric_wait_until == ByObject(Associations(WholeNumber \cup {"short"}))

\* The families that have no generic variant.
None == ByObject(Associations({}))

shmem_h == [
  put |-> [declared |-> shmem_put, generic |-> generic_put],
  get |-> [declared |-> shmem_get, generic |-> generic_get],
  p |-> [declared |-> shmem_p, generic |-> generic_p],
  g |-> [declared |-> shmem_g, generic |-> generic_g],
  iput |-> [declared |-> shmem_iput, generic |-> generic_iput],
  iget |-> [declared |-> shmem_iget, generic |-> None],
  put_nbi |-> [declared |-> shmem_put_nbi, generic |-> None],
  get_nbi |-> [declared |-> shmem_get_nbi, generic |-> None],
  put_nb |-> [declared |-> shmemx_put_nb, generic |-> None],
  get_nb |-> [declared |-> shmemx_get_nb, generic |-> None],
  swap |-> [declared |-> shmem_swap, generic |-> generic_swap],
  cswap |-> [declared |-> shmem_cswap, generic |-> generic_cswap],
  fadd |-> [declared |-> shmem_fadd, generic |-> generic_fadd],
  finc |-> [declared |-> shmem_finc, generic |-> generic_finc],
  add |-> [declared |-> shmem_add, generic |-> generic_add],
  inc |-> [declared |-> shmem_inc, generic |-> generic_inc],
  fetch |-> [declared |-> shmem_fetch, generic |-> generic_fetch],
  set |-> [declared |-> shmem_set, generic |-> generic_set],
  xor |-> [declared |-> shmemx_xor, generic |-> None],
  wait_until |-> [declared |-> shmem_wait_until, generic |-> generic_wait_until],
  wait |-> [declared |-> shmem_wait, generic |-> generic_wait]]

pshmem_h == [
  put |-> [declared |-> pshmem_put, generic |-> pgeneric_put],
  get |-> [declared |-> pshmem_get, generic |-> pgeneric_get],
  p |-> [declared |-> pshmem_p, generic |-> pgeneric_p],
  g |-> [declared |-> pshmem_g, generic |-> pgeneric_g],
  iput |-> [declared |-> pshmem_iput, generic |-> pgeneric_iput],
  iget |-> [declared |-> pshmem_iget, generic |-> None],
  put_nbi |-> [declared |-> pshmem_put_nbi, generic |-> None],
  get_nbi |-> [declared |-> pshmem_get_nbi, generic |-> None],
  put_nb |-> [declared |-> pshmemx_put_nb, generic |-> None],
  get_nb |-> [declared |-> pshmemx_get_nb, generic |-> None],
  swap |-> [declared |-> pshmem_swap, generic |-> pgeneric_swap],
  cswap |-> [declared |-> pshmem_cswap, generic |-> pgeneric_cswap],
  fadd |-> [declared |-> pshmem_fadd, generic |-> pgeneric_fadd],
  finc |-> [declared |-> pshmem_finc, generic |-> pgeneric_finc],
  add |-> [declared |-> pshmem_add, generic |-> pgeneric_add],
  inc |-> [declared |-> pshmem_inc, generic |-> pgeneric_inc],
  fetch |-> [declared |-> pshmem_fetch, generic |-> pgeneric_fetch],
  set |-> [declared |-> pshmem_set, generic |-> pgeneric_set],
  xor |-> [declared |-> pshmemx_xor, generic |-> None],
  wait_until |-> [declared |-> pshmem_wait_until, generic |-> pgeneric_wait_until],
  wait |-> [declared |-> pshmem_wait, generic |-> pgeneric_wait]]

\* The reductions of either header, by their operation.
shmem_to_all == [
  sum |-> shmem_sum_to_all, prod |-> shmem_prod_to_all, and |-> shmem_and_to_all,
  or |-> shmem_or_to_all, xor |-> shmem_xor_to_all, max |-> shmem_max_to_all, min |-> shmem_min_to_all]
pshmem_to_all == [
  sum |-> pshmem_sum_to_all, prod |-> pshmem_prod_to_all, and |-> pshmem_and_to_all,
  or |-> pshmem_or_to_all, xor |-> pshmem_xor_to_all, max |-> pshmem_max_to_all, min |-> pshmem_min_to_all]

-----------------------------------------------------------------------------
\* The routine that the generic variant of a family selects for an object of type
\* t: none if an association names a routine that is not declared, for the call
\* does not compile then, nor if the variant looks at the pointer.
Selected(family, t) ==
  LET to == family.generic.to IN
  {to[u] : u \in {v \in DOMAIN to :
     v = t /\ family.generic.by = "object" /\ \A w \in DOMAIN to : to[w] \in family.declared}}

\* The routines of a family that a C program may call for objects of type t, or
\* for elements of t bits, by name or by type.
Callable(family, t) == ({t} \cap family.declared) \cup Selected(family, t)

=============================================================================
