----------------------------- MODULE ReduceOps ------------------------------
(***************************************************************************)
(* What the reductions of Collectives compute (reduce/reduce-op.c and the  *)
(* to_all routines of fortran/fortran.c): the operations, the routines that*)
(* C and Fortran programs call for them, and their values, in whatever     *)
(* order a PE combines the elements.                                       *)
(***************************************************************************)
EXTENDS Collectives, FiniteSetsExt, SequencesExt
LOCAL INSTANCE Bitwise

\* The types each of their operations is defined for.
Math == {"short", "int", "long", "longlong", "float", "double", "longdouble", "complexf", "complexd"}
Logic == {"short", "int", "long", "longlong"}
MiniMax == {"short", "int", "long", "longlong", "float", "double", "longdouble"}

shmem_to_all ==
  [sum |-> Math, prod |-> Math, and |-> Logic, or |-> Logic, xor |-> Logic,
   max |-> MiniMax, min |-> MiniMax]

\* Those that have another name too in a library built for profiling (those of
\* short for and, or and xor in lines 334, 342 and 350).
weak_to_all ==
  [sum |-> Math, prod |-> Math, and |-> Logic, or |-> Logic, xor |-> Logic,
   max |-> MiniMax, min |-> MiniMax]

\* The Fortran types: the C routine that is called, and the C type of the arguments.
Bug_Cname ==
  [int2 |-> "short", int4 |-> "int", int8 |-> "int", real4 |-> "float", real8 |-> "double",
   real16 |-> "longdouble", comp4 |-> "complexf", comp8 |-> "complexd"]
Cname ==
  [int2 |-> "short", int4 |-> "int", int8 |-> "long", real4 |-> "float", real8 |-> "double",
   real16 |-> "longdouble", comp4 |-> "complexf", comp8 |-> "complexd"]
Ctype ==
  [int2 |-> "short", int4 |-> "int", int8 |-> "long", real4 |-> "float", real8 |-> "double",
   real16 |-> "longdouble", comp4 |-> "complexf", comp8 |-> "complexd"]
FortranMath == {"int2", "int4", "int8", "real4", "real8", "real16", "comp4", "comp8"}
FortranLogic == {"int2", "int4", "int8"}
FortranMiniMax == {"int2", "int4", "int8", "real4", "real8", "real16"}
fortran_to_all ==
  [sum |-> FortranMath, prod |-> FortranMath, and |-> FortranLogic, or |-> FortranLogic,
   xor |-> FortranLogic, max |-> FortranMiniMax, min |-> FortranMiniMax]

\* A small width for each type that is not the same for two sizes of it.
Whole == {"short", "int", "long", "longlong"}
Width(t) == CASE t = "short" -> 2 [] t = "int" -> 3 [] OTHER -> 4
SignedAs(t, v) == IF v >= 2^(Width(t) - 1) THEN v - 2^Width(t) ELSE v

\* Floating values, as far as comparisons tell them apart: two zeros are equal, and a
\* NaN is neither less nor greater than anything.
Floating ==
  [number : {-1, 1}, kind : {"number"}] \cup [number : {0}, kind : {"number", "minus zero", "NaN"}]
IsNaN(t, v) == t \notin Whole /\ v.kind = "NaN"
Less(t, a, b) ==
  IF t \in Whole THEN SignedAs(t, a) < SignedAs(t, b)
  ELSE ~IsNaN(t, a) /\ ~IsNaN(t, b) /\ a.number < b.number

\* The functions that the reductions are given.
Func(op, t, a, b) ==
  CASE op = "sum" -> (a + b) % 2^Width(t)
    [] op = "prod" -> (a * b) % 2^Width(t)
    [] op = "and" -> a & b
    [] op = "or" -> a | b
    [] op = "xor" -> a ^^ b
    [] op = "min" -> IF Less(t, a, b) THEN a ELSE b
    [] op = "max" -> IF Less(t, b, a) THEN a ELSE b

Result(op, t, order, x) ==
  FoldLeft(LAMBDA a, q : Func(op, t, a, x[q]), x[Head(order)], Tail(order))

\* What a sum, a product and a reduction by bits are of, however put together.
BitOf(v, i) == (v \div 2^i) % 2
BitCount(x, i) == Cardinality({p \in DOMAIN x : BitOf(x[p], i) = 1})
BitsWhere(t, P(_)) == MapThenSumSet(LAMBDA i : IF P(i) THEN 2^i ELSE 0, 0 .. Width(t) - 1)
Reference(op, t, x) ==
  CASE op = "sum" -> MapThenSumSet(LAMBDA p : x[p], DOMAIN x) % 2^Width(t)
    [] op = "prod" -> MapThenFoldSet(LAMBDA a, b : a * b, 1, LAMBDA p : x[p],
                                     LAMBDA S : CHOOSE p \in S : TRUE, DOMAIN x) % 2^Width(t)
    [] op = "and" -> BitsWhere(t, LAMBDA i : BitCount(x, i) = Cardinality(DOMAIN x))
    [] op = "or" -> BitsWhere(t, LAMBDA i : BitCount(x, i) > 0)
    [] op = "xor" -> BitsWhere(t, LAMBDA i : BitCount(x, i) % 2 = 1)

\* A minimum or maximum is the least or greatest of the elements, up to the sign of a
\* zero.  A NaN takes the place of what was combined before it and gives way to what
\* comes after it: with one, the elements after the last NaN in the PE's order count.
IsExtreme(op, t, order, x, v) ==
  LET last == Max({0} \cup {k \in DOMAIN order : IsNaN(t, x[order[k]])})
      counting == {x[order[k]] : k \in last + 1 .. Len(order)}
  IN  IF counting = {} THEN IsNaN(t, v)
      ELSE /\ v \in counting
           /\ \A w \in counting : IF op = "min" THEN ~Less(t, w, v) ELSE ~Less(t, v, w)

\* Values at the ends of a type's range, as bits, and all kinds of floating ones.
Sample(t) ==
  IF t \in Whole THEN {0, 1, 2^(Width(t) - 1) - 1, 2^(Width(t) - 1), 2^Width(t) - 1} ELSE Floating

\* The routines a C program's headers let it call for a type and those a Fortran
\* program calls, with the type of the arguments.
ReductionsOf(op) ==
  {[routine |-> t, of |-> t] : t \in shmem_to_all[op] \cap
     (Header!shmem_to_all[op] \cup (Header!pshmem_to_all[op] \cap weak_to_all[op]))} \cup
  {[routine |-> Cname[f], of |-> Ctype[f]] : f \in fortran_to_all[op]}

\* Floating sums and products round.
Rounds(op, r) == r.of \notin Whole /\ op \in {"sum", "prod"}

\* In whatever order of the PEs, all of them give what they should.
AnyOrderIsRight ==
  \A op \in DOMAIN shmem_to_all : \A r \in ReductionsOf(op) : ~Rounds(op, r) =>
    \A order \in Orders, x \in [Member -> Sample(r.of)] :
      LET v == Result(op, r.routine, order, x)
      IN  IF op \in {"min", "max"} THEN IsExtreme(op, r.of, order, x, v)
          ELSE v = Reference(op, r.of, x)

\* Though each PE combines the elements in another order, its own first (reduce-op.c:226),
\* each has the result of the operation, of whole numbers all the same.  Floating sums
\* and products, which round, are left out; minima and maxima of a NaN differ between PEs.
ResultsAreRight ==
  \A p \in Member : Returned(p) /\ Op(p) \in Reductions =>
    AnyOrderIsRight /\ \A i \in 0 .. Elems(p) - 1 : Order(p, i) \in Orders

=============================================================================
