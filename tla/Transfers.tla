------------------------------- MODULE Transfers -------------------------------
(***************************************************************************)
(* The typed interface over Rma: the C routines of ptp/putget.c,           *)
(* putget_nbi.c, putget_nb.c and strided.c and the Fortran ones of         *)
(* fortran/fortran.c.  A routine turns elements of the type in its name    *)
(* into bytes for the transfers of Rma; a strided one makes a transfer of  *)
(* one element at a time with p or g.                                      *)
(***************************************************************************)
EXTENDS Rma, Integers
Header == INSTANCE Headers

CONSTANTS
  MaxElems,     \* bound: elements of a call
  MaxStride,    \* bound: strides, in elements
  IntMod,       \* an int takes values modulo IntMod, ...
  SizeMod,      \* ... a size_t modulo SizeMod
  Sample        \* bound: the C routines of these types are called again

ASSUME TransfersAssumption ==
  /\ MaxElems \in Nat \ {0} /\ MaxStride \in Nat \ {0}
  /\ IntMod \in Nat \ {0} /\ IntMod % 2 = 0 /\ SizeMod \in Nat
  /\ IntMod <= SizeMod /\ 16 * MaxElems < SizeMod

VARIABLES
  extent,       \* of each transfer: the bytes it moves, from and to
  calls,        \* the calls of the interface, in program order
  left          \* elements the strided call in progress has yet to move

tvars == <<source, op, nb_table, freed, call, test, extent, calls, left>>

-----------------------------------------------------------------------------
\* Types and their sizes in bytes; mem stands for the routines without a type.
SizeOf == [mem |-> 1, char |-> 1, short |-> 2, int |-> 4, float |-> 4, long |-> 8,
           longlong |-> 8, double |-> 8, complexf |-> 8, longdouble |-> 16, complexd |-> 16]

Numbers == {"short", "int", "long", "longlong", "longdouble", "double", "float"}
Bits == {"32", "64", "128"}

\* For each routine family, the C type of each of its members.
CType(t) ==
  CASE t = "16" -> "short" [] t = "32" -> "int" [] t = "64" -> "long" [] t = "128" -> "longdouble"
    [] OTHER -> t
Family(types) == [t \in types |-> CType(t)]

shmem_put == Family(Numbers \cup Bits \cup {"mem", "char", "complexf", "complexd"})
shmem_get == Family(Numbers \cup Bits \cup {"mem", "char", "complexf", "complexd"})
shmem_p == Family(Numbers \cup {"char", "complexf"})
shmem_g == Family(Numbers \cup {"char", "complexf"})
shmem_put_nbi == Family(Numbers \cup Bits \cup {"mem", "char", "complexf", "complexd"})
shmem_get_nbi == Family(Numbers \cup Bits \cup {"mem", "char", "complexf", "complexd"})
shmemx_put_nb == Family(Numbers \cup Bits \cup {"mem", "16"})
shmemx_get_nb == Family(Numbers \cup Bits \cup {"mem", "16"})
shmem_iput == Family(Numbers \cup Bits \cup {"char", "complexf"})
shmem_iget == Family(Numbers \cup Bits \cup {"char", "complexf"})

\* The Fortran families name Fortran types, bytes or bits, and do not agree on
\* the C types of a real and of 128 bits.
FType(t, real, wide) ==
  CASE t \in {"integer", "logical", "4", "32"} -> "int" [] t \in {"8", "64"} -> "long"
    [] t = "character" -> "char" [] t = "complex" -> "complexf"
    [] t = "real" -> real [] t = "128" -> wide
    [] OTHER -> t
Words == {"integer", "logical", "real", "double", "4", "8", "32", "64", "128"}
FamilyF(types, real, wide) == [t \in types |-> FType(t, real, wide)]

fortran_put == FamilyF(Words \cup {"character", "complex", "mem", "long"}, "float", "longdouble")
fortran_get == FamilyF(Words \cup {"character", "complex", "mem", "long"}, "float", "longdouble")
fortran_put_nbi == FamilyF(Words \cup {"character", "complex", "mem"}, "int", "longlong")
fortran_get_nbi == FamilyF(Words \cup {"character", "complex", "mem"}, "int", "longlong")
fortran_iput == FamilyF(Words \cup {"character", "complex"}, "int", "longdouble")
fortran_iget == FamilyF(Words \cup {"character", "complex"}, "int", "longdouble")
fortran_put_nb == FamilyF(Words, "int", "longlong")
fortran_get_nb == FamilyF(Words, "int", "longlong")

C == [put |-> shmem_put, get |-> shmem_get, p |-> shmem_p, g |-> shmem_g,
      put_nbi |-> shmem_put_nbi, get_nbi |-> shmem_get_nbi,
      put_nb |-> shmemx_put_nb, get_nb |-> shmemx_get_nb,
      iput |-> shmem_iput, iget |-> shmem_iget]
Fortran == [put |-> fortran_put, get |-> fortran_get,
            put_nbi |-> fortran_put_nbi, get_nbi |-> fortran_get_nbi,
            put_nb |-> fortran_put_nb, get_nb |-> fortran_get_nb,
            iput |-> fortran_iput, iget |-> fortran_iget]

\* The C routines that a library built for profiling has under another name too.
weak_put == Numbers \cup Bits \cup {"mem", "char", "complexf", "complexd"}
weak_get == Numbers \cup Bits \cup {"mem", "char", "complexf", "complexd"}
weak_p == Numbers \cup {"char"}
weak_g == Numbers \cup {"char"}
weak_put_nbi == Numbers \cup Bits \cup {"mem", "char", "complexf", "complexd"}
weak_get_nbi == Numbers \cup Bits \cup {"mem", "char", "complexf", "complexd"}
weak_put_nb == Numbers \cup Bits \cup {"mem", "16"}
weak_get_nb == Numbers \cup Bits \cup {"mem", "16"}
weak_iput == Numbers \cup Bits \cup {"char"}
weak_iget == Numbers \cup Bits \cup {"char"}
Weak == [put |-> weak_put, get |-> weak_get, p |-> weak_p, g |-> weak_g,
         put_nbi |-> weak_put_nbi, get_nbi |-> weak_get_nbi,
         put_nb |-> weak_put_nb, get_nb |-> weak_get_nb,
         iput |-> weak_iput, iget |-> weak_iget]

\* A C program calls what its headers let it call for its elements, if the
\* library has it; a Fortran program calls any routine.
Elements == Numbers \cup Bits \cup {"mem", "char", "complexd"}
FromC(f, t) ==
  DOMAIN C[f] \cap (Header!Callable(Header!shmem_h[f], t)
                   \cup (Header!Callable(Header!pshmem_h[f], t) \cap Weak[f]))
CRoutines ==
  UNION {{[language |-> "C", family |-> f, of |-> t, type |-> C[f][c]] : c \in FromC(f, t)} :
           f \in DOMAIN C, t \in Elements}
FortranRoutines ==
  UNION {{[language |-> "Fortran", family |-> f, of |-> t, type |-> Fortran[f][t]] : t \in DOMAIN Fortran[f]} :
           f \in DOMAIN Fortran}
Routines == CRoutines \cup FortranRoutines

\* The transfer a routine makes: p and g, and each turn of iput and iget, are
\* puts and gets of one element; the routines without a type use the bulk forms.
Typed == [put |-> "put", p |-> "put", iput |-> "put", get |-> "get", g |-> "get", iget |-> "get",
          put_nbi |-> "put_nbi", get_nbi |-> "get_nbi", put_nb |-> "put_nb", get_nb |-> "get_nb"]
Bulk == [put |-> "put_bulk", get |-> "get_bulk", put_nbi |-> "put_nbi_bulk", get_nbi |-> "get_nbi_bulk"]
Comms(r) == IF r.of = "mem" /\ r.family \in DOMAIN Bulk THEN Bulk[r.family] ELSE Typed[r.family]

\* typed_nelems: an int in the routines with descriptors, converted back to
\* size_t by the call below them.
AsInt(n) == IF n % IntMod < IntMod \div 2 THEN n % IntMod ELSE (n % IntMod) - IntMod
Bytes(r, n) ==
  LET size == n * SizeOf[r.type] IN
  IF r.family \in {"put_nb", "get_nb"} /\ r.of # "mem" THEN AsInt(size) % SizeMod ELSE size % SizeMod

-----------------------------------------------------------------------------
Strided == {"iput", "iget"}
Single == {"p", "g"}

TransfersInit ==
  /\ Init
  /\ extent = <<>>
  /\ calls = <<>>
  /\ left = 0

\* Bound: any routine with any number of elements is called first; more follows
\* if all calls are C routines of Sample with as many elements as may be.
Sampled == {r \in Routines : r.language = "C" /\ r.of \in Sample}
Followed == \A i \in DOMAIN calls : calls[i].routine \in Sampled /\ calls[i].nelems = MaxElems
Callable ==
  IF calls = <<>> THEN Routines \X (0 .. MaxElems)
  ELSE {c \in Sampled \X {MaxElems} : Followed}

Called(r, n, tst, sst) ==
  calls' = Append(calls, [routine |-> r, nelems |-> n, tst |-> tst, sst |-> sst, first |-> Len(op) + 1])

\* A call of a contiguous routine makes one transfer.
Contiguous(r, n) ==
  /\ r.family \notin Strided
  /\ r.family \in Single => n = 1
  /\ Issue(Comms(r))
  /\ extent' = Append(extent, [to |-> 0, from |-> 0, len |-> Bytes(r, n)])
  /\ Called(r, n, 1, 1)
  /\ UNCHANGED left

\* iput and iget start with ti = si = 0 ...
BeginStrided(r, n, tst, sst) ==
  /\ r.family \in Strided
  /\ call = Idle
  /\ Len(op) + n <= MaxOps
  /\ left' = n
  /\ Called(r, n, tst, sst)
  /\ UNCHANGED <<source, op, nb_table, freed, call, test, extent>>

Bug_Element ==
  LET c == calls[Len(calls)]
      i == c.nelems - left
      size == SizeOf[c.routine.type] IN
  /\ left > 0
  /\ Issue(Comms(c.routine))
  /\ extent' = Append(extent, [to |-> i * c.sst * size, from |-> i * c.tst * size, len |-> size])
  /\ left' = left - 1
  /\ UNCHANGED calls

\* ... and move one element per turn of their loop.
Element ==
  LET c == calls[Len(calls)]
      i == c.nelems - left
      size == SizeOf[c.routine.type] IN
  /\ left > 0
  /\ Issue(Comms(c.routine))
  /\ extent' = Append(extent, [to |-> i * c.tst * size, from |-> i * c.sst * size, len |-> size])
  /\ left' = left - 1
  /\ UNCHANGED calls

\* A fence moves nothing; between two elements the program does nothing else.
FenceCall(name) ==
  /\ left = 0 /\ Followed
  /\ Fence(name)
  /\ extent' = Append(extent, [to |-> 0, from |-> 0, len |-> 0])
  /\ UNCHANGED <<calls, left>>

Between ==
  \/ Store
  \/ \E d \in nb_table \cup {NULL} : WaitReq(d)
  \/ \E d \in Descriptors \cup {NULL} : TestReq(d)

Within ==
  \/ \E d \in DOMAIN op : op[d].name \in Transfers /\ Land(d)
  \/ TransferReturns
  \/ WaitPuts
  \/ NbTableWait
  \/ Waited

TransfersNext ==
  \/ /\ left = 0
     /\ \E c \in Callable :
          \/ Contiguous(c[1], c[2])
          \/ \E tst, sst \in 1 .. MaxStride : BeginStrided(c[1], c[2], tst, sst)
  \/ Element
  \/ \E name \in Fences : FenceCall(name)
  \/ left = 0 /\ Followed /\ Between /\ UNCHANGED <<extent, calls, left>>
  \/ Within /\ UNCHANGED <<extent, calls, left>>

TransfersSpec == TransfersInit /\ [][TransfersNext]_tvars

-----------------------------------------------------------------------------
\* The size of an element that the name of a routine promises.
Named(r) ==
  CASE r.of \in DOMAIN SizeOf -> SizeOf[r.of]
    [] r.of \in {"integer", "logical", "real", "4", "32"} -> 4
    [] r.of \in {"8", "64", "complex"} -> 8
    [] r.of = "128" -> 16
    [] r.of = "character" -> 1

\* The pairs of a byte written and the byte it is read from, for the elements
\* a call names and for the transfers it has made.
Wanted(c) ==
  LET size == Named(c.routine) IN
  {<<k * c.tst * size + b, k * c.sst * size + b>> : k \in 0 .. c.nelems - 1, b \in 0 .. size - 1}
Moved(first, last) ==
  UNION {{<<extent[d].to + b, extent[d].from + b>> : b \in 0 .. extent[d].len - 1} : d \in first .. last}

Lasts(i) == calls[i].first + (IF calls[i].routine.family \in Strided THEN calls[i].nelems ELSE 1) - 1
Finished(i) == i < Len(calls) \/ left = 0

\* Nothing is said of calls with a descriptor whose length an int cannot hold,
\* nor of the Fortran routines that say 128 bits and move 64: see Divergences
\* in README.md.
Overflows(c) ==
  c.routine.family \in {"put_nb", "get_nb"} /\ c.nelems * Named(c.routine) >= IntMod \div 2
Halved(r) ==
  r.language = "Fortran" /\ r.of = "128" /\ r.family \in {"put_nbi", "get_nbi", "put_nb", "get_nb"}

\* A call moves the elements its name and arguments say, whole and to their
\* places, whichever language it is made from and however many transfers it
\* takes.
MovesElements ==
  \A i \in DOMAIN calls :
    Finished(i) /\ ~Overflows(calls[i]) /\ ~Halved(calls[i].routine) =>
      Moved(calls[i].first, Lasts(i)) = Wanted(calls[i])

\* The code does not keep this promise of its names: see Divergences in
\* README.md.
Moves128Bits ==
  \A i \in DOMAIN calls :
    Finished(i) /\ Halved(calls[i].routine) => Moved(calls[i].first, Lasts(i)) = Wanted(calls[i])

=============================================================================
