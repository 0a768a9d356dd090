------------------------------ MODULE SymmAddr ------------------------------
(***************************************************************************)
(* Symmetric addresses: globalvar/globalvar.c, which finds the areas of    *)
(* static variables in the executable, shmemi_symmetric_addr_lookup of     *)
(* comms/gasnet/comms-inline.h, which says where on another PE an object   *)
(* is, and the queries over it.                                            *)
(*                                                                         *)
(* The program is loaded at the same place on every PE, its heaps need not *)
(* be.                                                                     *)
(***************************************************************************)
EXTENDS Integers, Sequences

CONSTANTS
  PE,
  Base,           \* where the heap of each PE starts
  HeapSize,       \* how long heaps are
  Sections        \* the sections of the executable, in its order

ASSUME AddressAssumption ==
  /\ Base \in [PE -> Nat]
  /\ HeapSize \in Nat
  /\ DOMAIN Sections \subseteq Nat
  /\ \A i \in DOMAIN Sections :
       Sections[i].type \in {"PROGBITS", "NOBITS", "SYMTAB"}
       /\ Sections[i].start \in Nat /\ Sections[i].size \in Nat

NULL == -1

\* table_init_helper reads sections up to the symbol table, and fails if there
\* is none.
SymbolTable == {i \in DOMAIN Sections : Sections[i].type = "SYMTAB"}
TableInit == IF SymbolTable = {} THEN -1 ELSE 0
ReadSections == {i \in DOMAIN Sections : \A j \in SymbolTable : i < j}

\* The last section of that name and type.
Area(type, name) ==
  LET found == {i \in ReadSections : Sections[i].type = type /\ Sections[i].name = name}
  IN  IF found = {} THEN {}
      ELSE LET s == Sections[CHOOSE i \in found : \A j \in found : j <= i]
           IN  s.start .. s.start + s.size - 1

elfro == Area("PROGBITS", ".rodata")
elfbss == Area("NOBITS", ".bss")
elfdata == Area("PROGBITS", ".data")

\* shmemi_symmetric_is_globalvar
IS_GLOBAL(a) == a \in elfdata \/ a \in elfbss \/ a \in elfro

\* shmemi_symmetric_addr_lookup, on PE me: a static variable is at the same
\* address everywhere, a place in the heap equally far from its start.
Lookup(me, dest, pe) ==
  LET offset == dest - Base[me]
  IN  IF IS_GLOBAL(dest) THEN dest
      ELSE IF offset < 0 \/ offset > HeapSize THEN NULL
      ELSE Base[pe] + offset

\* shmem_addr_accessible
Accessible(me, addr, pe) == Lookup(me, addr, pe) # NULL

=============================================================================
