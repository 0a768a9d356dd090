----------------------------- MODULE MCSymmHeap -----------------------------
(***************************************************************************)
(* An executable and the places of three heaps: PE 1's overlaps the        *)
(* others', as those of different processes may.  None starts at a         *)
(* multiple of the alignment, so that aligned addresses are not aligned    *)
(* places, but all are alike modulo the alignment.                         *)
(***************************************************************************)
EXTENDS SymmHeap

MCBase == [p \in PE |-> IF p = 1 THEN 23 ELSE 21]

Section(type, name, start, size) == [type |-> type, name |-> name, start |-> start, size |-> size]

MCSections ==
  <<Section("PROGBITS", ".text", 1, 2), Section("PROGBITS", ".rodata", 3, 1),
    Section("PROGBITS", ".data", 4, 2), Section("NOBITS", ".bss", 6, 1),
    Section("SYMTAB", ".symtab", 0, 4)>>

\* One initialized, one not.
MCVariables == {5, 6}

MCMenu ==
  <<[malloc |-> {1, 2}, align |-> {1}, malloc_nb |-> {1}, shpalloc |-> {0, 1}],
    [malloc |-> {0, 1, 2}, align |-> {2}, realloc |-> {0, 1, 2}, shpclmove |-> {1, 5}, free |-> {0}, free_nb |-> {0}],
    [malloc |-> {1}, align |-> {2}, realloc |-> {2}, free |-> {0}, shpdeallc |-> {0}, free_nb |-> {0}]>>

=============================================================================
