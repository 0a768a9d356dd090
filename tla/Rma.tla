-------------------------------- MODULE Rma ---------------------------------
(***************************************************************************)
(* Puts and gets of one PE, and what completes them: ptp/putget.c,         *)
(* putget_nbi.c, putget_nb.c, fence/fence.c, fence/quiet.c over            *)
(* comms/gasnet/comms-inline.h, in the build without managed segments.     *)
(* The program issues one call at a time; GASNet completes the transfers   *)
(* in any order.  A transfer is named by its position in op, which is also *)
(* the descriptor and the GASNet handle of a put_nb or get_nb.             *)
(*                                                                         *)
(* What a put carries is told apart by the number of stores the program    *)
(* had made to the source buffer when the transfer read it.                *)
(***************************************************************************)
EXTENDS Naturals, Sequences

CONSTANTS
  MaxOps,       \* bound: calls that move data or fence
  MaxStores     \* bound: stores to the source buffer

ASSUME RmaAssumption == MaxOps \in Nat /\ MaxStores \in Nat

VARIABLES
  source,       \* stores made to the source buffer so far
  op,           \* the transfers and fences, in program order
  nb_table,     \* descriptors in the table of explicit handles
  freed,        \* descriptors whose table entry wait_req has freed
  call,         \* the call the program is in
  test          \* the last test_req: whether its descriptor had been waited on,
                \* and the flag it got

vars == <<source, op, nb_table, freed, call, test>>

-----------------------------------------------------------------------------
\* Which GASNet call each one makes.
ImplicitPuts == {"put", "put_nbi", "put_nbi_bulk"}     \* gasnet_put_nbi[_bulk]
ImplicitGets == {"get_nbi", "get_nbi_bulk"}            \* gasnet_get_nbi[_bulk]
Bug_Blocking == {"get", "get_bulk"}
Blocking == {"put_bulk", "get", "get_bulk"}            \* gasnet_put_bulk, gasnet_get[_bulk]
Explicit == {"put_nb", "get_nb"}                       \* gasnet_..._nb_bulk

\* gasnet_put_nbi has read its source when it returns; the bulk ones read it
\* until they complete.
ReadAtCall == {"put", "put_nbi"}

Puts == {"put", "put_bulk", "put_nbi", "put_nbi_bulk", "put_nb"}
Transfers == ImplicitPuts \cup ImplicitGets \cup {"put_bulk", "get", "get_bulk"} \cup Explicit
Fences == {"fence", "quiet", "quiet_test"}

NULL == 0
Idle == [name |-> "none", desc |-> NULL]
NoData == MaxStores + 1

Init ==
  /\ source = 0
  /\ op = <<>>
  /\ nb_table = {}
  /\ freed = {}
  /\ call = Idle
  /\ test = [cleared |-> FALSE, flag |-> 1]

Call(name, d) == call' = [name |-> name, desc |-> d]
Return == call' = Idle

\* The program writes to its buffer between calls.
Store ==
  /\ call = Idle
  /\ source < MaxStores
  /\ source' = source + 1
  /\ UNCHANGED <<op, nb_table, freed, call, test>>

Transfer(name) ==
  [name |-> name, asked |-> source, done |-> FALSE,
   data |-> IF name \in ReadAtCall THEN source ELSE NoData]

\* put, get, p, g and their bulk, nbi and nb forms.
Issue(name) ==
  LET d == Len(op) + 1 IN
  /\ call = Idle
  /\ Len(op) < MaxOps
  /\ op' = Append(op, Transfer(name))
  /\ nb_table' = IF name \in Explicit THEN nb_table \cup {d} ELSE nb_table
  /\ IF name \in Blocking THEN Call("transfer", d) ELSE UNCHANGED call
  /\ UNCHANGED <<source, freed, test>>

Landed(t) ==
  [t EXCEPT !.done = TRUE,
            !.data = IF t.data = NoData /\ t.name \in Puts THEN source ELSE t.data]

\* GASNet completes a transfer.
Land(d) ==
  /\ ~op[d].done
  /\ op' = [op EXCEPT ![d] = Landed(@)]
  /\ UNCHANGED <<source, nb_table, freed, call, test>>

TransferReturns ==
  /\ call.name = "transfer"
  /\ op[call.desc].done
  /\ Return
  /\ UNCHANGED <<source, op, nb_table, freed, test>>

\* fence, quiet and quiet_test are all do_fencequiet.
Fence(name) ==
  /\ call = Idle
  /\ Len(op) < MaxOps
  /\ op' = Append(op, Transfer(name))
  /\ Call("wait_puts", Len(op) + 1)
  /\ UNCHANGED <<source, nb_table, freed, test>>

Bug_SkipWaitPuts ==
  /\ call.name = "wait_puts"
  /\ Call("nb_table_wait", call.desc)
  /\ UNCHANGED <<source, op, nb_table, freed, test>>

\* gasnet_wait_syncnbi_puts
WaitPuts ==
  /\ call.name = "wait_puts"
  /\ \A i \in 1 .. Len(op) : op[i].name \in ImplicitPuts => op[i].done
  /\ Call("nb_table_wait", call.desc)
  /\ UNCHANGED <<source, op, nb_table, freed, test>>

\* The quiet of wait_req has no entry of its own in op.
FenceDone == IF call.desc = NULL THEN op ELSE [op EXCEPT ![call.desc] = [@ EXCEPT !.done = TRUE]]

\* nb_table_wait syncs every handle in the table, those of earlier calls too,
\* and removes none.
NbTableWait ==
  /\ call.name = "nb_table_wait"
  /\ \A i \in nb_table : op[i].done
  /\ op' = FenceDone
  /\ Return
  /\ UNCHANGED <<source, nb_table, freed, test>>

\* shmemx_wait_req: no descriptor means a quiet.
WaitReq(d) ==
  /\ call = Idle
  /\ IF d = NULL THEN Call("wait_puts", NULL) ELSE Call("wait_req", d)
  /\ UNCHANGED <<source, op, nb_table, freed, test>>

Bug_NotDeleted ==
  /\ call.name = "wait_req"
  /\ op[call.desc].done
  /\ freed' = freed \cup {call.desc}
  /\ Return
  /\ UNCHANGED <<source, op, nb_table, test>>

Waited ==
  /\ call.name = "wait_req"
  /\ op[call.desc].done
  /\ nb_table' = nb_table \ {call.desc}
  /\ freed' = freed \cup {call.desc}
  /\ Return
  /\ UNCHANGED <<source, op, test>>

\* shmemx_test_req: the flag it sets for a descriptor that is no longer in the
\* table is overwritten by a sync of the handle in the freed entry, which may
\* by now be anything.
TestReq(d) ==
  /\ call = Idle
  /\ \E flag \in 0 .. 1 :
       /\ d \in nb_table => flag = (IF op[d].done THEN 1 ELSE 0)
       /\ d = NULL => flag = 1
       /\ test' = [cleared |-> d \in freed, flag |-> flag]
  /\ UNCHANGED <<source, op, nb_table, freed, call>>

Descriptors == nb_table \cup freed

Next ==
  \/ Store
  \/ \E name \in Transfers : Issue(name)
  \/ \E d \in DOMAIN op : op[d].name \in Transfers /\ Land(d)
  \/ TransferReturns
  \/ \E name \in Fences : Fence(name)
  \/ WaitPuts
  \/ NbTableWait
  \/ \E d \in nb_table \cup {NULL} : WaitReq(d)
  \/ Waited
  \/ \E d \in Descriptors \cup {NULL} : TestReq(d)

Spec == Init /\ [][Next]_vars

-----------------------------------------------------------------------------
OpType == [name : Transfers \cup Fences, asked : 0 .. MaxStores, data : 0 .. NoData, done : BOOLEAN]

\* Types; descriptors name explicit transfers, and a freed entry has left the
\* table.
TypeOK ==
  /\ source \in 0 .. MaxStores
  /\ op \in Seq(OpType)
  /\ nb_table \subseteq DOMAIN op /\ freed \subseteq DOMAIN op
  /\ \A d \in Descriptors : op[d].name \in Explicit
  /\ nb_table \cap freed = {}
  /\ test.flag \in 0 .. 1
  /\ call.desc \in DOMAIN op \cup {NULL}
  /\ call.name = "wait_req" => call.desc \in nb_table

\* Once a fence or quiet has returned, no put issued before it is still on its
\* way, whether blocking, implicit or with a descriptor: none of them can be
\* overtaken by a later one.
FenceOrders ==
  \A i, f \in DOMAIN op :
    (i < f /\ op[i].name \in Puts /\ op[f].name \in Fences /\ op[f].done) => op[i].done

\* A put whose source the program may reuse at once (put, p, putmem, put_nbi)
\* delivers what the source held when it was called.
PutKeepsItsValue ==
  \A i \in DOMAIN op :
    op[i].name \in {"put", "put_bulk", "put_nbi"} /\ op[i].done => op[i].data = op[i].asked

\* A descriptor is released only when its transfer is complete.
WaitedIsComplete == \A d \in freed : op[d].done

\* What the last two rest on: every explicit transfer is in the table until it
\* is freed, a fence that has not returned is the last call made, and so is a
\* blocking transfer, whose source is still what it was.
InProgress ==
  \A i \in DOMAIN op :
    /\ op[i].name \in Explicit => i \in Descriptors
    /\ op[i].name \in Blocking /\ ~op[i].done =>
         call = [name |-> "transfer", desc |-> i] /\ op[i].asked = source
    /\ op[i].name \in Fences /\ ~op[i].done =>
         call.name \in {"wait_puts", "nb_table_wait"} /\ call.desc = i /\ i = Len(op)
    /\ op[i].name \in ImplicitPuts /\ call.name = "nb_table_wait" => op[i].done
    /\ op[i].name \in ReadAtCall => op[i].data = op[i].asked
    /\ op[i].name = "put_bulk" => op[i].data = (IF op[i].done THEN op[i].asked ELSE NoData)

\* The inductive invariant.
IInv == TypeOK /\ InProgress /\ FenceOrders /\ WaitedIsComplete

\* shmemx.h: quiet_test "returns non-zero if all communication operations
\* issued prior to this call have satisfied the quiet semantic".  Gets with
\* implicit handles are not waited for.
\* The code does not keep this promise: see Divergences in README.md.
QuietTestMeansAll ==
  \A i, f \in DOMAIN op :
    (i < f /\ op[f].name = "quiet_test" /\ op[f].done) => op[i].done

\* comms-inline.h, in test_req: a handle that has already been waited on,
\* "cleared => complete".
\* The code does not keep this promise: see Divergences in README.md.
ClearedMeansComplete == test.cleared => test.flag = 1

=============================================================================
