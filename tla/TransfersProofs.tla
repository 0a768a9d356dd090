---------------------------- MODULE TransfersProofs ----------------------------
(***************************************************************************)
(* Fences order puts, puts keep their value and descriptors are released   *)
(* only when complete, for any number of calls.  The typed interface adds  *)
(* no behaviour to Rma: every step of a typed or strided call is a step of *)
(* Rma or leaves it alone, so that what Rma guarantees of single transfers *)
(* holds of the elements of a strided call and of calls made from Fortran. *)
(***************************************************************************)
EXTENDS Transfers, TLAPS

(* Rma: the single transfers. *)
-----------------------------------------------------------------------------
\* How op changes: a new transfer at its end, or one of its entries done.

\* Appending leaves the earlier entries alone.
LEMMA Appended ==
  ASSUME NEW t \in OpType, op \in Seq(OpType), op' = Append(op, t)
  PROVE  /\ op' \in Seq(OpType)
         /\ Len(op') = Len(op) + 1
         /\ DOMAIN op' = 1 .. Len(op) + 1 /\ DOMAIN op = 1 .. Len(op) /\ Len(op) \in Nat
         /\ op'[Len(op) + 1] = t
         /\ \A i \in DOMAIN op : op'[i] = op[i]
  OBVIOUS

\* A transfer starts out with the fields Transfer gives it.
LEMMA TransferType ==
  ASSUME NEW name \in Transfers \cup Fences, source \in 0 .. MaxStores
  PROVE  /\ Transfer(name) \in OpType
         /\ Transfer(name).name = name /\ Transfer(name).asked = source
         /\ ~Transfer(name).done
         /\ Transfer(name).data = (IF name \in ReadAtCall THEN source ELSE NoData)
<1>1. MaxStores \in Nat  BY RmaAssumption
<1>2. NoData \in 0 .. NoData /\ source \in 0 .. NoData  BY <1>1 DEF NoData
<1> QED  BY <1>2 DEF Transfer, OpType

\* Landing marks one transfer done and gives it its data.
LEMMA LandFacts ==
  ASSUME NEW d \in DOMAIN op, TypeOK, Land(d)
  PROVE  /\ op' \in Seq(OpType) /\ DOMAIN op' = DOMAIN op /\ Len(op') = Len(op)
         /\ op'[d].name = op[d].name /\ op'[d].asked = op[d].asked /\ op'[d].done
         /\ op'[d].data = (IF op[d].data = NoData /\ op[d].name \in Puts THEN source ELSE op[d].data)
         /\ \A i \in DOMAIN op : i # d => op'[i] = op[i]
<1>1. op \in Seq(OpType) /\ op' = [op EXCEPT ![d] = Landed(op[d])]  BY DEF Land, TypeOK
<1>2. op[d] \in OpType  BY <1>1
<1>3. source \in 0 .. NoData  BY RmaAssumption DEF TypeOK, NoData
<1>4. /\ Landed(op[d]) \in OpType
      /\ Landed(op[d]).name = op[d].name /\ Landed(op[d]).asked = op[d].asked /\ Landed(op[d]).done
      /\ Landed(op[d]).data = (IF op[d].data = NoData /\ op[d].name \in Puts THEN source ELSE op[d].data)
  BY <1>2, <1>3 DEF Landed, OpType
<1> HIDE DEF OpType, Landed
<1>5. op' \in Seq(OpType) /\ DOMAIN op' = DOMAIN op /\ Len(op') = Len(op)  BY <1>1, <1>4
<1>6. op'[d] = Landed(op[d])  BY <1>1
<1>7. \A i \in DOMAIN op : i # d => op'[i] = op[i]  BY <1>1
<1> QED  BY <1>4, <1>5, <1>6, <1>7

\* A fence that returns is marked done.
LEMMA FenceDoneFacts ==
  ASSUME TypeOK, op' = FenceDone
  PROVE  /\ op' \in Seq(OpType) /\ DOMAIN op' = DOMAIN op /\ Len(op') = Len(op)
         /\ \A i \in DOMAIN op :
              /\ op'[i].name = op[i].name /\ op'[i].asked = op[i].asked /\ op'[i].data = op[i].data
              /\ op'[i].done = (op[i].done \/ i = call.desc)
<1>1. op \in Seq(OpType) /\ call.desc \in DOMAIN op \cup {NULL} /\ NULL \notin DOMAIN op
  BY DEF TypeOK, NULL
<1>2. \A i \in DOMAIN op : op[i] \in OpType  BY <1>1
<1>3. \A i \in DOMAIN op : op[i].done \in BOOLEAN  BY <1>2 DEF OpType
<1>4. CASE call.desc = NULL
  <2>1. op' = op  BY <1>4 DEF FenceDone
  <2> QED  BY <2>1, <1>1, <1>3, <1>4
<1>5. CASE call.desc # NULL
  <2> DEFINE d == call.desc
             t == [op[d] EXCEPT !.done = TRUE]
  <2>1. d \in DOMAIN op  BY <1>1, <1>5
  <2>2. op' = [op EXCEPT ![d] = t]  BY <1>5 DEF FenceDone
  <2>3. t \in OpType /\ t.name = op[d].name /\ t.asked = op[d].asked /\ t.data = op[d].data /\ t.done = TRUE
    BY <2>1, <1>2 DEF OpType
  <2> HIDE DEF t, d
  <2>4. op' \in Seq(OpType) /\ DOMAIN op' = DOMAIN op /\ Len(op') = Len(op)  BY <1>1, <2>1, <2>2, <2>3
  <2>5. op'[d] = t /\ \A i \in DOMAIN op : i # d => op'[i] = op[i]  BY <2>1, <2>2
  <2> QED  BY <2>3, <2>4, <2>5, <1>3 DEF d
<1> QED  BY <1>4, <1>5

-----------------------------------------------------------------------------
\* The initial state has no transfers.
LEMMA InitInv == Init => IInv
<1> SUFFICES ASSUME Init PROVE IInv  OBVIOUS
<1>1. DOMAIN op = {}  BY DEF Init
<1>2. TypeOK  BY <1>1, RmaAssumption DEF Init, TypeOK, Descriptors, Idle
<1>3. InProgress /\ FenceOrders  BY <1>1 DEF InProgress, FenceOrders
<1>4. WaitedIsComplete  BY DEF Init, WaitedIsComplete
<1> QED  BY <1>2, <1>3, <1>4 DEF IInv

\* A call that adds an entry to op, when no call is in progress.
LEMMA AddInv ==
  ASSUME IInv, NEW name \in Transfers \cup Fences, call = Idle,
         op' = Append(op, Transfer(name)), source' = source, freed' = freed, test' = test,
         nb_table' = IF name \in Explicit THEN nb_table \cup {Len(op) + 1} ELSE nb_table,
         CASE name \in Blocking -> call' = [name |-> "transfer", desc |-> Len(op) + 1]
           [] name \in Fences -> call' = [name |-> "wait_puts", desc |-> Len(op) + 1]
           [] OTHER -> call' = call
  PROVE  IInv'
<1> DEFINE n == Len(op) + 1
           t == Transfer(name)
<1>1. TypeOK /\ InProgress /\ FenceOrders /\ WaitedIsComplete  BY DEF IInv
<1>2. /\ t \in OpType /\ t.name = name /\ t.asked = source /\ ~t.done
      /\ t.data = (IF name \in ReadAtCall THEN source ELSE NoData)
  BY <1>1, TransferType DEF TypeOK
<1> HIDE DEF t
<1>3. /\ op' \in Seq(OpType) /\ Len(op') = n
      /\ DOMAIN op' = 1 .. n /\ DOMAIN op = 1 .. Len(op) /\ Len(op) \in Nat
      /\ op'[n] = t /\ \A i \in DOMAIN op : op'[i] = op[i]
  BY <1>1, <1>2, Appended DEF TypeOK, t
<1>4. /\ DOMAIN op' = DOMAIN op \cup {n} /\ n \notin DOMAIN op
      /\ \A i \in DOMAIN op : i < n
  BY <1>3
<1> HIDE DEF n
<1>5. n \notin nb_table /\ n \notin freed  BY <1>1, <1>4 DEF TypeOK
<1>6. nb_table' = IF name \in Explicit THEN nb_table \cup {n} ELSE nb_table  BY DEF n
<1>7. /\ name \in Blocking => call' = [name |-> "transfer", desc |-> n]
      /\ name \in Fences => call' = [name |-> "wait_puts", desc |-> n]
      /\ call' = call \/ (name \in Blocking \/ name \in Fences)
  BY DEF n, Blocking, Fences
<1>8. TypeOK'
  <2>1. Descriptors' \subseteq Descriptors \cup {n} /\ (n \in Descriptors' => name \in Explicit)
    BY <1>5, <1>6 DEF Descriptors
  <2>2. \A d \in Descriptors' : op'[d].name \in Explicit
    <3>1. \A d \in Descriptors : d \in DOMAIN op /\ op[d].name \in Explicit
      BY <1>1 DEF TypeOK, Descriptors
    <3> QED  BY <2>1, <3>1, <1>2, <1>3
  <2>3. nb_table' \subseteq DOMAIN op' /\ freed' \subseteq DOMAIN op' /\ nb_table' \cap freed' = {}
    BY <1>1, <1>4, <1>5, <1>6 DEF TypeOK
  <2>4. call'.desc \in DOMAIN op' \cup {NULL}  BY <1>4, <1>7, <1>1 DEF TypeOK
  <2>5. call'.name # "wait_req"  BY <1>7 DEF Idle
  <2> QED  BY <1>1, <1>3, <2>2, <2>3, <2>4, <2>5 DEF TypeOK
<1>9. \A i \in DOMAIN op : ~(op[i].name \in Blocking /\ ~op[i].done) /\ ~(op[i].name \in Fences /\ ~op[i].done)
  BY <1>1 DEF InProgress, Idle
<1>10. InProgress'
  <2> SUFFICES ASSUME NEW i \in DOMAIN op'
               PROVE  /\ op'[i].name \in Explicit => i \in Descriptors'
                      /\ op'[i].name \in Blocking /\ ~op'[i].done =>
                           call' = [name |-> "transfer", desc |-> i] /\ op'[i].asked = source'
                      /\ op'[i].name \in Fences /\ ~op'[i].done =>
                           call'.name \in {"wait_puts", "nb_table_wait"} /\ call'.desc = i /\ i = Len(op')
                      /\ op'[i].name \in ImplicitPuts /\ call'.name = "nb_table_wait" => op'[i].done
                      /\ op'[i].name \in ReadAtCall => op'[i].data = op'[i].asked
                      /\ op'[i].name = "put_bulk" => op'[i].data = (IF op'[i].done THEN op'[i].asked ELSE NoData)
    BY DEF InProgress
  <2>1. call'.name # "nb_table_wait"  BY <1>7 DEF Idle
  <2>2. CASE i = n
    <3>1. op'[i] = t  BY <2>2, <1>3
    <3>2. name \in Explicit => i \in Descriptors'  BY <1>6, <2>2 DEF Descriptors
    <3>3. name \in Blocking => call' = [name |-> "transfer", desc |-> i]  BY <1>7, <2>2
    <3>4. name \in Fences => call'.name = "wait_puts" /\ call'.desc = i /\ i = Len(op')
      BY <1>3, <1>7, <2>2
    <3>5. name = "put_bulk" => name \notin ReadAtCall  BY DEF ReadAtCall
    <3> QED  BY <3>1, <3>2, <3>3, <3>4, <3>5, <2>1, <1>2
  <2>3. CASE i \in DOMAIN op
    <3>1. op'[i] = op[i]  BY <2>3, <1>3
    <3>2. Descriptors \subseteq Descriptors'  BY <1>6 DEF Descriptors
    <3> QED  BY <3>1, <3>2, <2>1, <2>3, <1>9, <1>1 DEF InProgress
  <2> QED  BY <2>2, <2>3, <1>4
<1>11. FenceOrders'
  <2> SUFFICES ASSUME NEW i \in DOMAIN op', NEW f \in DOMAIN op', i < f,
                      op'[i].name \in Puts, op'[f].name \in Fences, op'[f].done
               PROVE  op'[i].done
    BY DEF FenceOrders
  <2>1. f # n  BY <1>2, <1>3
  <2>2. f \in DOMAIN op  BY <2>1, <1>4
  <2>3. i \in DOMAIN op  BY <2>2, <1>3, <1>4
  <2> QED  BY <2>2, <2>3, <1>1, <1>3 DEF FenceOrders
<1>12. WaitedIsComplete'
  <2>1. freed \subseteq DOMAIN op  BY <1>1 DEF TypeOK
  <2> QED  BY <2>1, <1>1, <1>3 DEF WaitedIsComplete
<1> QED  BY <1>8, <1>10, <1>11, <1>12 DEF IInv

\* A transfer completes.
LEMMA LandInv ==
  ASSUME IInv, NEW d \in DOMAIN op, op[d].name \in Transfers, Land(d)
  PROVE  IInv'
<1>1. TypeOK /\ InProgress /\ FenceOrders /\ WaitedIsComplete  BY DEF IInv
<1>2. /\ op' \in Seq(OpType) /\ DOMAIN op' = DOMAIN op /\ Len(op') = Len(op)
      /\ op'[d].name = op[d].name /\ op'[d].asked = op[d].asked /\ op'[d].done
      /\ op'[d].data = (IF op[d].data = NoData /\ op[d].name \in Puts THEN source ELSE op[d].data)
      /\ \A i \in DOMAIN op : i # d => op'[i] = op[i]
  BY <1>1, LandFacts
<1>3. source' = source /\ nb_table' = nb_table /\ freed' = freed /\ call' = call /\ test' = test /\ ~op[d].done
  BY DEF Land
<1>4. \A i \in DOMAIN op : op'[i].name = op[i].name /\ (op[i].done => op'[i].done)
  BY <1>2
<1>5. TypeOK'
  <2>1. \A e \in Descriptors' : op'[e].name \in Explicit
    BY <1>1, <1>3, <1>4 DEF TypeOK, Descriptors
  <2> QED  BY <1>1, <1>2, <1>3, <2>1 DEF TypeOK
<1>6. op[d].asked \in 0 .. MaxStores /\ op[d].asked # NoData
  <2>1. op[d] \in OpType  BY <1>1 DEF TypeOK
  <2> QED  BY <2>1, RmaAssumption DEF OpType, NoData
<1>7. InProgress'
  <2> SUFFICES ASSUME NEW i \in DOMAIN op'
               PROVE  /\ op'[i].name \in Explicit => i \in Descriptors'
                      /\ op'[i].name \in Blocking /\ ~op'[i].done =>
                           call' = [name |-> "transfer", desc |-> i] /\ op'[i].asked = source'
                      /\ op'[i].name \in Fences /\ ~op'[i].done =>
                           call'.name \in {"wait_puts", "nb_table_wait"} /\ call'.desc = i /\ i = Len(op')
                      /\ op'[i].name \in ImplicitPuts /\ call'.name = "nb_table_wait" => op'[i].done
                      /\ op'[i].name \in ReadAtCall => op'[i].data = op'[i].asked
                      /\ op'[i].name = "put_bulk" => op'[i].data = (IF op'[i].done THEN op'[i].asked ELSE NoData)
    BY DEF InProgress
  <2>1. Descriptors' = Descriptors  BY <1>3 DEF Descriptors
  <2>2. CASE i = d
    <3>1. op[d].name \in Explicit => d \in Descriptors'  BY <1>1, <2>1 DEF InProgress
    <3>2. op[d].name \in ReadAtCall => op'[d].data = op'[d].asked
      BY <1>1, <1>2, <1>6 DEF InProgress
    <3>3. ASSUME op[d].name = "put_bulk" PROVE op'[d].data = op'[d].asked
      <4>1. op[d].data = NoData /\ op[d].asked = source
        BY <1>1, <1>3, <3>3 DEF InProgress, Blocking
      <4> QED  BY <4>1, <3>3, <1>2 DEF Puts
    <3> QED  BY <2>2, <3>1, <3>2, <3>3, <1>2
  <2>3. CASE i # d
    <3>1. op'[i] = op[i] /\ i \in DOMAIN op  BY <2>3, <1>2
    <3> QED  BY <3>1, <2>1, <1>1, <1>2, <1>3 DEF InProgress
  <2> QED  BY <2>2, <2>3
<1>8. FenceOrders'
  <2> SUFFICES ASSUME NEW i \in DOMAIN op', NEW f \in DOMAIN op', i < f,
                      op'[i].name \in Puts, op'[f].name \in Fences, op'[f].done
               PROVE  op'[i].done
    BY DEF FenceOrders
  <2>1. f # d  BY <1>2, <1>4 DEF Transfers, Fences, ImplicitPuts, ImplicitGets, Explicit
  <2>2. op[f].done /\ op[f].name \in Fences /\ op[i].name \in Puts  BY <2>1, <1>2, <1>4
  <2> QED  BY <2>2, <1>1, <1>2, <1>4 DEF FenceOrders
<1>9. WaitedIsComplete'
  BY <1>1, <1>3, <1>4 DEF WaitedIsComplete, TypeOK
<1> QED  BY <1>5, <1>7, <1>8, <1>9 DEF IInv

\* When the waits of a fence are over, every put before it is complete.
LEMMA PutsDone ==
  ASSUME IInv, NbTableWait, NEW i \in DOMAIN op, op[i].name \in Puts
  PROVE  op[i].done
<1>1. InProgress /\ WaitedIsComplete /\ TypeOK /\ call.name = "nb_table_wait"
  BY DEF IInv, NbTableWait
<1>2. CASE op[i].name \in ImplicitPuts  BY <1>1, <1>2 DEF InProgress
<1>3. CASE op[i].name = "put_bulk"  BY <1>1, <1>3 DEF InProgress, Blocking
<1>4. CASE op[i].name = "put_nb"
  <2>1. i \in nb_table \/ i \in freed  BY <1>1, <1>4 DEF InProgress, Explicit, Descriptors
  <2> QED  BY <2>1, <1>1 DEF NbTableWait, WaitedIsComplete
<1> QED  BY <1>2, <1>3, <1>4 DEF Puts, ImplicitPuts

\* A fence returns.
LEMMA NbTableWaitInv == ASSUME IInv, NbTableWait PROVE IInv'
<1>1. TypeOK /\ InProgress /\ FenceOrders /\ WaitedIsComplete  BY DEF IInv
<1>2. /\ call.name = "nb_table_wait" /\ op' = FenceDone /\ call' = Idle
      /\ source' = source /\ nb_table' = nb_table /\ freed' = freed /\ test' = test
  BY DEF NbTableWait, Return
<1>3. /\ op' \in Seq(OpType) /\ DOMAIN op' = DOMAIN op /\ Len(op') = Len(op)
      /\ \A i \in DOMAIN op :
           /\ op'[i].name = op[i].name /\ op'[i].asked = op[i].asked /\ op'[i].data = op[i].data
           /\ op'[i].done = (op[i].done \/ i = call.desc)
  BY <1>1, <1>2, FenceDoneFacts
<1>4. \A i \in DOMAIN op : op[i].name \in Puts => op[i].done  BY PutsDone
<1>5. TypeOK'
  <2>1. \A e \in Descriptors' : op'[e].name \in Explicit
    BY <1>1, <1>2, <1>3 DEF TypeOK, Descriptors
  <2>2. call'.desc = NULL /\ call'.name # "wait_req"  BY <1>2 DEF Idle
  <2> QED  BY <1>1, <1>2, <1>3, <2>1, <2>2 DEF TypeOK
<1>6. InProgress'
  <2> SUFFICES ASSUME NEW i \in DOMAIN op'
               PROVE  /\ op'[i].name \in Explicit => i \in Descriptors'
                      /\ op'[i].name \in Blocking => op'[i].done
                      /\ op'[i].name \in Fences => op'[i].done
                      /\ op'[i].name \in ReadAtCall => op'[i].data = op'[i].asked
                      /\ op'[i].name = "put_bulk" => op'[i].data = (IF op'[i].done THEN op'[i].asked ELSE NoData)
    <3>1. call'.name # "nb_table_wait"  BY <1>2 DEF Idle
    <3> QED  BY <3>1 DEF InProgress
  <2>1. op[i].name \in Blocking => op[i].done  BY <1>1, <1>2, <1>3 DEF InProgress
  <2>2. op[i].name \in Fences => op[i].done \/ i = call.desc  BY <1>1, <1>3 DEF InProgress
  <2>3. Descriptors' = Descriptors  BY <1>2 DEF Descriptors
  <2>4. op[i].name = "put_bulk" => op[i].done /\ op[i].data = op[i].asked
    BY <2>1, <1>1, <1>3 DEF Blocking, InProgress
  <2> QED  BY <2>1, <2>2, <2>3, <2>4, <1>1, <1>3 DEF InProgress
<1>7. FenceOrders'
  BY <1>3, <1>4 DEF FenceOrders
<1>8. WaitedIsComplete'
  BY <1>1, <1>2, <1>3 DEF WaitedIsComplete, TypeOK
<1> QED  BY <1>5, <1>6, <1>7, <1>8 DEF IInv

\* The program stores to its buffer, when no blocking transfer reads it.
LEMMA StoreInv == ASSUME IInv, Store PROVE IInv'
<1>1. /\ TypeOK /\ InProgress /\ FenceOrders /\ WaitedIsComplete
      /\ call = Idle /\ source' = source + 1 /\ source < MaxStores
      /\ UNCHANGED <<op, nb_table, freed, call, test>>
  BY DEF IInv, Store
<1>2. TypeOK'
  <2>1. source' \in 0 .. MaxStores  BY <1>1, RmaAssumption DEF TypeOK
  <2> QED  BY <1>1, <2>1 DEF TypeOK, Descriptors
<1>3. InProgress'  BY <1>1 DEF InProgress, Descriptors, Idle
<1>4. FenceOrders' /\ WaitedIsComplete'  BY <1>1 DEF FenceOrders, WaitedIsComplete
<1> QED  BY <1>2, <1>3, <1>4 DEF IInv

\* The program returns from a blocking transfer.
LEMMA TransferReturnsInv == ASSUME IInv, TransferReturns PROVE IInv'
<1>1. /\ TypeOK /\ InProgress /\ FenceOrders /\ WaitedIsComplete
      /\ call.name = "transfer" /\ op[call.desc].done /\ call' = Idle
      /\ UNCHANGED <<source, op, nb_table, freed, test>>
  BY DEF IInv, TransferReturns, Return
<1>2. TypeOK'  BY <1>1 DEF TypeOK, Descriptors, Idle
<1>3. InProgress'
  <2>1. \A i \in DOMAIN op : op[i].name \in Blocking \/ op[i].name \in Fences => op[i].done
    BY <1>1 DEF InProgress
  <2> QED  BY <1>1, <2>1 DEF InProgress, Descriptors, Idle
<1>4. FenceOrders' /\ WaitedIsComplete'  BY <1>1 DEF FenceOrders, WaitedIsComplete
<1> QED  BY <1>2, <1>3, <1>4 DEF IInv

\* A fence has waited for the implicit puts.
LEMMA WaitPutsInv == ASSUME IInv, WaitPuts PROVE IInv'
<1>1. /\ TypeOK /\ InProgress /\ FenceOrders /\ WaitedIsComplete
      /\ call.name = "wait_puts" /\ call' = [name |-> "nb_table_wait", desc |-> call.desc]
      /\ UNCHANGED <<source, op, nb_table, freed, test>>
  BY DEF IInv, WaitPuts, Call
<1>2. TypeOK'  BY <1>1 DEF TypeOK, Descriptors
<1>3. InProgress'
  <2>1. \A i \in DOMAIN op : op[i].name \in ImplicitPuts => op[i].done
    BY <1>1 DEF WaitPuts, TypeOK
  <2>2. \A i \in DOMAIN op : op[i].name \in Blocking => op[i].done
    BY <1>1 DEF InProgress
  <2> QED  BY <1>1, <2>1, <2>2 DEF InProgress, Descriptors
<1>4. FenceOrders' /\ WaitedIsComplete'  BY <1>1 DEF FenceOrders, WaitedIsComplete
<1> QED  BY <1>2, <1>3, <1>4 DEF IInv

\* wait_req is called, with a descriptor or without.
LEMMA WaitReqInv == ASSUME IInv, NEW d \in nb_table \cup {NULL}, WaitReq(d) PROVE IInv'
<1>1. /\ TypeOK /\ InProgress /\ FenceOrders /\ WaitedIsComplete
      /\ call = Idle
      /\ call' = (IF d = NULL THEN [name |-> "wait_puts", desc |-> NULL]
                              ELSE [name |-> "wait_req", desc |-> d])
      /\ UNCHANGED <<source, op, nb_table, freed, test>>
  BY DEF IInv, WaitReq, Call
<1>2. TypeOK'  BY <1>1 DEF TypeOK, Descriptors
<1>3. InProgress'
  <2>1. \A i \in DOMAIN op : op[i].name \in Blocking \/ op[i].name \in Fences => op[i].done
    BY <1>1 DEF InProgress, Idle
  <2> QED  BY <1>1, <2>1 DEF InProgress, Descriptors
<1>4. FenceOrders' /\ WaitedIsComplete'  BY <1>1 DEF FenceOrders, WaitedIsComplete
<1> QED  BY <1>2, <1>3, <1>4 DEF IInv

\* wait_req takes a complete transfer out of the table.
LEMMA WaitedInv == ASSUME IInv, Waited PROVE IInv'
<1> DEFINE d == call.desc
<1>1. /\ TypeOK /\ InProgress /\ FenceOrders /\ WaitedIsComplete
      /\ call.name = "wait_req" /\ op[d].done /\ call' = Idle
      /\ nb_table' = nb_table \ {d} /\ freed' = freed \cup {d}
      /\ UNCHANGED <<source, op, test>>
  BY DEF IInv, Waited, Return
<1>2. d \in nb_table /\ d \notin freed /\ d \in DOMAIN op  BY <1>1 DEF TypeOK
<1> HIDE DEF d
<1>3. Descriptors' = Descriptors  BY <1>1, <1>2 DEF Descriptors
<1>4. TypeOK'  BY <1>1, <1>2, <1>3 DEF TypeOK, Idle
<1>5. InProgress'
  <2>1. \A i \in DOMAIN op : op[i].name \in Blocking \/ op[i].name \in Fences => op[i].done
    BY <1>1 DEF InProgress
  <2> QED  BY <1>1, <1>3, <2>1 DEF InProgress, Idle
<1>6. FenceOrders' /\ WaitedIsComplete'  BY <1>1 DEF FenceOrders, WaitedIsComplete
<1> QED  BY <1>4, <1>5, <1>6 DEF IInv

\* test_req only sets a flag.
LEMMA TestReqInv == ASSUME IInv, NEW d \in Descriptors \cup {NULL}, TestReq(d) PROVE IInv'
<1>1. /\ TypeOK /\ InProgress /\ FenceOrders /\ WaitedIsComplete
      /\ test'.flag \in 0 .. 1 /\ UNCHANGED <<source, op, nb_table, freed, call>>
  BY DEF IInv, TestReq
<1>2. TypeOK'  BY <1>1 DEF TypeOK, Descriptors
<1>3. InProgress'  BY <1>1 DEF InProgress, Descriptors
<1>4. FenceOrders' /\ WaitedIsComplete'  BY <1>1 DEF FenceOrders, WaitedIsComplete
<1> QED  BY <1>2, <1>3, <1>4 DEF IInv

\* Nothing changes in a stuttering step.
LEMMA StutterInv == ASSUME IInv, UNCHANGED vars PROVE IInv'
  BY DEF IInv, vars, TypeOK, Descriptors, InProgress, FenceOrders, WaitedIsComplete

-----------------------------------------------------------------------------
\* A transfer is issued.
LEMMA IssueInv == ASSUME IInv, NEW name \in Transfers, Issue(name) PROVE IInv'
<1>1. name \notin Fences
  BY DEF Transfers, Fences, ImplicitPuts, ImplicitGets, Explicit
<1>2. /\ call = Idle /\ op' = Append(op, Transfer(name))
      /\ UNCHANGED <<source, freed, test>>
      /\ nb_table' = IF name \in Explicit THEN nb_table \cup {Len(op) + 1} ELSE nb_table
      /\ IF name \in Blocking THEN call' = [name |-> "transfer", desc |-> Len(op) + 1] ELSE call' = call
  BY DEF Issue, Call
<1> QED  BY <1>1, <1>2, AddInv

\* fence, quiet or quiet_test is called.
LEMMA FenceInv == ASSUME IInv, NEW name \in Fences, Fence(name) PROVE IInv'
<1>1. name \notin Blocking /\ name \notin Explicit  BY DEF Blocking, Fences, Explicit
<1>2. /\ call = Idle /\ op' = Append(op, Transfer(name))
      /\ UNCHANGED <<source, nb_table, freed, test>>
      /\ call' = [name |-> "wait_puts", desc |-> Len(op) + 1]
  BY DEF Fence, Call
<1> QED  BY <1>1, <1>2, AddInv

\* Every step keeps the inductive invariant.
LEMMA StepInv == ASSUME IInv, [Next]_vars PROVE IInv'
<1>1. CASE Store  BY <1>1, StoreInv
<1>2. CASE \E name \in Transfers : Issue(name)  BY <1>2, IssueInv
<1>3. CASE \E d \in DOMAIN op : op[d].name \in Transfers /\ Land(d)  BY <1>3, LandInv
<1>4. CASE TransferReturns  BY <1>4, TransferReturnsInv
<1>5. CASE \E name \in Fences : Fence(name)  BY <1>5, FenceInv
<1>6. CASE WaitPuts  BY <1>6, WaitPutsInv
<1>7. CASE NbTableWait  BY <1>7, NbTableWaitInv
<1>8. CASE \E d \in nb_table \cup {NULL} : WaitReq(d)  BY <1>8, WaitReqInv
<1>9. CASE Waited  BY <1>9, WaitedInv
<1>10. CASE \E d \in Descriptors \cup {NULL} : TestReq(d)  BY <1>10, TestReqInv
<1>11. CASE UNCHANGED vars  BY <1>11, StutterInv
<1> QED  BY <1>1, <1>2, <1>3, <1>4, <1>5, <1>6, <1>7, <1>8, <1>9, <1>10, <1>11 DEF Next

\* Every reachable state of do_fencequiet and the transfers satisfies the
\* inductive invariant, for any bounds.
THEOREM RmaInvariant == Spec => []IInv
<1>1. Init => IInv  BY InitInv
<1>2. IInv /\ [Next]_vars => IInv'  BY StepInv
<1> QED  BY <1>1, <1>2, PTL DEF Spec

\* A fence or quiet that has returned is behind every put issued before it.
THEOREM PutsAreOrdered == Spec => []FenceOrders
<1>1. IInv => FenceOrders  BY DEF IInv
<1> QED  BY <1>1, RmaInvariant, PTL

\* The source of a put may be reused as soon as the put returns.
THEOREM PutsKeepTheirValue == Spec => []PutKeepsItsValue
<1>1. IInv => PutKeepsItsValue
  <2> SUFFICES ASSUME IInv, NEW i \in DOMAIN op,
                      op[i].name \in {"put", "put_bulk", "put_nbi"}, op[i].done
               PROVE  op[i].data = op[i].asked
    BY DEF PutKeepsItsValue
  <2> QED  BY DEF IInv, InProgress, ReadAtCall
<1> QED  BY <1>1, RmaInvariant, PTL

\* wait_req releases only what is complete.
THEOREM ReleasedIsComplete == Spec => []WaitedIsComplete
<1>1. IInv => WaitedIsComplete  BY DEF IInv
<1> QED  BY <1>1, RmaInvariant, PTL

-----------------------------------------------------------------------------
(* Transfers: the calls of the interface. *)

\* The families of both languages are the ones Typed knows.
LEMMA RoutineFamily ==
  ASSUME NEW r \in Routines
  PROVE  r.family \in DOMAIN Typed
<1>1. DOMAIN C \subseteq DOMAIN Typed
  BY DEF C, Typed
<1>2. DOMAIN Fortran \subseteq DOMAIN Typed
  BY DEF Fortran, Typed
<1>3. PICK f \in DOMAIN C \cup DOMAIN Fortran : r.family = f
  BY DEF Routines, CRoutines, FortranRoutines
<1> QED  BY <1>1, <1>2, <1>3

\* Every routine makes a transfer Rma has.
LEMMA CommsIsTransfer ==
  ASSUME NEW r \in Routines
  PROVE  Comms(r) \in Transfers
<1>1. CASE r.of = "mem" /\ r.family \in DOMAIN Bulk
  BY <1>1 DEF Comms, Bulk, Transfers, ImplicitPuts, ImplicitGets
<1>2. CASE ~(r.of = "mem" /\ r.family \in DOMAIN Bulk)
  BY <1>2, RoutineFamily DEF Comms, Typed, Transfers, ImplicitPuts, ImplicitGets, Explicit
<1> QED  BY <1>1, <1>2

-----------------------------------------------------------------------------
\* The calls made are calls of the interface, and elements are left to move
\* only of a call that has begun.
CallType == [routine : Routines, nelems : 0 .. MaxElems, tst : 1 .. MaxStride, sst : 1 .. MaxStride, first : Nat]
CallsOK ==
  /\ calls \in Seq(CallType)
  /\ left \in 0 .. MaxElems
  /\ left > 0 => calls # <<>>

\* What may be called is a routine with a number of elements.
LEMMA CallableType ==
  ASSUME NEW c \in Callable
  PROVE  c[1] \in Routines /\ c[2] \in 0 .. MaxElems
<1>1. c \in Routines \X (0 .. MaxElems) \/ c \in Sampled \X {MaxElems}
  BY DEF Callable
<1>2. Sampled \subseteq Routines  BY DEF Sampled
<1>3. MaxElems \in 0 .. MaxElems  BY TransfersAssumption
<1> QED  BY <1>1, <1>2, <1>3

\* A step of the interface is a step of Rma or leaves Rma alone.
LEMMA StepsAreRmaSteps ==
  ASSUME CallsOK, [TransfersNext]_tvars
  PROVE  [Next]_vars
<1>1. CASE UNCHANGED tvars  BY <1>1 DEF tvars, vars
<1>2. ASSUME NEW c \in Callable, Contiguous(c[1], c[2]) PROVE [Next]_vars
  BY <1>2, CallableType, CommsIsTransfer DEF Contiguous, Next
<1>3. ASSUME NEW c \in Callable, NEW tst \in 1 .. MaxStride, NEW sst \in 1 .. MaxStride,
             BeginStrided(c[1], c[2], tst, sst)
      PROVE [Next]_vars
  BY <1>3 DEF BeginStrided, vars
<1>4. CASE Element
  <2>1. calls[Len(calls)] \in CallType  BY <1>4 DEF Element, CallsOK
  <2>2. calls[Len(calls)].routine \in Routines  BY <2>1 DEF CallType
  <2>3. Issue(Comms(calls[Len(calls)].routine))  BY <1>4 DEF Element
  <2> QED  BY <2>2, <2>3, CommsIsTransfer DEF Next
<1>5. ASSUME NEW name \in Fences, FenceCall(name) PROVE [Next]_vars
  BY <1>5 DEF FenceCall, Next
<1>6. CASE Between  BY <1>6 DEF Between, Next
<1>7. CASE Within  BY <1>7 DEF Within, Next
<1> QED  BY <1>1, <1>2, <1>3, <1>4, <1>5, <1>6, <1>7 DEF TransfersNext

\* A step of the interface keeps the shape of its calls.
LEMMA CallsStep ==
  ASSUME CallsOK, IInv, [TransfersNext]_tvars
  PROVE  CallsOK'
<1>1. Len(op) + 1 \in Nat  BY DEF IInv, TypeOK
<1>2. ASSUME NEW r \in Routines, NEW n \in 0 .. MaxElems, NEW tst \in 1 .. MaxStride, NEW sst \in 1 .. MaxStride,
             Called(r, n, tst, sst)
      PROVE  calls' \in Seq(CallType) /\ calls' # <<>>
  <2>1. [routine |-> r, nelems |-> n, tst |-> tst, sst |-> sst, first |-> Len(op) + 1] \in CallType
    BY <1>1 DEF CallType
  <2> QED  BY <1>2, <2>1 DEF Called, CallsOK
<1>3. CASE UNCHANGED <<calls, left>>  BY <1>3 DEF CallsOK
<1>4. ASSUME NEW c \in Callable, Contiguous(c[1], c[2]) PROVE CallsOK'
  <2>1. 1 \in 1 .. MaxStride  BY TransfersAssumption
  <2>2. calls' \in Seq(CallType) /\ calls' # <<>>
    BY <1>2, <1>4, <2>1, CallableType DEF Contiguous
  <2> QED  BY <1>4, <2>2 DEF Contiguous, CallsOK
<1>5. ASSUME NEW c \in Callable, NEW tst \in 1 .. MaxStride, NEW sst \in 1 .. MaxStride,
             BeginStrided(c[1], c[2], tst, sst)
      PROVE  CallsOK'
  <2>1. calls' \in Seq(CallType) /\ calls' # <<>>
    BY <1>2, <1>5, CallableType DEF BeginStrided
  <2> QED  BY <1>5, <2>1, CallableType DEF BeginStrided, CallsOK
<1>6. CASE Element  BY <1>6, TransfersAssumption DEF Element, CallsOK
<1>7. CASE UNCHANGED tvars  BY <1>3, <1>7 DEF tvars
<1>8. ASSUME NEW name \in Fences, FenceCall(name) PROVE CallsOK'
  BY <1>3, <1>8 DEF FenceCall
<1> QED  BY <1>3, <1>4, <1>5, <1>6, <1>7, <1>8 DEF TransfersNext

\* The typed interface adds no step to those of Rma: what Rma
\* guarantees of a transfer holds of whatever the typed and the Fortran
\* routines make.
THEOREM InterfaceImplementsRma == TransfersSpec => Spec
<1>1. TransfersInit => Init /\ CallsOK /\ IInv
  BY InitInv, TransfersAssumption DEF TransfersInit, CallsOK
<1>2. CallsOK /\ IInv /\ [TransfersNext]_tvars => [Next]_vars  BY StepsAreRmaSteps
<1>3. CallsOK /\ IInv /\ [TransfersNext]_tvars => (CallsOK /\ IInv)'
  BY CallsStep, StepsAreRmaSteps, StepInv
<1> QED  BY <1>1, <1>2, <1>3, PTL DEF TransfersSpec, Spec

\* The invariant of Rma holds under the typed interface.
THEOREM InterfaceInvariant == TransfersSpec => []IInv
  BY InterfaceImplementsRma, RmaInvariant, PTL

\* A fence orders the elements of strided calls and of Fortran calls too.
THEOREM ElementsAreOrdered == TransfersSpec => []FenceOrders
  BY InterfaceImplementsRma, PutsAreOrdered, PTL

\* An element keeps the value it was put with, in a strided call too.
THEOREM ElementsKeepTheirValue == TransfersSpec => []PutKeepsItsValue
  BY InterfaceImplementsRma, PutsKeepTheirValue, PTL

-----------------------------------------------------------------------------
\* Whichever header lets a C program call a routine, by its name or by the type
\* of an argument, it is the routine for the elements that the program has.
LEMMA CalledByItsType ==
  ASSUME NEW f \in DOMAIN C, NEW t, NEW c \in FromC(f, t)
  PROVE  c = t
<1> DEFINE Same(family) == \A u \in DOMAIN family.generic.to : family.generic.to[u] = u
<1> USE DEF Header!None, Header!ByObject, Header!ByPointer, Header!Associations
<1>1. Same(Header!shmem_h[f])
  BY DEF C, Header!shmem_h, Header!generic_put, Header!generic_get, Header!generic_p, Header!generic_g,
         Header!generic_iput
<1>2. Same(Header!pshmem_h[f])
  BY DEF C, Header!pshmem_h, Header!pgeneric_put, Header!pgeneric_get, Header!pgeneric_p, Header!pgeneric_g,
         Header!pgeneric_iput
<1>3. ASSUME NEW family, Same(family) PROVE Header!Callable(family, t) \subseteq {t}
  BY <1>3 DEF Header!Callable, Header!Selected
<1> QED  BY <1>1, <1>2, <1>3 DEF FromC

\* The C type of a routine of either language is told by its name, in Fortran
\* together with its family.
LEMMA CRoutine ==
  ASSUME NEW r \in CRoutines
  PROVE  r.type = CType(r.of) /\ r.language = "C" /\ r.family \in DOMAIN C
         /\ r.of \in Numbers \cup Bits \cup {"mem", "char", "complexd"}
<1>1. PICK f \in DOMAIN C, t \in Elements :
        \E c \in FromC(f, t) : r = [language |-> "C", family |-> f, of |-> t, type |-> C[f][c]]
  BY DEF CRoutines
<1>2. t \in FromC(f, t) /\ r = [language |-> "C", family |-> f, of |-> t, type |-> C[f][t]]
  BY <1>1, CalledByItsType
<1>3. t \in DOMAIN C[f]  BY <1>2 DEF FromC
<1>4. C[f][t] = CType(t)
  BY <1>3 DEF C, Family, shmem_put, shmem_get, shmem_p, shmem_g, shmem_put_nbi, shmem_get_nbi,
         shmemx_put_nb, shmemx_get_nb, shmem_iput, shmem_iget
<1> QED  BY <1>2, <1>4 DEF Elements

LEMMA FortranRoutine ==
  ASSUME NEW r \in FortranRoutines
  PROVE  /\ r.language = "Fortran" /\ r.family \in DOMAIN Fortran
         /\ r.of \in Words \cup {"character", "complex", "mem", "long"}
         /\ r.type = FType(r.of, IF r.family \in {"put", "get"} THEN "float" ELSE "int",
                           IF r.family \in {"put", "get", "iput", "iget"} THEN "longdouble" ELSE "longlong")
<1>1. PICK f \in DOMAIN Fortran : \E t \in DOMAIN Fortran[f] :
        r = [language |-> "Fortran", family |-> f, of |-> t, type |-> Fortran[f][t]]
  BY DEF FortranRoutines
<1>2. PICK t \in DOMAIN Fortran[f] :
        r = [language |-> "Fortran", family |-> f, of |-> t, type |-> Fortran[f][t]]
  BY <1>1
<1>3. /\ t \in Words \cup {"character", "complex", "mem", "long"}
      /\ Fortran[f][t] = FType(t, IF f \in {"put", "get"} THEN "float" ELSE "int",
                              IF f \in {"put", "get", "iput", "iget"} THEN "longdouble" ELSE "longlong")
  BY DEF Fortran, FamilyF, fortran_put, fortran_get, fortran_put_nbi, fortran_get_nbi,
         fortran_put_nb, fortran_get_nb, fortran_iput, fortran_iget
<1> QED  BY <1>2, <1>3

\* An element has the size its routine's name says, but for the 128 bits that
\* are moved as 64.
LEMMA TypesMatch ==
  ASSUME NEW r \in Routines, ~Halved(r)
  PROVE  SizeOf[r.type] = Named(r)
<1>1. CASE r \in CRoutines
  BY <1>1, CRoutine DEF SizeOf, CType, Named, Numbers, Bits
<1>2. CASE r \in FortranRoutines
  <2>1. r.of = "128" => r.family \in {"put", "get", "iput", "iget"}
    BY <1>2, FortranRoutine DEF Halved, Fortran
  <2> QED  BY <1>2, <2>1, FortranRoutine DEF SizeOf, FType, Named, Words
<1> QED  BY <1>1, <1>2 DEF Routines

\* It is a power of two in any case.
Sizes == {1, 2, 4, 8, 16}
LEMMA TypeSize ==
  ASSUME NEW r \in Routines
  PROVE  SizeOf[r.type] \in Sizes
<1>1. CASE r \in CRoutines
  BY <1>1, CRoutine DEF SizeOf, CType, Numbers, Bits, Sizes
<1>2. CASE r \in FortranRoutines
  BY <1>2, FortranRoutine DEF SizeOf, FType, Words, Sizes
<1> QED  BY <1>1, <1>2 DEF Routines

\* The length of a contiguous call is a number of bytes, and the right one
\* unless an int cannot hold it.
LEMMA BytesFacts ==
  ASSUME NEW r \in Routines, NEW n \in 0 .. MaxElems
  PROVE  /\ Bytes(r, n) \in Nat
         /\ ~(r.family \in {"put_nb", "get_nb"} /\ n * SizeOf[r.type] >= IntMod \div 2)
              => Bytes(r, n) = n * SizeOf[r.type]
<1> DEFINE size == SizeOf[r.type]
<1>1. size \in Sizes  BY TypeSize
<1>2. n * size \in Nat /\ n * size <= 16 * MaxElems
  BY <1>1, TransfersAssumption DEF Sizes
<1> DEFINE len == n * size
<1>3. len \in Nat /\ len < SizeMod /\ SizeMod \in Nat  BY <1>2, TransfersAssumption
<1>4. len % SizeMod = len  BY <1>3
<1>5. AsInt(len) \in Int /\ (len < IntMod \div 2 => AsInt(len) = len)
  <2>1. len % IntMod \in Int  BY <1>3, TransfersAssumption
  <2>2. len < IntMod \div 2 => len % IntMod = len  BY <1>3, TransfersAssumption
  <2> QED  BY <2>1, <2>2, TransfersAssumption DEF AsInt
<1>6. AsInt(len) % SizeMod \in Nat  BY <1>3, <1>5
<1>7. IntMod \div 2 \in Nat  BY TransfersAssumption
<1>8. Bytes(r, n) = IF r.family \in {"put_nb", "get_nb"} /\ r.of # "mem" THEN AsInt(len) % SizeMod
                    ELSE len % SizeMod
  BY DEF Bytes
<1> HIDE DEF len
<1>9. len < IntMod \div 2 \/ len >= IntMod \div 2  BY <1>3, <1>7
<1>10. Bytes(r, n) \in Nat /\ (~(r.family \in {"put_nb", "get_nb"} /\ len >= IntMod \div 2) => Bytes(r, n) = len)
  BY <1>3, <1>4, <1>5, <1>6, <1>8, <1>9
<1> QED  BY <1>10 DEF len

-----------------------------------------------------------------------------
\* What the calls have moved so far: a contiguous call all at once, a strided
\* one the elements its loop has reached.
Extents == [to : Int, from : Int, len : Int]
Turns(i) == calls[i].nelems - (IF i = Len(calls) THEN left ELSE 0)
ElementOf(c, k) ==
  [to |-> k * c.tst * SizeOf[c.routine.type], from |-> k * c.sst * SizeOf[c.routine.type],
   len |-> SizeOf[c.routine.type]]

CallMoves(i) ==
  LET c == calls[i] IN
  IF c.routine.family \in Strided
  THEN /\ c.first + Turns(i) - 1 <= Len(extent)
       /\ \A k \in 0 .. Turns(i) - 1 : extent[c.first + k] = ElementOf(c, k)
  ELSE /\ c.first <= Len(extent) /\ c.tst = 1 /\ c.sst = 1
       /\ extent[c.first] = [to |-> 0, from |-> 0, len |-> Bytes(c.routine, c.nelems)]

MoveInv ==
  /\ extent \in Seq(Extents) /\ Len(extent) = Len(op)
  /\ \A i \in DOMAIN calls : calls[i].first >= 1 /\ CallMoves(i)
  /\ left > 0 =>
       LET c == calls[Len(calls)] IN
       /\ c.routine.family \in Strided
       /\ left <= c.nelems
       /\ Len(extent) = c.first + Turns(Len(calls)) - 1

\* Appending an extent leaves what earlier calls moved as it is.
LEMMA MoreExtents ==
  ASSUME MoveInv, CallsOK, IInv, NEW e \in Extents, extent' = Append(extent, e)
  PROVE  /\ extent' \in Seq(Extents) /\ Len(extent') = Len(extent) + 1 /\ Len(extent) \in Nat
         /\ extent'[Len(extent) + 1] = e
         /\ \A d \in 1 .. Len(extent) : extent'[d] = extent[d]
  BY DEF MoveInv

\* What a call in the past has moved does not change.
LEMMA PastCalls ==
  ASSUME MoveInv, CallsOK, NEW i \in DOMAIN calls, i \in DOMAIN calls', calls'[i] = calls[i],
         Turns(i)' = Turns(i), Len(extent) <= Len(extent'),
         \A d \in 1 .. Len(extent) : extent'[d] = extent[d],
         Len(extent) \in Nat, Len(extent') \in Nat
  PROVE  calls'[i].first >= 1 /\ CallMoves(i)'
<1>1. calls[i].first >= 1 /\ CallMoves(i) /\ calls[i] \in CallType  BY DEF MoveInv, CallsOK
<1>2. calls[i].first \in Nat /\ calls[i].nelems \in Nat  BY <1>1, TransfersAssumption DEF CallType
<1>3. Turns(i) \in Int  BY <1>2, TransfersAssumption DEF Turns, CallsOK
<1>4. CASE calls[i].routine.family \in Strided
  <2>1. \A k \in 0 .. Turns(i) - 1 : calls[i].first + k \in 1 .. Len(extent)
    BY <1>1, <1>2, <1>3, <1>4 DEF CallMoves
  <2>2. \A k \in 0 .. Turns(i) - 1 : ElementOf(calls'[i], k) = ElementOf(calls[i], k)
    OBVIOUS
  <2>3. \A k \in 0 .. Turns(i)' - 1 : extent'[calls'[i].first + k] = ElementOf(calls'[i], k)
    BY <1>1, <1>4, <2>1, <2>2 DEF CallMoves
  <2>4. calls'[i].first + Turns(i)' - 1 <= Len(extent')
    BY <1>1, <1>2, <1>3, <1>4 DEF CallMoves
  <2> QED  BY <1>1, <1>4, <2>3, <2>4 DEF CallMoves, ElementOf
<1>5. CASE calls[i].routine.family \notin Strided
  BY <1>1, <1>2, <1>5 DEF CallMoves
<1> QED  BY <1>4, <1>5

\* A call of one transfer moves all it has to.
LEMMA ContiguousMoves ==
  ASSUME MoveInv, CallsOK, IInv, CallsOK', left = 0,
         NEW r \in Routines, NEW n \in 0 .. MaxElems, Contiguous(r, n)
  PROVE  MoveInv'
<1> DEFINE e == [to |-> 0, from |-> 0, len |-> Bytes(r, n)]
           new == [routine |-> r, nelems |-> n, tst |-> 1, sst |-> 1, first |-> Len(op) + 1]
<1>1. /\ extent' = Append(extent, e) /\ calls' = Append(calls, new) /\ left' = 0
      /\ op' = Append(op, Transfer(Comms(r))) /\ r.family \notin Strided
  BY DEF Contiguous, Called, Issue
<1>2. e \in Extents  BY BytesFacts DEF Extents
<1>3. /\ extent' \in Seq(Extents) /\ Len(extent') = Len(extent) + 1 /\ Len(extent) \in Nat
      /\ extent'[Len(extent) + 1] = e
      /\ \A d \in 1 .. Len(extent) : extent'[d] = extent[d]
  BY <1>1, <1>2, MoreExtents
<1>4. Len(op') = Len(op) + 1 /\ Len(op) = Len(extent)
  BY <1>1 DEF IInv, TypeOK, MoveInv
<1>5. calls \in Seq(CallType) /\ new \in CallType
  BY <1>4, <1>3, TransfersAssumption DEF CallsOK, CallType
<1> HIDE DEF new, e
<1>6. /\ Len(calls') = Len(calls) + 1 /\ calls'[Len(calls) + 1] = new /\ Len(calls) \in Nat
      /\ DOMAIN calls' = 1 .. Len(calls) + 1 /\ DOMAIN calls = 1 .. Len(calls)
      /\ \A i \in DOMAIN calls : calls'[i] = calls[i]
  BY <1>1, <1>5
<1>7. ASSUME NEW i \in DOMAIN calls' PROVE calls'[i].first >= 1 /\ CallMoves(i)'
  <2>1. CASE i \in DOMAIN calls
    <3>1. Turns(i)' = Turns(i)  BY <1>1, <1>6, <2>1 DEF Turns
    <3>2. Len(extent) <= Len(extent') /\ Len(extent') \in Nat  BY <1>3
    <3> QED  BY <1>3, <1>6, <2>1, <3>1, <3>2, PastCalls
  <2>2. CASE i = Len(calls) + 1
    <3>1. calls'[i] = new  BY <1>6, <2>2
    <3>2. /\ new.first = Len(extent) + 1 /\ new.routine = r /\ new.nelems = n
          /\ new.tst = 1 /\ new.sst = 1
      BY <1>4 DEF new
    <3> QED  BY <1>1, <1>3, <3>1, <3>2 DEF CallMoves, e
  <2> QED  BY <1>6, <2>1, <2>2
<1> QED  BY <1>1, <1>3, <1>4, <1>7 DEF MoveInv

\* A strided call has moved nothing when it begins.
LEMMA BeginMoves ==
  ASSUME MoveInv, CallsOK, IInv, CallsOK', left = 0,
         NEW r \in Routines, NEW n \in 0 .. MaxElems,
         NEW tst \in 1 .. MaxStride, NEW sst \in 1 .. MaxStride, BeginStrided(r, n, tst, sst)
  PROVE  MoveInv'
<1> DEFINE new == [routine |-> r, nelems |-> n, tst |-> tst, sst |-> sst, first |-> Len(op) + 1]
<1>1. /\ extent' = extent /\ calls' = Append(calls, new) /\ left' = n
      /\ op' = op /\ r.family \in Strided
  BY DEF BeginStrided, Called
<1>2. Len(op) = Len(extent) /\ Len(extent) \in Nat  BY DEF MoveInv
<1>3. calls \in Seq(CallType) /\ new \in CallType
  BY <1>2, TransfersAssumption DEF CallsOK, CallType
<1>4. /\ new.first = Len(extent) + 1 /\ new.routine = r /\ new.nelems = n
      /\ n \in Nat
  BY <1>2, TransfersAssumption DEF new
<1> HIDE DEF new
<1>5. /\ Len(calls') = Len(calls) + 1 /\ calls'[Len(calls) + 1] = new /\ Len(calls) \in Nat
      /\ DOMAIN calls' = 1 .. Len(calls) + 1 /\ DOMAIN calls = 1 .. Len(calls)
      /\ \A i \in DOMAIN calls : calls'[i] = calls[i]
  BY <1>1, <1>3
<1>6. ASSUME NEW i, i = Len(calls) + 1 PROVE Turns(i)' = 0
  BY <1>1, <1>4, <1>5, <1>6 DEF Turns
<1>7. ASSUME NEW i \in DOMAIN calls' PROVE calls'[i].first >= 1 /\ CallMoves(i)'
  <2>1. CASE i \in DOMAIN calls
    <3>1. Turns(i)' = Turns(i)
      <4>1. calls[i] \in CallType  BY <1>3, <2>1
      <4>2. calls[i].nelems \in Nat  BY <4>1, TransfersAssumption DEF CallType
      <4> QED  BY <1>1, <1>5, <2>1, <4>2 DEF Turns
    <3> QED  BY <1>1, <1>2, <1>5, <2>1, <3>1, PastCalls
  <2>2. CASE i = Len(calls) + 1
    BY <1>1, <1>2, <1>4, <1>5, <1>6, <2>2 DEF CallMoves
  <2> QED  BY <1>5, <2>1, <2>2
<1>8. Turns(Len(calls))' = 0  BY <1>1, <1>4, <1>5 DEF Turns
<1> QED  BY <1>1, <1>2, <1>4, <1>5, <1>7, <1>8 DEF MoveInv

\* A turn of the loop moves the next element.
LEMMA ElementMoves ==
  ASSUME MoveInv, CallsOK, IInv, CallsOK', Element
  PROVE  MoveInv'
<1> PICK last : last = Len(calls)  OBVIOUS
<1> DEFINE c == calls[last]
           k == c.nelems - left
           e == ElementOf(c, k)
<1>1. /\ left > 0 /\ left' = left - 1 /\ calls' = calls
      /\ op' = Append(op, Transfer(Comms(c.routine)))
      /\ extent' = Append(extent, e)
  BY DEF Element, Issue, ElementOf
<1>2. /\ last \in DOMAIN calls /\ c \in CallType /\ last \in Nat
      /\ left \in Nat
  BY <1>1, TransfersAssumption DEF CallsOK
<1>3. c.nelems \in Nat /\ c.first \in Nat /\ c.routine \in Routines /\ c.tst \in Nat /\ c.sst \in Nat
  BY <1>2, TransfersAssumption DEF CallType
<1>4. /\ c.routine.family \in Strided /\ left <= c.nelems
      /\ Len(extent) = c.first + k - 1 /\ Turns(last) = k
  BY <1>1 DEF MoveInv, Turns
<1>5. k \in Nat  BY <1>2, <1>3, <1>4
<1>6. SizeOf[c.routine.type] \in Nat  BY <1>3, TypeSize DEF Sizes
<1>7. e \in Extents
  <2>1. \A x, y, z \in Nat : x * y * z \in Int  OBVIOUS
  <2> HIDE DEF k
  <2> QED  BY <1>3, <1>5, <1>6, <2>1 DEF ElementOf, Extents
<1>8. /\ extent' \in Seq(Extents) /\ Len(extent') = Len(extent) + 1 /\ Len(extent) \in Nat
      /\ extent'[Len(extent) + 1] = e
      /\ \A d \in 1 .. Len(extent) : extent'[d] = extent[d]
  BY <1>1, <1>7, MoreExtents
<1>9. Len(op') = Len(op) + 1 /\ Len(op) = Len(extent)
  BY <1>1 DEF IInv, TypeOK, MoveInv
<1>10. Turns(last)' = k + 1
  <2>1. Turns(last)' = c.nelems - (left - 1)  BY <1>1 DEF Turns
  <2> QED  BY <1>2, <1>3, <2>1
<1>11. CallMoves(last)' /\ calls'[last].first >= 1
  <2>1. calls[last].first >= 1 /\ CallMoves(last)  BY <1>2 DEF MoveInv
  <2>2. \A j \in 0 .. k - 1 : extent[c.first + j] = ElementOf(c, j)
    BY <1>4, <2>1 DEF CallMoves
  <2>3. \A j \in 0 .. k : extent'[c.first + j] = ElementOf(c, j)
    <3> SUFFICES ASSUME NEW j \in 0 .. k PROVE extent'[c.first + j] = ElementOf(c, j)
      OBVIOUS
    <3>1. CASE j = k
      <4>1. c.first + j = Len(extent) + 1  BY <1>3, <1>4, <1>5, <1>8, <3>1
      <4>2. e = ElementOf(c, j)  BY <3>1
      <4> QED  BY <1>8, <4>1, <4>2
    <3>2. CASE j < k
      <4>1. c.first + j \in 1 .. Len(extent)  BY <1>3, <1>4, <1>5, <2>1, <3>2
      <4> QED  BY <1>5, <1>8, <2>2, <3>2, <4>1
    <3> QED  BY <1>5, <3>1, <3>2
  <2> HIDE DEF k
  <2>4. \A j \in 0 .. Turns(last)' - 1 : extent'[c.first + j] = ElementOf(c, j)
    BY <1>5, <1>10, <2>3
  <2>5. c.first + Turns(last)' - 1 <= Len(extent')
    BY <1>3, <1>4, <1>5, <1>8, <1>10
  <2> QED  BY <1>1, <1>4, <2>1, <2>4, <2>5 DEF CallMoves, ElementOf
<1>12. ASSUME NEW i \in DOMAIN calls' PROVE calls'[i].first >= 1 /\ CallMoves(i)'
  <2>1. CASE i = last  BY <1>11, <2>1
  <2>2. CASE i # last
    <3>1. Turns(i)' = Turns(i)  BY <1>1, <2>2 DEF Turns
    <3> QED  BY <1>1, <1>8, <3>1, PastCalls
  <2> QED  BY <2>1, <2>2
<1>13. left' <= c.nelems /\ Len(extent') = c.first + Turns(last)' - 1
  <2>1. left' <= c.nelems  BY <1>1, <1>2, <1>3, <1>4
  <2> HIDE DEF c, k, e
  <2>2. Len(extent') = c.first + Turns(last)' - 1  BY <1>3, <1>4, <1>5, <1>8, <1>10
  <2> QED  BY <2>1, <2>2
<1>14. last = Len(calls') /\ calls'[last] = c
  BY <1>1
<1> HIDE DEF c, k, e
<1>15. /\ extent' \in Seq(Extents) /\ Len(extent') = Len(op')
       /\ \A i \in DOMAIN calls' : calls'[i].first >= 1 /\ CallMoves(i)'
  BY <1>8, <1>9, <1>12
<1>16. left' > 0 => /\ calls'[Len(calls')].routine.family \in Strided
                   /\ left' <= calls'[Len(calls')].nelems
                   /\ Len(extent') = calls'[Len(calls')].first + Turns(Len(calls))' - 1
  <2>1. Turns(last)' = Turns(Len(calls))'  BY <1>14
  <2> QED  BY <1>4, <1>13, <1>14, <2>1
<1> QED  BY <1>15, <1>16 DEF MoveInv

\* A fence takes a place among the transfers and moves nothing.
LEMMA FenceMoves ==
  ASSUME MoveInv, CallsOK, IInv, CallsOK', NEW name \in Fences, FenceCall(name)
  PROVE  MoveInv'
<1> DEFINE e == [to |-> 0, from |-> 0, len |-> 0]
<1>1. /\ extent' = Append(extent, e) /\ left = 0 /\ calls' = calls /\ left' = left
      /\ op' = Append(op, Transfer(name))
  BY DEF FenceCall, Fence
<1>2. e \in Extents  BY DEF Extents
<1>3. /\ extent' \in Seq(Extents) /\ Len(extent') = Len(extent) + 1 /\ Len(extent) \in Nat
      /\ \A d \in 1 .. Len(extent) : extent'[d] = extent[d]
  BY <1>1, <1>2, MoreExtents
<1>4. Len(op') = Len(op) + 1 /\ Len(op) = Len(extent)
  BY <1>1 DEF IInv, TypeOK, MoveInv
<1>5. ASSUME NEW i \in DOMAIN calls' PROVE calls'[i].first >= 1 /\ CallMoves(i)'
  <2>1. Turns(i)' = Turns(i)  BY <1>1 DEF Turns
  <2> QED  BY <1>1, <1>3, <2>1, PastCalls
<1> QED  BY <1>1, <1>3, <1>4, <1>5 DEF MoveInv

\* Nothing else makes a transfer or a call.
LEMMA OtherMoves ==
  ASSUME MoveInv, CallsOK, IInv, UNCHANGED <<extent, calls, left>>, Len(op') = Len(op)
  PROVE  MoveInv'
<1>1. /\ extent' \in Seq(Extents) /\ Len(extent') = Len(op') /\ Len(extent) \in Nat
      /\ calls' = calls /\ left' = left /\ extent' = extent
  BY DEF MoveInv
<1>2. ASSUME NEW i \in DOMAIN calls' PROVE calls'[i].first >= 1 /\ CallMoves(i)'
  <2>1. Turns(i)' = Turns(i)  BY <1>1 DEF Turns
  <2> QED  BY <1>1, <2>1, PastCalls
<1>3. Turns(Len(calls))' = Turns(Len(calls))  BY <1>1 DEF Turns
<1> QED  BY <1>1, <1>2, <1>3 DEF MoveInv

\* Neither returning, waiting nor completing adds to the transfers.
LEMMA SameLength ==
  ASSUME IInv, Between \/ Within \/ UNCHANGED tvars
  PROVE  Len(op') = Len(op)
<1>1. TypeOK  BY DEF IInv
<1>2. ASSUME NEW d \in DOMAIN op, Land(d) PROVE Len(op') = Len(op)
  BY <1>1, <1>2, LandFacts
<1>3. CASE NbTableWait
  BY <1>1, <1>3, FenceDoneFacts DEF NbTableWait
<1>4. CASE UNCHANGED op  BY <1>4
<1>5. CASE Between
  BY <1>4, <1>5 DEF Between, Store, WaitReq, TestReq
<1>6. CASE Within
  BY <1>2, <1>3, <1>4, <1>6 DEF Within, TransferReturns, WaitPuts, Waited
<1> QED  BY <1>4, <1>5, <1>6 DEF tvars

\* Every step keeps account of what has been moved.
LEMMA MoveStep ==
  ASSUME MoveInv, CallsOK, IInv, [TransfersNext]_tvars
  PROVE  MoveInv'
<1>1. CallsOK'  BY CallsStep
<1>2. ASSUME NEW c \in Callable, left = 0, Contiguous(c[1], c[2]) PROVE MoveInv'
  BY <1>1, <1>2, CallableType, ContiguousMoves
<1>3. ASSUME NEW c \in Callable, left = 0, NEW tst \in 1 .. MaxStride, NEW sst \in 1 .. MaxStride,
             BeginStrided(c[1], c[2], tst, sst)
      PROVE  MoveInv'
  BY <1>1, <1>3, CallableType, BeginMoves
<1>4. CASE Element  BY <1>1, <1>4, ElementMoves
<1>5. ASSUME NEW name \in Fences, FenceCall(name) PROVE MoveInv'
  BY <1>1, <1>5, FenceMoves
<1>6. CASE (Between \/ Within) /\ UNCHANGED <<extent, calls, left>>
  BY <1>6, SameLength, OtherMoves
<1>7. CASE UNCHANGED tvars
  BY <1>7, SameLength, OtherMoves DEF tvars
<1> QED  BY <1>2, <1>3, <1>4, <1>5, <1>6, <1>7 DEF TransfersNext

-----------------------------------------------------------------------------
\* The bytes of n elements that follow each other are those of one block.
LEMMA Blocks ==
  ASSUME NEW s \in Sizes, NEW n \in Nat
  PROVE  \A x \in Int : x \in 0 .. n * s - 1 <=> \E k \in 0 .. n - 1, b \in 0 .. s - 1 : x = k * 1 * s + b
<1> SUFFICES ASSUME NEW x \in Int
             PROVE  x \in 0 .. n * s - 1 <=> \E k \in 0 .. n - 1, b \in 0 .. s - 1 : x = k * 1 * s + b
  OBVIOUS
<1>1. s \in Nat \ {0} /\ n * s \in Nat  BY DEF Sizes
<1>2. ASSUME x \in 0 .. n * s - 1
      PROVE  \E k \in 0 .. n - 1, b \in 0 .. s - 1 : x = k * 1 * s + b
  <2>1. x \in Nat  BY <1>1, <1>2
  <2>2. PICK k \in Int : s * k <= x /\ x < s * k + s
    <3>1. s * (x \div s) <= x /\ x < s * (x \div s) + s  BY <1>1, <2>1
    <3> QED  BY <1>1, <2>1, <3>1
  <2>3. k \in 0 .. n - 1  BY <1>2, <2>1, <2>2 DEF Sizes
  <2>4. x - s * k \in 0 .. s - 1 /\ x = k * 1 * s + (x - s * k)
    BY <1>1, <2>1, <2>2 DEF Sizes
  <2> QED  BY <2>3, <2>4
<1>3. ASSUME NEW k \in 0 .. n - 1, NEW b \in 0 .. s - 1, x = k * 1 * s + b
      PROVE  x \in 0 .. n * s - 1
  BY <1>3 DEF Sizes
<1> QED  BY <1>2, <1>3

\* A contiguous call moves the block its elements make.
LEMMA ContiguousWhole ==
  ASSUME MoveInv, CallsOK, NEW i \in DOMAIN calls, calls[i].routine.family \notin Strided,
         ~Overflows(calls[i]), ~Halved(calls[i].routine)
  PROVE  Moved(calls[i].first, Lasts(i)) = Wanted(calls[i])
<1> DEFINE c == calls[i]
           s == Named(c.routine)
<1>1. c \in CallType  BY DEF CallsOK
<1>2. c.routine \in Routines /\ c.nelems \in 0 .. MaxElems /\ c.nelems \in Nat /\ c.first \in Nat
  BY <1>1, TransfersAssumption DEF CallType
<1>3. s \in Sizes /\ s = SizeOf[c.routine.type]  BY <1>2, TypesMatch, TypeSize
<1>4. Bytes(c.routine, c.nelems) = c.nelems * s
  BY <1>2, <1>3, BytesFacts DEF Overflows
<1>5. extent[c.first] = [to |-> 0, from |-> 0, len |-> c.nelems * s] /\ c.tst = 1 /\ c.sst = 1
  BY <1>4 DEF MoveInv, CallMoves
<1>6. Lasts(i) = c.first  BY <1>2 DEF Lasts
<1>7. c.nelems * s \in Nat  BY <1>2, <1>3 DEF Sizes
<1> HIDE DEF c, s
<1>8. Moved(c.first, c.first) = {<<x, x>> : x \in 0 .. c.nelems * s - 1}
  BY <1>2, <1>5, <1>7 DEF Moved
<1>9. Wanted(c) = {<<k * 1 * s + b, k * 1 * s + b>> : k \in 0 .. c.nelems - 1, b \in 0 .. s - 1}
  BY <1>5 DEF Wanted, s
<1>10. s \in Nat  BY <1>3 DEF Sizes
<1>11. \A k \in 0 .. c.nelems - 1, b \in 0 .. s - 1 : k * 1 * s + b \in Int
  BY <1>2, <1>3 DEF Sizes
<1>12. {<<x, x>> : x \in 0 .. c.nelems * s - 1}
         = {<<k * 1 * s + b, k * 1 * s + b>> : k \in 0 .. c.nelems - 1, b \in 0 .. s - 1}
  <2>1. \A x \in Int : x \in 0 .. c.nelems * s - 1 <=>
                       \E k \in 0 .. c.nelems - 1, b \in 0 .. s - 1 : x = k * 1 * s + b
    BY <1>2, <1>3, Blocks
  <2>2. ASSUME NEW x \in 0 .. c.nelems * s - 1
        PROVE  \E k \in 0 .. c.nelems - 1, b \in 0 .. s - 1 : <<x, x>> = <<k * 1 * s + b, k * 1 * s + b>>
    <3>1. x \in Int  BY <1>7
    <3> QED  BY <2>1, <3>1
  <2>3. ASSUME NEW k \in 0 .. c.nelems - 1, NEW b \in 0 .. s - 1
        PROVE  k * 1 * s + b \in 0 .. c.nelems * s - 1
    BY <1>11, <2>1
  <2> QED  BY <2>2, <2>3
<1> QED  BY <1>6, <1>8, <1>9, <1>12 DEF c

\* A strided call that has returned has moved each element to its place.
LEMMA StridedWhole ==
  ASSUME MoveInv, CallsOK, NEW i \in DOMAIN calls, calls[i].routine.family \in Strided,
         Finished(i), ~Halved(calls[i].routine)
  PROVE  Moved(calls[i].first, Lasts(i)) = Wanted(calls[i])
<1> DEFINE c == calls[i]
           s == Named(c.routine)
<1>1. c \in CallType  BY DEF CallsOK
<1>2. c.routine \in Routines /\ c.nelems \in Nat /\ c.first \in Nat
  BY <1>1, TransfersAssumption DEF CallType
<1>3. s = SizeOf[c.routine.type]  BY <1>2, TypesMatch
<1>4. Turns(i) = c.nelems
  <2>1. CASE i < Len(calls)  BY <1>2, <2>1 DEF Turns
  <2>2. CASE left = 0  BY <1>2, <2>2 DEF Turns
  <2> QED  BY <2>1, <2>2 DEF Finished
<1>5. \A k \in 0 .. c.nelems - 1 :
        extent[c.first + k] = [to |-> k * c.tst * s, from |-> k * c.sst * s, len |-> s]
  BY <1>3, <1>4 DEF MoveInv, CallMoves, ElementOf
<1>6. Lasts(i) = c.first + c.nelems - 1  BY DEF Lasts
<1> HIDE DEF c, s
<1>7. \A d \in c.first .. c.first + c.nelems - 1 : d - c.first \in 0 .. c.nelems - 1 /\ c.first + (d - c.first) = d
  BY <1>2
<1>8. \A k \in 0 .. c.nelems - 1 : c.first + k \in c.first .. c.first + c.nelems - 1
  BY <1>2
<1> DEFINE Piece(d) == {<<extent[d].to + b, extent[d].from + b>> : b \in 0 .. extent[d].len - 1}
           PieceOf(k) == {<<k * c.tst * s + b, k * c.sst * s + b>> : b \in 0 .. s - 1}
<1>9. ASSUME NEW k \in 0 .. c.nelems - 1 PROVE Piece(c.first + k) = PieceOf(k)
  <2> DEFINE d == c.first + k
             to == k * c.tst * s
             from == k * c.sst * s
  <2>1. extent[d] = [to |-> to, from |-> from, len |-> s]  BY <1>5, Zenon
  <2> HIDE DEF to, from
  <2>2. extent[d].to = to /\ extent[d].from = from /\ extent[d].len = s  BY <2>1
  <2> HIDE DEF d, to, from
  <2>3. Piece(d) = {<<to + b, from + b>> : b \in 0 .. s - 1}  BY <2>2, Zenon
  <2> QED  BY <2>3 DEF d, to, from
<1>10. Moved(c.first, c.first + c.nelems - 1) = UNION {Piece(d) : d \in c.first .. c.first + c.nelems - 1}
  BY DEF Moved
<1>11. Wanted(c) = UNION {PieceOf(k) : k \in 0 .. c.nelems - 1}
  BY DEF Wanted, s
<1> HIDE DEF Piece, PieceOf
<1>12. \A d \in c.first .. c.first + c.nelems - 1 : Piece(d) = PieceOf(d - c.first)
  BY <1>7, <1>9
<1>13. UNION {Piece(d) : d \in c.first .. c.first + c.nelems - 1} = UNION {PieceOf(k) : k \in 0 .. c.nelems - 1}
  BY <1>7, <1>8, <1>9, <1>12
<1> QED  BY <1>6, <1>10, <1>11, <1>13 DEF c

\* Whatever the bounds on elements and strides and however narrow an int is, a
\* call that has returned has asked for exactly the elements it was given.
THEOREM CallsMoveTheirElements == TransfersSpec => []MovesElements
<1>1. TransfersInit => MoveInv /\ CallsOK /\ IInv
  BY InitInv, TransfersAssumption DEF TransfersInit, CallsOK, MoveInv, Init
<1>2. MoveInv /\ CallsOK /\ IInv /\ [TransfersNext]_tvars => (MoveInv /\ CallsOK /\ IInv)'
  BY MoveStep, CallsStep, StepsAreRmaSteps, StepInv
<1>3. MoveInv /\ CallsOK /\ IInv => MovesElements
  BY ContiguousWhole, StridedWhole DEF MovesElements
<1> QED  BY <1>1, <1>2, <1>3, PTL DEF TransfersSpec

================================================================================
