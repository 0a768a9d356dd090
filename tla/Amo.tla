-------------------------------- MODULE Amo ---------------------------------
(***************************************************************************)
(* The remote atomic operations of comms/gasnet/comms-inline.h.  A request *)
(* mallocs a payload, sends it in an active message to the PE that owns    *)
(* the target, and spins on the payload's completed flag.  The "out"       *)
(* handler there reads and updates the target under the handler lock of    *)
(* the type; its reply runs the "bak" handler on the caller, which writes  *)
(* the fetched value and then the flag into the payload, under the same    *)
(* kind of lock.  Handlers run in the thread that polls: the program's     *)
(* own, or the progress thread of the PE.                                  *)
(*                                                                         *)
(* One symmetric variable is modelled, of one data type; the programs that *)
(* operate on it are written in C or in Fortran.  wait_until               *)
(* (atomic/waituntil.c) watches the caller's own copy of the variable.     *)
(***************************************************************************)
EXTENDS Integers
Header == INSTANCE Headers

CONSTANTS
  PE, Target,   \* the PEs, and those whose variable is operated on
  DataType,     \* the C type of the variable
  InFortran,    \* the PEs whose program is in Fortran
  Width,        \* width of the type in bits
  Operand,      \* values and conditions the program passes
  Comparison,   \* the comparisons of the program's wait_until
  MaxOps        \* bound: operations of one PE

ASSUME AmoAssumption ==
  /\ PE \subseteq Nat /\ Target \subseteq PE
  /\ DataType \in {"int", "long", "longlong", "float", "double"}
  /\ InFortran \subseteq PE /\ (DataType = "longlong" => InFortran = {})
  /\ Width \in Nat /\ Operand \subseteq 0 .. 2^Width - 1
  /\ Comparison \subseteq Header!shmem_cmp_constants
  /\ MaxOps \in Nat

VARIABLES
  var,       \* the symmetric variable on each PE
  hsl,       \* amo_lock of each type on each PE: the handler that holds it, with
             \* what an out handler has read
  net,       \* requests and replies on their way
  args,      \* the arguments of the request each PE is in
  payload,   \* what each PE has malloced for it: value and completed; of a
             \* wait_until, whether its loop has ended
  ret,       \* what the last operation of each PE returned
  ops        \* how many operations each PE has begun

vars == <<var, hsl, net, args, payload, ret, ops>>

-----------------------------------------------------------------------------
Value == 0 .. 2^Width - 1
Bit(v, i) == (v \div 2^i) % 2
Xor(v, w) ==
  CHOOSE x \in Value : \A i \in 0 .. Width - 1 : Bit(x, i) = (Bit(v, i) + Bit(w, i)) % 2

Signed(v) == IF v >= 2^(Width - 1) THEN v - 2^Width ELSE v

\* The C types that each operation is defined for.
Whole == {"int", "long", "longlong"}
Floating == {"float", "double"}
shmem_swap == Whole \cup Floating
shmem_cswap == Whole
shmem_fadd == Whole
shmem_finc == Whole
shmem_add == Whole
shmem_inc == Whole
shmem_fetch == Whole \cup Floating
shmem_set == Whole \cup Floating
shmemx_xor == Whole
shmem_wait_until == Whole \cup {"short"}
shmem_wait == Whole \cup {"short"}

\* And those whose routine has another name too in a library built for profiling.
weak_swap == Whole \cup Floating
weak_cswap == Whole
weak_fadd == Whole
weak_finc == Whole
weak_add == Whole
weak_inc == Whole
weak_fetch == Whole \cup Floating
weak_set == Whole \cup Floating
weak_xor == Whole
weak_wait_until == Whole \cup {"short"}
weak_wait == Whole \cup {"short"}

\* The C types that stand for the Fortran ones, and the C routine that each
\* Fortran one calls.
FortranName == [int |-> "int4", long |-> "int8", float |-> "real4", double |-> "real8"]
fortran_swap == [int4 |-> "int", int8 |-> "long", real4 |-> "float", real8 |-> "double"]
fortran_cswap == [int4 |-> "int", int8 |-> "long"]
Bug_fortran_fadd == [int4 |-> "int", int8 |-> "longlong"]
fortran_fadd == [int4 |-> "int", int8 |-> "long"]
fortran_finc == [int4 |-> "int", int8 |-> "long"]
fortran_add == [int4 |-> "int", int8 |-> "long"]
fortran_inc == [int4 |-> "int", int8 |-> "long"]
fortran_fetch == [int4 |-> "int", int8 |-> "long", real4 |-> "float", real8 |-> "double"]
fortran_set == [int4 |-> "int", int8 |-> "long", real4 |-> "float", real8 |-> "double"]
fortran_xor == [int4 |-> "int", int8 |-> "long"]
fortran_wait_until == [int4 |-> "int", int8 |-> "long"]
fortran_wait == [int4 |-> "int", int8 |-> "long"]

Routines == [
  swap |-> [c |-> shmem_swap, weak |-> weak_swap, fortran |-> fortran_swap],
  cswap |-> [c |-> shmem_cswap, weak |-> weak_cswap, fortran |-> fortran_cswap],
  fadd |-> [c |-> shmem_fadd, weak |-> weak_fadd, fortran |-> fortran_fadd],
  finc |-> [c |-> shmem_finc, weak |-> weak_finc, fortran |-> fortran_finc],
  add |-> [c |-> shmem_add, weak |-> weak_add, fortran |-> fortran_add],
  inc |-> [c |-> shmem_inc, weak |-> weak_inc, fortran |-> fortran_inc],
  fetch |-> [c |-> shmem_fetch, weak |-> weak_fetch, fortran |-> fortran_fetch],
  set |-> [c |-> shmem_set, weak |-> weak_set, fortran |-> fortran_set],
  xor |-> [c |-> shmemx_xor, weak |-> weak_xor, fortran |-> fortran_xor],
  wait_until |-> [c |-> shmem_wait_until, weak |-> weak_wait_until, fortran |-> fortran_wait_until],
  wait |-> [c |-> shmem_wait, weak |-> weak_wait, fortran |-> fortran_wait]]

\* The routine p's program calls for the variable, by its C type; none if the
\* operation is not defined for it.  A C program calls what its headers let it.
FromC(f) ==
  Routines[f].c \cap (Header!Callable(Header!shmem_h[f], DataType)
                     \cup (Header!Callable(Header!pshmem_h[f], DataType) \cap Routines[f].weak))
FromFortran(f) ==
  {Routines[f].fortran[name] : name \in {FortranName[DataType]} \cap DOMAIN Routines[f].fortran}
Routine(p, f) == IF p \in InFortran THEN FromFortran(f) ELSE FromC(f)

NoCall == [op |-> "none", type |-> "none", dst |-> 0, value |-> 0, cond |-> 0]
NoPayload == [value |-> -1, completed |-> -1]      \* freed
NoHandler == [kind |-> "none"]
Void == -1

Init ==
  /\ var = [p \in PE |-> 0]
  /\ hsl = [p \in PE |-> [t \in Whole \cup Floating |-> NoHandler]]
  /\ net = {}
  /\ args = [p \in PE |-> NoCall]
  /\ payload = [p \in PE |-> NoPayload]
  /\ ret = [p \in PE |-> Void]
  /\ ops = [p \in PE |-> 0]

\* The calls of the program.  A value that is not passed is left as malloc gave
\* it in the code; no handler uses it.
Call(op, t, d, v, c) == [op |-> op, type |-> t, dst |-> d, value |-> v, cond |-> c]

SwapCall(p) ==
  {Call("swap", t, d, v, 0) : t \in Routine(p, "swap"), d \in Target, v \in Operand}
CSwapCall(p) ==
  {Call("cswap", t, d, v, c) : t \in Routine(p, "cswap"), d \in Target, v \in Operand, c \in Operand}
FaddCall(p) ==
  {Call("fadd", t, d, v, 0) : t \in Routine(p, "fadd"), d \in Target, v \in Operand}
FincCall(p) == {Call("finc", t, d, 0, 0) : t \in Routine(p, "finc"), d \in Target}
AddCall(p) ==
  {Call("add", t, d, v, 0) : t \in Routine(p, "add"), d \in Target, v \in Operand}
IncCall(p) == {Call("inc", t, d, 0, 0) : t \in Routine(p, "inc"), d \in Target}
FetchCall(p) == {Call("fetch", t, d, 0, 0) : t \in Routine(p, "fetch"), d \in Target}
SetCall(p) ==
  {Call("set", t, d, v, 0) : t \in Routine(p, "set"), d \in Target, v \in Operand}
XorCall(p) ==
  {Call("xor", t, d, v, 0) : t \in Routine(p, "xor"), d \in Target, v \in Operand}

RequestOf(p) ==
  SwapCall(p) \cup CSwapCall(p) \cup FaddCall(p) \cup FincCall(p) \cup AddCall(p) \cup IncCall(p)
    \cup FetchCall(p) \cup SetCall(p) \cup XorCall(p)

\* wait_until looks at the PE's own variable; wait compares for inequality.
WaitCall(p) ==
  {Call("wait", t, p, v, cmp) :
     t \in Routine(p, "wait_until"), v \in Operand, cmp \in Comparison}
  \cup {Call("wait", t, p, v, "ne") : t \in Routine(p, "wait"), v \in Operand}

Operation == UNION {RequestOf(p) \cup WaitCall(p) : p \in PE}

\* malloc, fill in, send.
Request(p) ==
  /\ args[p] = NoCall
  /\ ops[p] < MaxOps
  /\ \E c \in RequestOf(p) :
       /\ args' = [args EXCEPT ![p] = c]
       /\ payload' = [payload EXCEPT ![p] = [value |-> c.value, completed |-> 0]]
       /\ net' = net \cup {[kind |-> "out", src |-> p, call |-> c, value |-> c.value]}
  /\ ops' = [ops EXCEPT ![p] = @ + 1]
  /\ ret' = [ret EXCEPT ![p] = Void]
  /\ UNCHANGED <<var, hsl>>

\* wait_until begins ...
WaitUntil(p) ==
  /\ args[p] = NoCall
  /\ ops[p] < MaxOps
  /\ \E c \in WaitCall(p) : args' = [args EXCEPT ![p] = c]
  /\ payload' = [payload EXCEPT ![p] = [value |-> 0, completed |-> 0]]
  /\ ops' = [ops EXCEPT ![p] = @ + 1]
  /\ ret' = [ret EXCEPT ![p] = Void]
  /\ UNCHANGED <<var, hsl, net>>

\* The comparison that shmem_..._wait_until dispatches on.
Compares(cmp, v, w) ==
  LET a == Signed(v)
      b == Signed(w) IN
  \/ cmp = "eq" /\ a = b
  \/ cmp = "ne" /\ a # b
  \/ cmp = "gt" /\ a > b
  \/ cmp = "le" /\ a <= b
  \/ cmp = "lt" /\ a < b
  \/ cmp = "ge" /\ a >= b

\* ... and polls until the variable compares as it should.
WaitSees(p) ==
  /\ args[p].op = "wait"
  /\ payload[p].completed = 0
  /\ Compares(args[p].cond, var[p], args[p].value)
  /\ payload' = [payload EXCEPT ![p].completed = 1]
  /\ UNCHANGED <<var, hsl, net, args, ret, ops>>

-----------------------------------------------------------------------------
\* What the out handlers leave in the target.
SwapOut(c, old) == c.value
CSwapOut(c, old) == IF c.cond = old THEN c.value ELSE old
FaddOut(c, old) == (old + c.value) % 2^Width
FincOut(c, old) == (old + 1) % 2^Width
AddOut(c, old) == (old + c.value) % 2^Width
IncOut(c, old) == (old + 1) % 2^Width
FetchOut(c, old) == old
SetOut(c, old) == c.value
XorOut(c, old) == Xor(old, c.value)

Update(c, old) ==
  CASE c.op = "swap" -> SwapOut(c, old)
    [] c.op = "cswap" -> CSwapOut(c, old)
    [] c.op = "fadd" -> FaddOut(c, old)
    [] c.op = "finc" -> FincOut(c, old)
    [] c.op = "add" -> AddOut(c, old)
    [] c.op = "inc" -> IncOut(c, old)
    [] c.op = "fetch" -> FetchOut(c, old)
    [] c.op = "set" -> SetOut(c, old)
    [] c.op = "xor" -> XorOut(c, old)

\* Those of them that put the old value into the payload they return, and the
\* bak handlers that copy the value back.
Fetching == {"swap", "cswap", "fadd", "finc", "fetch"}
CopiedBack == Fetching \cup {"set"}

\* The out handler: lock, read ...
OutLoad(m) ==
  LET d == m.call.dst
      t == m.call.type IN
  /\ m.kind = "out"
  /\ hsl[d][t] = NoHandler
  /\ hsl' = [hsl EXCEPT ![d][t] = [kind |-> "out", msg |-> m, old |-> var[d]]]
  /\ net' = net \ {m}
  /\ UNCHANGED <<var, args, payload, ret, ops>>

\* ... write, unlock, reply.
OutStore(p, t) ==
  LET h == hsl[p][t] IN
  /\ h.kind = "out"
  /\ var' = [var EXCEPT ![p] = Update(h.msg.call, h.old)]
  /\ net' = net \cup {[h.msg EXCEPT !.kind = "bak",
                                    !.value = IF h.msg.call.op \in Fetching THEN h.old ELSE @]}
  /\ hsl' = [hsl EXCEPT ![p][t] = NoHandler]
  /\ UNCHANGED <<args, payload, ret, ops>>

Bug_FlagFirst(m) ==
  /\ m.kind = "bak"
  /\ hsl[m.src][m.call.type] = NoHandler
  /\ hsl' = [hsl EXCEPT ![m.src][m.call.type] = [kind |-> "bak", msg |-> m]]
  /\ payload' = [payload EXCEPT ![m.src].completed = 1]
  /\ net' = net \ {m}
  /\ UNCHANGED <<var, args, ret, ops>>

\* The bak handler: lock, write the value into the payload, fence ...
BakValue(m) ==
  /\ m.kind = "bak"
  /\ hsl[m.src][m.call.type] = NoHandler
  /\ hsl' = [hsl EXCEPT ![m.src][m.call.type] = [kind |-> "bak", msg |-> m]]
  /\ payload' = [payload EXCEPT ![m.src].value = IF m.call.op \in CopiedBack THEN m.value ELSE @]
  /\ net' = net \ {m}
  /\ UNCHANGED <<var, args, ret, ops>>

\* ... set the flag ...
BakFlag(p, t) ==
  /\ hsl[p][t].kind = "bak"
  /\ payload' = [payload EXCEPT ![p].completed = 1]
  /\ hsl' = [hsl EXCEPT ![p][t] = [kind |-> "done"]]
  /\ UNCHANGED <<var, net, args, ret, ops>>

Bug_NoUnlock(p, t) == hsl[p][t].kind = "done" /\ UNCHANGED vars

\* ... unlock, when the waiter may already have freed the payload.
BakUnlock(p, t) ==
  /\ hsl[p][t].kind = "done"
  /\ hsl' = [hsl EXCEPT ![p][t] = NoHandler]
  /\ UNCHANGED <<var, net, args, payload, ret, ops>>

\* WAIT_ON_COMPLETION ends, the value is saved, the payload freed.
Return(p) ==
  /\ payload[p].completed = 1
  /\ ret' = [ret EXCEPT ![p] = IF args[p].op \in Fetching THEN payload[p].value ELSE Void]
  /\ payload' = [payload EXCEPT ![p] = NoPayload]
  /\ args' = [args EXCEPT ![p] = NoCall]
  /\ UNCHANGED <<var, hsl, net, ops>>

Handler(p) == \E t \in Whole \cup Floating : OutStore(p, t) \/ BakFlag(p, t) \/ BakUnlock(p, t)

Deliver(m) == OutLoad(m) \/ BakValue(m)

Next ==
  \/ \E p \in PE : Request(p) \/ Handler(p) \/ WaitUntil(p) \/ WaitSees(p) \/ Return(p)
  \/ \E m \in net : Deliver(m)

Spec == Init /\ [][Next]_vars

\* Messages to a PE are handled (its program polls whenever it waits, and a
\* progress thread polls where one runs), the handler lock is fair, a PE whose
\* flag is set goes on, and so does one whose variable stays as it waits for.
FairSpec ==
  /\ Spec
  /\ \A p \in PE : WF_vars(Handler(p)) /\ WF_vars(WaitSees(p)) /\ WF_vars(Return(p))
  /\ \A p \in PE : SF_vars(\E m \in net : m.src = p /\ Deliver(m))

-----------------------------------------------------------------------------
\* A handler that will write to p's payload, or has just set its flag.
Replying(p) ==
  \/ \E t \in Whole \cup Floating : hsl[p][t].kind = "bak"
  \/ \E m \in net : m.kind = "bak" /\ m.src = p

Requesting(p) ==
  \/ \E m \in net : m.kind = "out" /\ m.src = p
  \/ \E q \in PE, t \in Whole \cup Floating : hsl[q][t].kind = "out" /\ hsl[q][t].msg.src = p

\* No handler writes to a payload that its caller has freed: an operation is in
\* exactly one of four places, and the free comes after the last of them.
NoUseAfterFree ==
  \A p \in PE :
    /\ Requesting(p) \/ Replying(p) => args[p] # NoCall /\ payload[p].completed = 0
    /\ ~(Requesting(p) /\ Replying(p))
    /\ args[p] = NoCall => payload[p] = NoPayload

\* What the variables hold; the values are those of the program.
TypeOK ==
  /\ var = [p \in PE |-> var[p]]
  /\ DOMAIN hsl = PE /\ \A p \in PE : hsl[p] = [t \in Whole \cup Floating |-> hsl[p][t]]
  /\ \A m \in net : m.kind \in {"out", "bak"}
  /\ DOMAIN args = PE /\ \A p \in PE : args[p] \in RequestOf(p) \cup WaitCall(p) \cup {NoCall}
  /\ DOMAIN payload = PE
  /\ \A p \in PE : payload[p] = [value |-> payload[p].value, completed |-> payload[p].completed]
  /\ DOMAIN ret = PE /\ ops \in [PE -> Nat]

\* A request or reply is of the call its sender is in and waits for.
Awaited(m) ==
  /\ m.src \in PE
  /\ m = [kind |-> m.kind, src |-> m.src, call |-> args[m.src], value |-> m.value]
  /\ args[m.src] \in RequestOf(m.src)
  /\ payload[m.src].completed = 0

\* A handler holds no lock but that of the variable's type, and what an out
\* handler has read is what is there.
LockedBy(p) ==
  LET h == hsl[p][DataType] IN
  \/ h = NoHandler
  \/ /\ h.kind = "out" /\ h = [kind |-> "out", msg |-> h.msg, old |-> var[p]]
     /\ Awaited(h.msg) /\ h.msg.kind = "out" /\ h.msg.call.dst = p
  \/ /\ h.kind = "bak" /\ h = [kind |-> "bak", msg |-> h.msg]
     /\ Awaited(h.msg) /\ h.msg.src = p
  \/ h = [kind |-> "done"]

HasMessage(p) == hsl[p][DataType].kind \in {"out", "bak"}

\* An operation is in one place: a message, or the handler of a message.
OnePlace ==
  /\ \A m, n \in net : m.src = n.src => m = n
  /\ \A m \in net, p \in PE : HasMessage(p) => hsl[p][DataType].msg.src # m.src
  /\ \A p, q \in PE :
       HasMessage(p) /\ HasMessage(q) /\ hsl[p][DataType].msg.src = hsl[q][DataType].msg.src => p = q

IInv ==
  /\ TypeOK
  /\ \A m \in net : Awaited(m)
  /\ \A p \in PE : LockedBy(p)
  /\ \A p \in PE, t \in (Whole \cup Floating) \ {DataType} : hsl[p][t] = NoHandler
  /\ OnePlace
  /\ \A p \in PE : args[p] = NoCall => payload[p] = NoPayload

Applied ==
  {p \in PE : args[p] # NoCall /\ ~Requesting(p) /\ (args[p].op = "wait" => payload[p].completed = 1)}

ResultOf(p) ==
  IF p \notin Applied \/ args[p].op \notin Fetching THEN Void
  ELSE IF \E m \in net : m.kind = "bak" /\ m.src = p
       THEN (CHOOSE m \in net : m.kind = "bak" /\ m.src = p).value
       ELSE payload[p].value

Memory == INSTANCE AtomicMemory WITH
  mem <- var,
  call <- args,
  applied <- Applied,
  result <- [p \in PE |-> ResultOf(p)]

\* The operations are atomic: each takes effect once, between its call and its
\* return, and a fetching one returns what was there just before, whatever
\* language its caller is written in; wait_until has seen what it waited for.
OperationsAreAtomic == Memory!Spec

\* And each one completes, whatever else is going on under the same lock; a
\* wait_until does when its comparison holds from some point on.
OperationsComplete == Memory!FairSpec

=============================================================================
