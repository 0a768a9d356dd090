---------------------------- MODULE AtomicMemory ----------------------------
(***************************************************************************)
(* What the remote atomic operations of OpenSHMEM promise (shmem.h, "These *)
(* routines perform an atomic ..."): between its call and its return, each *)
(* takes effect on the target at one instant, and the fetching ones return *)
(* the value the target had just before.  wait_until returns only when the *)
(* caller's own variable has compared as asked between call and return.    *)
(***************************************************************************)
EXTENDS Integers

CONSTANTS
  PE,           \* the callers
  Operation,    \* the calls they may make
  Width         \* width of the type in bits

VARIABLES
  mem,        \* the target variable on each PE
  call,       \* the operation each PE is in, or Idle
  applied,    \* the PEs whose operation has taken effect
  result,     \* what those operations will return
  ret         \* what each PE's last operation returned

vars == <<mem, call, applied, result, ret>>

Idle == [op |-> "none", type |-> "none", dst |-> 0, value |-> 0, cond |-> 0]
Void == -1

Value == 0 .. 2^Width - 1
Bit(v, i) == (v \div 2^i) % 2
Xor(v, w) ==
  CHOOSE x \in Value : \A i \in 0 .. Width - 1 : Bit(x, i) = (Bit(v, i) + Bit(w, i)) % 2

\* How a wait_until compares: values are two's complement.
Signed(v) == IF v >= 2^(Width - 1) THEN v - 2^Width ELSE v
Holds(cmp, v, w) ==
  LET a == Signed(v)
      b == Signed(w) IN
  CASE cmp = "eq" -> a = b [] cmp = "ne" -> a # b [] cmp = "gt" -> a > b
    [] cmp = "le" -> a <= b [] cmp = "lt" -> a < b [] cmp = "ge" -> a >= b

\* The value of the target after an operation, and what the caller is told.
After(c, old) ==
  CASE c.op \in {"swap", "set"} -> c.value
    [] c.op = "cswap" -> IF c.cond = old THEN c.value ELSE old
    [] c.op \in {"fadd", "add"} -> (old + c.value) % 2^Width
    [] c.op \in {"finc", "inc"} -> (old + 1) % 2^Width
    [] c.op = "xor" -> Xor(old, c.value)
    [] c.op \in {"fetch", "wait"} -> old

Told(c, old) == IF c.op \in {"swap", "cswap", "fadd", "finc", "fetch"} THEN old ELSE Void

Init ==
  /\ mem = [p \in PE |-> 0]
  /\ call = [p \in PE |-> Idle]
  /\ applied = {}
  /\ result = [p \in PE |-> Void]
  /\ ret = [p \in PE |-> Void]

Invoke(p) ==
  /\ call[p] = Idle
  /\ \E c \in Operation : call' = [call EXCEPT ![p] = c]
  /\ ret' = [ret EXCEPT ![p] = Void]
  /\ UNCHANGED <<mem, applied, result>>

Apply(p) ==
  /\ call[p] # Idle
  /\ p \notin applied
  /\ call[p].op = "wait" => Holds(call[p].cond, mem[p], call[p].value)
  /\ mem' = [mem EXCEPT ![call[p].dst] = After(call[p], @)]
  /\ result' = [result EXCEPT ![p] = Told(call[p], mem[call[p].dst])]
  /\ applied' = applied \cup {p}
  /\ UNCHANGED <<call, ret>>

Return(p) ==
  /\ p \in applied
  /\ ret' = [ret EXCEPT ![p] = result[p]]
  /\ call' = [call EXCEPT ![p] = Idle]
  /\ applied' = applied \ {p}
  /\ result' = [result EXCEPT ![p] = Void]
  /\ UNCHANGED mem

Next == \E p \in PE : Invoke(p) \/ Apply(p) \/ Return(p)

Spec == Init /\ [][Next]_vars

\* Every operation takes effect and returns.
FairSpec == Spec /\ \A p \in PE : WF_vars(Apply(p)) /\ WF_vars(Return(p))

=============================================================================
