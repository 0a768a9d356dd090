----------------------------- MODULE AmoProofs ------------------------------
(***************************************************************************)
(* The protocol of request, handlers and reply implements an atomic        *)
(* memory, and no handler touches a freed payload, for any number of PEs,  *)
(* any type the operations exist for, any width and any number of calls.   *)
(***************************************************************************)
EXTENDS Amo, TLAPS

-----------------------------------------------------------------------------
\* The calls: all are of the variable's type, whichever language they are
\* made in, which is why one lock on each PE guards the variable.

Types == Whole \cup Floating
Plain == {"swap", "cswap", "fadd", "finc", "add", "inc", "fetch", "set", "xor"}

\* The variable's type is one the operations exist for.
LEMMA TypeIsKnown == DataType \in Types
BY AmoAssumption DEF Types, Whole, Floating

\* Whatever a C program's headers let it call is of the variable's type.
LEMMA FromCOfType ==
  ASSUME NEW f \in DOMAIN Routines
  PROVE  FromC(f) \subseteq {DataType}
<1> DEFINE Same(family) == \A u \in DOMAIN family.generic.to : family.generic.to[u] = u
<1> USE DEF Header!None, Header!ByObject, Header!Associations
<1>1. Same(Header!shmem_h[f])
  BY DEF Routines, Header!shmem_h, Header!generic_swap, Header!generic_cswap, Header!generic_fadd,
         Header!generic_finc, Header!generic_add, Header!generic_inc, Header!generic_fetch,
         Header!generic_set, Header!generic_wait_until, Header!generic_wait
<1>2. Same(Header!pshmem_h[f])
  BY DEF Routines, Header!pshmem_h, Header!pgeneric_swap, Header!pgeneric_cswap, Header!pgeneric_fadd,
         Header!pgeneric_finc, Header!pgeneric_add, Header!pgeneric_inc, Header!pgeneric_fetch,
         Header!pgeneric_set, Header!pgeneric_wait_until, Header!pgeneric_wait
<1>3. ASSUME NEW family, Same(family) PROVE Header!Callable(family, DataType) \subseteq {DataType}
  BY <1>3 DEF Header!Callable, Header!Selected
<1> QED  BY <1>1, <1>2, <1>3 DEF FromC

\* So is the routine that a Fortran program calls.
LEMMA FromFortranOfType ==
  ASSUME NEW f \in DOMAIN Routines, DataType \in {"int", "long", "float", "double"}
  PROVE  FromFortran(f) \subseteq {DataType}
<1> DEFINE type == [int4 |-> "int", int8 |-> "long", real4 |-> "float", real8 |-> "double"]
           table == Routines[f].fortran
<1>1. FortranName[DataType] \in DOMAIN type /\ type[FortranName[DataType]] = DataType
  BY DEF FortranName
<1>2. \A t \in DOMAIN type \cap DOMAIN table : table[t] = type[t]
  BY DEF Routines, fortran_swap, fortran_cswap, fortran_fadd, fortran_finc, fortran_add, fortran_inc,
         fortran_fetch, fortran_set, fortran_xor, fortran_wait_until, fortran_wait
<1> QED  BY <1>1, <1>2 DEF FromFortran

\* And what a program calls, in whichever language it is.
LEMMA RoutineOfType ==
  ASSUME NEW p \in PE, NEW f \in DOMAIN Routines
  PROVE  Routine(p, f) \subseteq {DataType}
<1>1. p \in InFortran => DataType \in {"int", "long", "float", "double"}  BY AmoAssumption
<1> QED  BY <1>1, FromCOfType, FromFortranOfType DEF Routine

\* What a request is: to some PE, of the variable's type, and not a wait.
LEMMA RequestFacts ==
  ASSUME NEW p \in PE, NEW c \in RequestOf(p)
  PROVE  /\ c.op \in Plain /\ c.type = DataType /\ c.dst \in PE
         /\ c \in Operation /\ c # NoCall
<1>1. c.op \in Plain /\ c.dst \in Target
  BY DEF RequestOf, SwapCall, CSwapCall, FaddCall, FincCall, AddCall, IncCall, FetchCall, SetCall,
         XorCall, Call, Plain
<1>2. c.type = DataType
  <2>1. \A f \in {"swap", "cswap", "fadd", "finc", "add", "inc", "fetch", "set", "xor"} :
          Routine(p, f) \subseteq {DataType}
    BY RoutineOfType DEF Routines
  <2> QED
    BY <2>1 DEF RequestOf, SwapCall, CSwapCall, FaddCall, FincCall, AddCall, IncCall, FetchCall, SetCall,
                XorCall, Call
<1>3. c \in Operation  BY DEF Operation
<1>4. c # NoCall  BY <1>1 DEF NoCall, Plain
<1>5. c.dst \in PE  BY <1>1, AmoAssumption
<1> QED  BY <1>1, <1>2, <1>3, <1>4, <1>5

\* What a wait_until is: on the caller's own variable.
LEMMA WaitFacts ==
  ASSUME NEW p \in PE, NEW c \in WaitCall(p)
  PROVE  c.op = "wait" /\ c.dst = p /\ c \in Operation /\ c # NoCall
<1>1. c.op = "wait" /\ c.dst = p  BY DEF WaitCall, Call
<1>2. c # NoCall  BY <1>1 DEF NoCall
<1> QED  BY <1>1, <1>2 DEF Operation

\* No call is neither.
LEMMA IdleFacts == NoCall.op = "none"
BY DEF NoCall

\* What the handlers leave in the target is what the operation means, and a
\* wait_until ends when its comparison holds.
LEMMA UpdateIsAfter ==
  ASSUME NEW c, NEW old, c.op \in Plain
  PROVE  Update(c, old) = Memory!After(c, old)
BY DEF Plain, Update, Memory!After, SwapOut, CSwapOut, FaddOut, FincOut, AddOut, IncOut, FetchOut,
       SetOut, XorOut, Xor, Memory!Xor, Value, Memory!Value, Bit, Memory!Bit

\* The comparisons of wait_until are those of its meaning.
LEMMA ComparesHolds ==
  ASSUME NEW cmp, NEW v, NEW w, Compares(cmp, v, w)
  PROVE  Memory!Holds(cmp, v, w)
BY DEF Compares, Memory!Holds, Signed, Memory!Signed

-----------------------------------------------------------------------------
\* How a step changes one lock, one call, one payload.

LEMMA LockSet ==
  ASSUME TypeOK, NEW d \in PE, NEW x, hsl' = [hsl EXCEPT ![d][DataType] = x]
  PROVE  /\ DOMAIN hsl' = PE /\ \A p \in PE : hsl'[p] = [t \in Types |-> hsl'[p][t]]
         /\ hsl'[d][DataType] = x
         /\ \A p \in PE : p # d => hsl'[p][DataType] = hsl[p][DataType]
         /\ \A p \in PE, t \in Types \ {DataType} : hsl'[p][t] = hsl[p][t]
<1>1. DOMAIN hsl = PE /\ \A p \in PE : hsl[p] = [t \in Types |-> hsl[p][t]]  BY DEF TypeOK, Types
<1>2. hsl' = [hsl EXCEPT ![d] = [hsl[d] EXCEPT ![DataType] = x]]  OBVIOUS
<1>3. hsl'[d] = [hsl[d] EXCEPT ![DataType] = x]  BY <1>1, <1>2
<1>4. DOMAIN hsl[d] = Types  BY <1>1
<1>5. hsl'[d] = [t \in Types |-> IF t = DataType THEN x ELSE hsl[d][t]]  BY <1>3, <1>4
<1>6. \A p \in PE : p # d => hsl'[p] = hsl[p]  BY <1>1, <1>2
<1>7. hsl'[d][DataType] = x  BY <1>5, TypeIsKnown
<1>8. \A t \in Types \ {DataType} : hsl'[d][t] = hsl[d][t]  BY <1>5
<1>9. hsl'[d] = [t \in Types |-> hsl'[d][t]]  BY <1>5
<1>10. DOMAIN hsl' = PE  BY <1>1, <1>2
<1> QED  BY <1>1, <1>6, <1>7, <1>8, <1>9, <1>10

\* A message stays what it was while its sender's call and flag do.
LEMMA StillAwaited ==
  ASSUME NEW m, Awaited(m), args'[m.src] = args[m.src],
         payload'[m.src].completed = payload[m.src].completed
  PROVE  Awaited(m)'
BY DEF Awaited

\* Nor does the handler that holds a lock change.
LEMMA StillLocked ==
  ASSUME NEW p \in PE, LockedBy(p), hsl'[p][DataType] = hsl[p][DataType],
         HasMessage(p) =>
           /\ var'[p] = var[p]
           /\ args'[hsl[p][DataType].msg.src] = args[hsl[p][DataType].msg.src]
           /\ payload'[hsl[p][DataType].msg.src].completed
                = payload[hsl[p][DataType].msg.src].completed
  PROVE  LockedBy(p)' /\ (HasMessage(p)' <=> HasMessage(p))
<1> DEFINE h == hsl[p][DataType]
<1>1. HasMessage(p)' <=> HasMessage(p)  BY DEF HasMessage
<1>2. CASE h = NoHandler \/ h = [kind |-> "done"]  BY <1>2, <1>1 DEF LockedBy
<1>3. CASE h.kind \in {"out", "bak"}
  <2>1. HasMessage(p) /\ Awaited(h.msg)  BY <1>3 DEF HasMessage, LockedBy, NoHandler
  <2>2. Awaited(h.msg)'  BY <2>1, StillAwaited
  <2> QED  BY <2>1, <2>2, <1>1 DEF LockedBy
<1>4. h = NoHandler \/ h = [kind |-> "done"] \/ h.kind \in {"out", "bak"}  BY DEF LockedBy
<1> QED  BY <1>2, <1>3, <1>4

\* A PE between calls has no message anywhere, nor has one in a wait_until or
\* whose flag is set.
LEMMA NoMessage ==
  ASSUME IInv, NEW p \in PE, args[p] \notin RequestOf(p) \/ payload[p].completed # 0
  PROVE  /\ \A m \in net : m.src # p
         /\ \A q \in PE : HasMessage(q) => hsl[q][DataType].msg.src # p
<1>1. \A m : Awaited(m) => m.src # p  BY DEF Awaited
<1>2. ASSUME NEW q \in PE, HasMessage(q) PROVE Awaited(hsl[q][DataType].msg)
  <2>1. LockedBy(q)  BY DEF IInv
  <2> QED  BY <1>2, <2>1 DEF LockedBy, HasMessage, NoHandler
<1> QED  BY <1>1, <1>2 DEF IInv

\* In particular a PE that is in no call or in a wait_until.
LEMMA IdleHasNoCall ==
  ASSUME NEW p \in PE, NEW c, c = NoCall \/ c \in WaitCall(p)
  PROVE  c \notin RequestOf(p)
BY RequestFacts, WaitFacts, IdleFacts DEF Plain

-----------------------------------------------------------------------------
\* The inductive invariant.

\* It holds at the start.
LEMMA InitIInv == Init => IInv
<1> SUFFICES ASSUME Init PROVE IInv  OBVIOUS
<1>1. TypeOK
  <2>1. \A p \in PE : hsl[p] = [t \in Whole \cup Floating |-> hsl[p][t]]  BY DEF Init
  <2>2. \A p \in PE : payload[p] = [value |-> payload[p].value, completed |-> payload[p].completed]
    BY DEF Init, NoPayload
  <2> QED  BY <2>1, <2>2 DEF TypeOK, Init
<1>2. \A p \in PE, t \in Types : hsl[p][t] = NoHandler  BY DEF Init, Types
<1>3. \A p \in PE : LockedBy(p) /\ ~HasMessage(p)
  <2>1. \A p \in PE : hsl[p][DataType] = NoHandler  BY <1>2, TypeIsKnown
  <2>2. NoHandler.kind = "none"  BY DEF NoHandler
  <2>3. \A p \in PE : LockedBy(p)  BY <2>1 DEF LockedBy
  <2>4. \A p \in PE : ~HasMessage(p)  BY <2>1, <2>2 DEF HasMessage
  <2> QED  BY <2>3, <2>4
<1>4. OnePlace  BY <1>3 DEF Init, OnePlace
<1> QED  BY <1>1, <1>2, <1>3, <1>4 DEF Init, IInv, Types

\* A PE that is in no call makes one.
LEMMA RequestKeeps == ASSUME IInv, NEW p \in PE, Request(p) PROVE IInv'
<1>1. PICK c \in RequestOf(p) :
        /\ args' = [args EXCEPT ![p] = c]
        /\ payload' = [payload EXCEPT ![p] = [value |-> c.value, completed |-> 0]]
        /\ net' = net \cup {[kind |-> "out", src |-> p, call |-> c, value |-> c.value]}
  BY DEF Request
<1> DEFINE sent == [kind |-> "out", src |-> p, call |-> c, value |-> c.value]
<1>2. /\ args[p] = NoCall /\ UNCHANGED <<var, hsl>>
      /\ ret' = [ret EXCEPT ![p] = Void] /\ ops' = [ops EXCEPT ![p] = @ + 1]
  BY DEF Request
<1>3. TypeOK  BY DEF IInv
<1>4. /\ args'[p] = c /\ payload'[p] = [value |-> c.value, completed |-> 0]
      /\ \A q \in PE : q # p => args'[q] = args[q] /\ payload'[q] = payload[q]
  BY <1>1, <1>3 DEF TypeOK
<1>5. /\ \A m \in net : m.src # p
      /\ \A q \in PE : HasMessage(q) => hsl[q][DataType].msg.src # p
  BY <1>2, NoMessage, IdleHasNoCall
<1>6. TypeOK'
  <2>1. \A q \in PE : args'[q] \in RequestOf(q) \cup WaitCall(q) \cup {NoCall}  BY <1>3, <1>4 DEF TypeOK
  <2>2. \A q \in PE : payload'[q] = [value |-> payload'[q].value, completed |-> payload'[q].completed]
    BY <1>3, <1>4 DEF TypeOK
  <2>3. \A m \in net' : m.kind \in {"out", "bak"}  BY <1>1, <1>3 DEF TypeOK
  <2>4. DOMAIN args' = PE /\ DOMAIN payload' = PE /\ DOMAIN ret' = PE /\ ops' \in [PE -> Nat]
    BY <1>1, <1>2, <1>3 DEF TypeOK
  <2>5. /\ var' = [q \in PE |-> var'[q]]
        /\ DOMAIN hsl' = PE /\ \A q \in PE : hsl'[q] = [t \in Whole \cup Floating |-> hsl'[q][t]]
    BY <1>2, <1>3 DEF TypeOK
  <2> QED  BY <2>1, <2>2, <2>3, <2>4, <2>5 DEF TypeOK
<1>7. \A m \in net' : Awaited(m)'
  <2>1. ASSUME NEW m \in net PROVE Awaited(m)'
    <3>1. Awaited(m) /\ m.src \in PE /\ m.src # p  BY <1>5 DEF IInv, Awaited
    <3> QED  BY <3>1, <1>4, StillAwaited
  <2>2. Awaited(sent)'  BY <1>4 DEF Awaited
  <2> QED  BY <1>1, <2>1, <2>2
<1>8. \A q \in PE : LockedBy(q)' /\ (HasMessage(q)' <=> HasMessage(q))
  <2> SUFFICES ASSUME NEW q \in PE PROVE LockedBy(q)' /\ (HasMessage(q)' <=> HasMessage(q))  OBVIOUS
  <2>1. LockedBy(q)  BY DEF IInv
  <2>2. HasMessage(q) => hsl[q][DataType].msg.src \in PE \ {p}
    BY <2>1, <1>5 DEF LockedBy, HasMessage, NoHandler, Awaited
  <2> QED  BY <2>1, <2>2, <1>2, <1>4, StillLocked
<1>9. OnePlace'
  BY <1>1, <1>2, <1>5, <1>8 DEF IInv, OnePlace
<1>10. \A q \in PE : args'[q] = NoCall => payload'[q] = NoPayload
  BY <1>4, RequestFacts DEF IInv
<1> QED  BY <1>2, <1>6, <1>7, <1>8, <1>9, <1>10 DEF IInv

\* Steps that touch no message: a wait_until begins or sees, a call returns.
LEMMA OwnStepKeeps ==
  ASSUME IInv, NEW p \in PE, WaitUntil(p) \/ WaitSees(p) \/ Return(p)
  PROVE  IInv'
<1>1. TypeOK  BY DEF IInv
<1>2. UNCHANGED <<var, hsl, net>>  BY DEF WaitUntil, WaitSees, Return
<1>3. \A q \in PE : q # p => args'[q] = args[q] /\ payload'[q] = payload[q]
  BY <1>1 DEF TypeOK, WaitUntil, WaitSees, Return
<1>4. /\ DOMAIN args' = PE /\ DOMAIN payload' = PE /\ DOMAIN ret' = PE /\ ops' \in [PE -> Nat]
      /\ args'[p] \in RequestOf(p) \cup WaitCall(p) \cup {NoCall}
      /\ payload'[p] = [value |-> payload'[p].value, completed |-> payload'[p].completed]
      /\ args'[p] = NoCall => payload'[p] = NoPayload
  <2>1. CASE WaitUntil(p)
    <3>1. PICK c \in WaitCall(p) : args' = [args EXCEPT ![p] = c]  BY <2>1 DEF WaitUntil
    <3>2. args'[p] = c /\ c # NoCall  BY <1>1, <3>1, WaitFacts DEF TypeOK
    <3> QED  BY <1>1, <2>1, <3>1, <3>2 DEF TypeOK, WaitUntil
  <2>2. CASE WaitSees(p)
    <3>1. args[p] # NoCall  BY <2>2, IdleFacts DEF WaitSees
    <3>2. payload'[p] = [value |-> payload[p].value, completed |-> 1]
      BY <1>1, <2>2 DEF TypeOK, WaitSees
    <3> QED  BY <1>1, <2>2, <3>1, <3>2 DEF TypeOK, WaitSees
  <2>3. CASE Return(p)  BY <1>1, <2>3 DEF TypeOK, Return, NoPayload
  <2> QED  BY <2>1, <2>2, <2>3
<1>5. TypeOK'
  <2>1. \A q \in PE : /\ args'[q] \in RequestOf(q) \cup WaitCall(q) \cup {NoCall}
                      /\ payload'[q] = [value |-> payload'[q].value, completed |-> payload'[q].completed]
    BY <1>1, <1>3, <1>4 DEF TypeOK
  <2> QED  BY <1>1, <1>2, <1>4, <2>1 DEF TypeOK
<1>6. args[p] \notin RequestOf(p) \/ payload[p].completed # 0
  <2>1. CASE WaitUntil(p)  BY <2>1, IdleHasNoCall DEF WaitUntil
  <2>2. CASE WaitSees(p)
    BY <2>2, RequestFacts DEF WaitSees, Plain
  <2>3. CASE Return(p)  BY <2>3 DEF Return
  <2> QED  BY <2>1, <2>2, <2>3
<1>7. /\ \A m \in net : m.src # p
      /\ \A q \in PE : HasMessage(q) => hsl[q][DataType].msg.src # p
  BY <1>6, NoMessage
<1>8. \A m \in net' : Awaited(m)'
  <2> SUFFICES ASSUME NEW m \in net PROVE Awaited(m)'  BY <1>2
  <2>1. Awaited(m) /\ m.src \in PE /\ m.src # p  BY <1>7 DEF IInv, Awaited
  <2> QED  BY <2>1, <1>3, StillAwaited
<1>9. \A q \in PE : LockedBy(q)' /\ (HasMessage(q)' <=> HasMessage(q))
  <2> SUFFICES ASSUME NEW q \in PE PROVE LockedBy(q)' /\ (HasMessage(q)' <=> HasMessage(q))  OBVIOUS
  <2>1. LockedBy(q)  BY DEF IInv
  <2>2. HasMessage(q) => hsl[q][DataType].msg.src \in PE \ {p}
    BY <2>1, <1>7 DEF LockedBy, HasMessage, NoHandler, Awaited
  <2> QED  BY <2>1, <2>2, <1>2, <1>3, StillLocked
<1>10. OnePlace'  BY <1>2, <1>9 DEF IInv, OnePlace
<1>11. \A q \in PE : args'[q] = NoCall => payload'[q] = NoPayload  BY <1>3, <1>4 DEF IInv
<1> QED  BY <1>2, <1>5, <1>8, <1>9, <1>10, <1>11 DEF IInv

\* A lock that is free, or that a handler without a message holds.
LEMMA FreeLock ==
  ASSUME NEW p \in PE, hsl[p][DataType] \in {NoHandler, [kind |-> "done"]}
  PROVE  LockedBy(p) /\ ~HasMessage(p)
<1>1. NoHandler.kind = "none" /\ [kind |-> "done"].kind = "done"  BY DEF NoHandler
<1> QED  BY <1>1 DEF LockedBy, HasMessage

\* A handler takes a message, unless it finds the lock taken: the operation
\* moves from the network into the lock.
LEMMA TakesKeeps ==
  ASSUME IInv, NEW m \in net, NEW d \in PE, NEW h,
         hsl[d][DataType] = NoHandler, hsl' = [hsl EXCEPT ![d][DataType] = h], net' = net \ {m},
         UNCHANGED <<var, args, ret, ops>>,
         DOMAIN payload' = PE,
         \A p \in PE : /\ payload'[p] = [value |-> payload'[p].value, completed |-> payload'[p].completed]
                       /\ payload'[p].completed = payload[p].completed
                       /\ p # m.src => payload'[p] = payload[p],
         h.msg = m,
         \/ m.kind = "out" /\ h = [kind |-> "out", msg |-> m, old |-> var[d]] /\ m.call.dst = d
         \/ h = [kind |-> "bak", msg |-> m] /\ m.src = d
  PROVE  IInv'
<1>1. TypeOK /\ OnePlace /\ Awaited(m)  BY DEF IInv
<1>2. /\ DOMAIN hsl' = PE /\ \A p \in PE : hsl'[p] = [t \in Types |-> hsl'[p][t]]
      /\ hsl'[d][DataType] = h
      /\ \A p \in PE : p # d => hsl'[p][DataType] = hsl[p][DataType]
      /\ \A p \in PE, t \in Types \ {DataType} : hsl'[p][t] = hsl[p][t]
  BY <1>1, LockSet
<1>3. h.kind \in {"out", "bak"}  OBVIOUS
<1>4. ~HasMessage(d) /\ HasMessage(d)'  BY <1>2, <1>3, FreeLock DEF HasMessage
<1>5. TypeOK'  BY <1>1, <1>2 DEF TypeOK, Types
<1>6. \A n : Awaited(n) => Awaited(n)'  BY DEF Awaited
<1>7. \A n \in net' : Awaited(n)'  BY <1>6 DEF IInv
<1>8. LockedBy(d)'  BY <1>1, <1>2, <1>6 DEF LockedBy
<1>9. \A p \in PE : p # d => LockedBy(p)' /\ (HasMessage(p)' <=> HasMessage(p))
  <2> SUFFICES ASSUME NEW p \in PE, p # d PROVE LockedBy(p)' /\ (HasMessage(p)' <=> HasMessage(p))
    OBVIOUS
  <2>1. LockedBy(p)  BY DEF IInv
  <2>2. HasMessage(p) => hsl[p][DataType].msg.src \in PE
    BY <2>1 DEF LockedBy, HasMessage, NoHandler, Awaited
  <2> QED  BY <2>1, <2>2, <1>2, StillLocked
<1>10. OnePlace'
  <2>1. \A n \in net', p \in PE : HasMessage(p)' => hsl'[p][DataType].msg.src # n.src
    BY <1>1, <1>2, <1>9 DEF OnePlace
  <2>2. \A p, q \in PE : HasMessage(p)' /\ HasMessage(q)'
             /\ hsl'[p][DataType].msg.src = hsl'[q][DataType].msg.src => p = q
    BY <1>1, <1>2, <1>9 DEF OnePlace
  <2> QED  BY <1>1, <2>1, <2>2 DEF OnePlace
<1>11. \A p \in PE : args'[p] = NoCall => payload'[p] = NoPayload
  <2>1. args[m.src] # NoCall  BY <1>1, IdleHasNoCall DEF Awaited
  <2> QED  BY <2>1 DEF IInv
<1>12. \A p \in PE, t \in (Whole \cup Floating) \ {DataType} : hsl'[p][t] = NoHandler
  BY <1>2 DEF IInv, Types
<1> QED  BY <1>5, <1>7, <1>8, <1>9, <1>10, <1>11, <1>12 DEF IInv

\* The type a message names is that of the variable.
LEMMA MessageFacts ==
  ASSUME IInv, NEW m, Awaited(m)
  PROVE  /\ m.src \in PE /\ m.call = args[m.src] /\ m.call \in RequestOf(m.src)
         /\ m.call.type = DataType /\ m.call.dst \in PE /\ m.call.op \in Plain
<1>1. m.src \in PE /\ m.call = args[m.src] /\ m.call \in RequestOf(m.src)  BY DEF Awaited
<1> QED  BY <1>1, RequestFacts

\* The out handler takes the request and reads the variable.
LEMMA OutLoadKeeps == ASSUME IInv, NEW m \in net, OutLoad(m) PROVE IInv'
<1> DEFINE d == m.call.dst
           h == [kind |-> "out", msg |-> m, old |-> var[d]]
<1>1. Awaited(m) /\ TypeOK  BY DEF IInv
<1>2. d \in PE /\ m.call.type = DataType  BY <1>1, MessageFacts
<1>3. /\ m.kind = "out" /\ hsl[d][DataType] = NoHandler
      /\ hsl' = [hsl EXCEPT ![d][DataType] = h]
      /\ net' = net \ {m} /\ UNCHANGED <<var, args, payload, ret, ops>>
  BY <1>2 DEF OutLoad
<1>4. /\ DOMAIN payload' = PE
      /\ \A p \in PE : payload'[p] = [value |-> payload'[p].value, completed |-> payload'[p].completed]
  BY <1>1, <1>3 DEF TypeOK
<1>5. h.msg = m  OBVIOUS
<1> HIDE DEF d
<1> QED  BY <1>2, <1>3, <1>4, <1>5, TakesKeeps DEF d

\* The bak handler takes the reply and writes the value.
LEMMA BakValueKeeps == ASSUME IInv, NEW m \in net, BakValue(m) PROVE IInv'
<1> DEFINE d == m.src
           h == [kind |-> "bak", msg |-> m]
<1>1. Awaited(m) /\ TypeOK  BY DEF IInv
<1>2. d \in PE /\ m.call.type = DataType  BY <1>1, MessageFacts
<1>3. /\ m.kind = "bak" /\ hsl[d][DataType] = NoHandler
      /\ hsl' = [hsl EXCEPT ![d][DataType] = h]
      /\ net' = net \ {m} /\ UNCHANGED <<var, args, ret, ops>>
      /\ payload' = [payload EXCEPT ![d].value = IF m.call.op \in CopiedBack THEN m.value ELSE @]
  BY <1>2 DEF BakValue
<1>4. /\ DOMAIN payload' = PE
      /\ \A p \in PE : /\ payload'[p] = [value |-> payload'[p].value, completed |-> payload'[p].completed]
                       /\ payload'[p].completed = payload[p].completed
                       /\ p # d => payload'[p] = payload[p]
  BY <1>1, <1>2, <1>3 DEF TypeOK
<1>5. h.msg = m /\ h = [kind |-> "bak", msg |-> m] /\ m.src = d  OBVIOUS
<1> HIDE DEF d, h
<1> QED  BY <1>2, <1>3, <1>4, <1>5, TakesKeeps

\* The record a reply is.
LEMMA ReplyRecord ==
  ASSUME NEW m, NEW a, NEW v,
         m = [kind |-> m.kind, src |-> m.src, call |-> a, value |-> m.value]
  PROVE  [m EXCEPT !.kind = "bak", !.value = v]
           = [kind |-> "bak", src |-> m.src, call |-> a, value |-> v]
<1>1. PICK n : n = [m EXCEPT !.kind = "bak"]  OBVIOUS
<1>2. DOMAIN m = {"kind", "src", "call", "value"} /\ m.call = a  OBVIOUS
<1>3. n = [f \in {"kind", "src", "call", "value"} |-> IF f = "kind" THEN "bak" ELSE m[f]]
  BY <1>1, <1>2
<1>4. n.kind = "bak" /\ n.src = m.src /\ n.call = a /\ n.value = m.value  BY <1>2, <1>3
<1>5. n = [kind |-> "bak", src |-> m.src, call |-> a, value |-> m.value]  BY <1>3, <1>4
<1>6. [n EXCEPT !.value = v] = [kind |-> "bak", src |-> m.src, call |-> a, value |-> v]  BY <1>5
<1>7. [m EXCEPT !.kind = "bak", !.value = v] = [n EXCEPT !.value = v]  BY <1>1
<1> QED  BY <1>6, <1>7

\* The out handler writes and replies: the operation moves back to the network.
\* The lock it holds is that of every message to this variable, so that what
\* others have read of it stays what is there.
LEMMA OutStoreKeeps == ASSUME IInv, NEW p \in PE, OutStore(p, DataType) PROVE IInv'
<1> DEFINE h == hsl[p][DataType]
           m == h.msg
           v == IF m.call.op \in Fetching THEN h.old ELSE m.value
<1>1. TypeOK /\ OnePlace /\ LockedBy(p)  BY DEF IInv
<1>2. /\ h.kind = "out" /\ var' = [var EXCEPT ![p] = Update(h.msg.call, h.old)]
      /\ net' = net \cup {[h.msg EXCEPT !.kind = "bak",
                                       !.value = IF h.msg.call.op \in Fetching THEN h.old ELSE @]}
      /\ hsl' = [hsl EXCEPT ![p][DataType] = NoHandler]
      /\ UNCHANGED <<args, payload, ret, ops>>
  BY DEF OutStore
<1>3. HasMessage(p) /\ Awaited(h.msg)  BY <1>1, <1>2 DEF LockedBy, HasMessage, NoHandler
<1>4. PICK src, reply :
        /\ src = m.src
        /\ reply = [kind |-> "bak", src |-> src, call |-> args[src], value |-> v]
        /\ net' = net \cup {reply}
  <2>1. m = [kind |-> m.kind, src |-> m.src, call |-> args[m.src], value |-> m.value]
    BY <1>3 DEF Awaited
  <2>2. [m EXCEPT !.kind = "bak", !.value = v]
          = [kind |-> "bak", src |-> m.src, call |-> args[m.src], value |-> v]
    <3> HIDE DEF m, v
    <3> QED  BY <2>1, ReplyRecord
  <2> QED  BY <1>2, <2>2
<1>5. /\ DOMAIN hsl' = PE /\ \A q \in PE : hsl'[q] = [t \in Types |-> hsl'[q][t]]
      /\ hsl'[p][DataType] = NoHandler
      /\ \A q \in PE : q # p => hsl'[q][DataType] = hsl[q][DataType]
      /\ \A q \in PE, t \in Types \ {DataType} : hsl'[q][t] = hsl[q][t]
  BY <1>1, <1>2, LockSet
<1>6. reply.kind = "bak" /\ reply.src = src  BY <1>4
<1>7. Awaited(reply)' /\ \A n : Awaited(n) => Awaited(n)'
  <2>1. \A n : Awaited(n) => Awaited(n)'  BY <1>2 DEF Awaited
  <2>2. src \in PE /\ args[src] \in RequestOf(src) /\ payload[src].completed = 0
    BY <1>3, <1>4 DEF Awaited
  <2>3. Awaited(reply)  BY <1>4, <2>2 DEF Awaited
  <2> QED  BY <2>1, <2>3
<1>8. TypeOK'
  <2>1. var' = [q \in PE |-> var'[q]]  BY <1>1, <1>2 DEF TypeOK
  <2>2. \A n \in net' : n.kind \in {"out", "bak"}  BY <1>1, <1>4, <1>6 DEF TypeOK
  <2>3. DOMAIN hsl' = PE /\ \A q \in PE : hsl'[q] = [t \in Whole \cup Floating |-> hsl'[q][t]]
    BY <1>5 DEF Types
  <2>4. /\ DOMAIN args' = PE /\ DOMAIN payload' = PE /\ DOMAIN ret' = PE /\ ops' \in [PE -> Nat]
        /\ \A q \in PE : /\ args'[q] \in RequestOf(q) \cup WaitCall(q) \cup {NoCall}
                         /\ payload'[q] = [value |-> payload'[q].value,
                                           completed |-> payload'[q].completed]
    BY <1>1, <1>2 DEF TypeOK
  <2> QED  BY <2>1, <2>2, <2>3, <2>4 DEF TypeOK
<1>9. \A n \in net' : Awaited(n)'  BY <1>4, <1>7 DEF IInv
<1>10. LockedBy(p)' /\ ~HasMessage(p)'
  <2>1. NoHandler.kind = "none"  BY DEF NoHandler
  <2> QED  BY <1>5, <2>1 DEF LockedBy, HasMessage
<1>11. \A q \in PE : q # p => LockedBy(q)' /\ (HasMessage(q)' <=> HasMessage(q))
  <2> SUFFICES ASSUME NEW q \in PE, q # p PROVE LockedBy(q)' /\ (HasMessage(q)' <=> HasMessage(q))
    OBVIOUS
  <2>1. LockedBy(q) /\ var'[q] = var[q]  BY <1>1, <1>2 DEF IInv, TypeOK
  <2> QED  BY <2>1, <1>2, <1>5, StillLocked
<1>12. OnePlace'
  <2>1. \A n \in net : n.src # src  BY <1>1, <1>3, <1>4 DEF OnePlace
  <2>2. \A q \in PE : q # p /\ HasMessage(q) => hsl[q][DataType].msg.src # src
    BY <1>1, <1>3, <1>4 DEF OnePlace
  <2>3. \A n, o \in net' : n.src = o.src => n = o  BY <1>1, <1>4, <1>6, <2>1 DEF OnePlace
  <2>4. \A n \in net', q \in PE : HasMessage(q)' => hsl'[q][DataType].msg.src # n.src
    BY <1>1, <1>4, <1>5, <1>6, <1>10, <1>11, <2>2 DEF OnePlace
  <2>5. \A q, r \in PE : HasMessage(q)' /\ HasMessage(r)'
             /\ hsl'[q][DataType].msg.src = hsl'[r][DataType].msg.src => q = r
    BY <1>1, <1>5, <1>10, <1>11 DEF OnePlace
  <2> QED  BY <2>3, <2>4, <2>5 DEF OnePlace
<1>13. \A q \in PE, t \in (Whole \cup Floating) \ {DataType} : hsl'[q][t] = NoHandler
  BY <1>5 DEF IInv, Types
<1>14. \A q \in PE : args'[q] = NoCall => payload'[q] = NoPayload  BY <1>2 DEF IInv
<1> QED  BY <1>8, <1>9, <1>10, <1>11, <1>12, <1>13, <1>14 DEF IInv

\* The bak handler sets the flag, when the message is gone, and unlocks.
LEMMA BakFlagKeeps == ASSUME IInv, NEW p \in PE, BakFlag(p, DataType) PROVE IInv'
<1> DEFINE h == hsl[p][DataType]
<1>1. TypeOK /\ OnePlace /\ LockedBy(p)  BY DEF IInv
<1>2. /\ h.kind = "bak" /\ payload' = [payload EXCEPT ![p].completed = 1]
      /\ hsl' = [hsl EXCEPT ![p][DataType] = [kind |-> "done"]]
      /\ UNCHANGED <<var, net, args, ret, ops>>
  BY DEF BakFlag
<1>3. HasMessage(p) /\ Awaited(h.msg) /\ h.msg.src = p
  BY <1>1, <1>2 DEF LockedBy, HasMessage, NoHandler
<1>4. /\ DOMAIN hsl' = PE /\ \A q \in PE : hsl'[q] = [t \in Types |-> hsl'[q][t]]
      /\ hsl'[p][DataType] = [kind |-> "done"]
      /\ \A q \in PE : q # p => hsl'[q][DataType] = hsl[q][DataType]
      /\ \A q \in PE, t \in Types \ {DataType} : hsl'[q][t] = hsl[q][t]
  BY <1>1, <1>2, LockSet
<1>5. /\ DOMAIN payload' = PE
      /\ \A q \in PE : /\ payload'[q] = [value |-> payload'[q].value, completed |-> payload'[q].completed]
                       /\ q # p => payload'[q] = payload[q]
  BY <1>1, <1>2 DEF TypeOK
<1>6. TypeOK'  BY <1>1, <1>2, <1>4, <1>5 DEF TypeOK, Types
<1>7. \A n : Awaited(n) /\ n.src # p => Awaited(n)'  BY <1>2, <1>5 DEF Awaited
<1>8. \A n \in net : n.src # p  BY <1>1, <1>3 DEF OnePlace
<1>9. \A q \in PE : q # p /\ HasMessage(q) => hsl[q][DataType].msg.src # p
  BY <1>1, <1>3 DEF OnePlace
<1>10. \A n \in net' : Awaited(n)'  BY <1>2, <1>7, <1>8 DEF IInv
<1>11. LockedBy(p)' /\ ~HasMessage(p)'
  <2>1. [kind |-> "done"].kind = "done"  OBVIOUS
  <2> QED  BY <1>4, <2>1 DEF LockedBy, HasMessage
<1>12. \A q \in PE : q # p => LockedBy(q)' /\ (HasMessage(q)' <=> HasMessage(q))
  <2> SUFFICES ASSUME NEW q \in PE, q # p PROVE LockedBy(q)' /\ (HasMessage(q)' <=> HasMessage(q))
    OBVIOUS
  <2>1. LockedBy(q)  BY DEF IInv
  <2>2. HasMessage(q) => hsl[q][DataType].msg.src \in PE \ {p}
    BY <2>1, <1>9 DEF LockedBy, HasMessage, NoHandler, Awaited
  <2> QED  BY <2>1, <2>2, <1>2, <1>4, <1>5, StillLocked
<1>13. OnePlace'  BY <1>1, <1>2, <1>4, <1>11, <1>12 DEF OnePlace
<1>14. \A q \in PE, t \in (Whole \cup Floating) \ {DataType} : hsl'[q][t] = NoHandler
  BY <1>4 DEF IInv, Types
<1>15. \A q \in PE : args'[q] = NoCall => payload'[q] = NoPayload
  <2>1. args[p] # NoCall  BY <1>3, IdleHasNoCall DEF Awaited
  <2> QED  BY <2>1, <1>2, <1>5 DEF IInv
<1> QED  BY <1>6, <1>10, <1>11, <1>12, <1>13, <1>14, <1>15 DEF IInv

\* Unlocking leaves a lock that nobody holds.
LEMMA BakUnlockKeeps == ASSUME IInv, NEW p \in PE, BakUnlock(p, DataType) PROVE IInv'
<1>1. TypeOK /\ OnePlace  BY DEF IInv
<1>2. /\ hsl[p][DataType].kind = "done" /\ hsl' = [hsl EXCEPT ![p][DataType] = NoHandler]
      /\ UNCHANGED <<var, net, args, payload, ret, ops>>
  BY DEF BakUnlock
<1>3. ~HasMessage(p)  BY <1>2 DEF HasMessage
<1>4. /\ DOMAIN hsl' = PE /\ \A q \in PE : hsl'[q] = [t \in Types |-> hsl'[q][t]]
      /\ hsl'[p][DataType] = NoHandler
      /\ \A q \in PE : q # p => hsl'[q][DataType] = hsl[q][DataType]
      /\ \A q \in PE, t \in Types \ {DataType} : hsl'[q][t] = hsl[q][t]
  BY <1>1, <1>2, LockSet
<1>5. TypeOK'  BY <1>1, <1>2, <1>4 DEF TypeOK, Types
<1>6. \A n \in net' : Awaited(n)'  BY <1>2 DEF IInv, Awaited
<1>7. LockedBy(p)' /\ ~HasMessage(p)'
  <2>1. NoHandler.kind = "none"  BY DEF NoHandler
  <2> QED  BY <1>4, <2>1 DEF LockedBy, HasMessage
<1>8. \A q \in PE : q # p => LockedBy(q)' /\ (HasMessage(q)' <=> HasMessage(q))
  BY <1>2, <1>4, StillLocked DEF IInv
<1>9. OnePlace'  BY <1>1, <1>2, <1>4, <1>7, <1>8 DEF OnePlace
<1>10. \A q \in PE, t \in (Whole \cup Floating) \ {DataType} : hsl'[q][t] = NoHandler
  BY <1>4 DEF IInv, Types
<1>11. \A q \in PE : args'[q] = NoCall => payload'[q] = NoPayload  BY <1>2 DEF IInv
<1> QED  BY <1>5, <1>6, <1>7, <1>8, <1>9, <1>10, <1>11 DEF IInv

\* Handlers of other types have no lock.
LEMMA HandlerOfType ==
  ASSUME IInv, NEW p \in PE, Handler(p)
  PROVE  OutStore(p, DataType) \/ BakFlag(p, DataType) \/ BakUnlock(p, DataType)
<1>1. PICK t \in Types : OutStore(p, t) \/ BakFlag(p, t) \/ BakUnlock(p, t)  BY DEF Handler, Types
<1>2. hsl[p][t].kind # "none"  BY <1>1 DEF OutStore, BakFlag, BakUnlock
<1>3. NoHandler.kind = "none"  BY DEF NoHandler
<1>4. t = DataType  BY <1>2, <1>3 DEF IInv, Types
<1> QED  BY <1>1, <1>4

\* Every step keeps the invariant.
LEMMA NextIInv == ASSUME IInv, [Next]_vars PROVE IInv'
<1>1. ASSUME NEW p \in PE, Request(p) \/ Handler(p) \/ WaitUntil(p) \/ WaitSees(p) \/ Return(p)
      PROVE  IInv'
  BY <1>1, RequestKeeps, HandlerOfType, OutStoreKeeps, BakFlagKeeps, BakUnlockKeeps, OwnStepKeeps
<1>2. ASSUME NEW m \in net, Deliver(m) PROVE IInv'
  BY <1>2, OutLoadKeeps, BakValueKeeps DEF Deliver
<1>3. CASE UNCHANGED vars
  <2>1. UNCHANGED <<var, hsl, net, args, payload, ret, ops>>  BY <1>3 DEF vars
  <2>2. TypeOK'  BY <2>1 DEF IInv, TypeOK
  <2>3. \A n \in net' : Awaited(n)'  BY <2>1 DEF IInv, Awaited
  <2>4. \A p \in PE : LockedBy(p)' /\ (HasMessage(p)' <=> HasMessage(p))
    BY <2>1, StillLocked DEF IInv
  <2>5. OnePlace'  BY <2>1, <2>4 DEF IInv, OnePlace
  <2> QED  BY <2>1, <2>2, <2>3, <2>4, <2>5 DEF IInv
<1> QED  BY <1>1, <1>2, <1>3 DEF Next

-----------------------------------------------------------------------------
\* Where an operation is, in terms of the one lock there is.

LEMMA RequestingFacts ==
  ASSUME IInv, NEW p \in PE
  PROVE  /\ Requesting(p) <=> \/ \E m \in net : m.kind = "out" /\ m.src = p
                              \/ \E q \in PE : hsl[q][DataType].kind = "out" /\ hsl[q][DataType].msg.src = p
         /\ Replying(p) <=> \/ \E m \in net : m.kind = "bak" /\ m.src = p
                            \/ hsl[p][DataType].kind = "bak"
<1>1. NoHandler.kind = "none"  BY DEF NoHandler
<1>2. \A q \in PE, t \in Types : hsl[q][t].kind # "none" => t = DataType
  BY <1>1 DEF IInv, Types
<1>3. \A q \in PE, t \in Types : hsl[q][t].kind \in {"out", "bak"} => t = DataType  BY <1>2
<1> QED  BY <1>3, TypeIsKnown DEF Requesting, Replying, Types

\* The message a handler holds is awaited by its sender.
LEMMA HeldMessage ==
  ASSUME IInv, NEW q \in PE, hsl[q][DataType].kind \in {"out", "bak"}
  PROVE  /\ HasMessage(q) /\ Awaited(hsl[q][DataType].msg)
         /\ hsl[q][DataType].kind = "bak" => hsl[q][DataType].msg.src = q
         /\ hsl[q][DataType].kind = "out" =>
              /\ hsl[q][DataType].msg.kind = "out" /\ hsl[q][DataType].msg.call.dst = q
              /\ hsl[q][DataType].old = var[q]
<1>1. LockedBy(q)  BY DEF IInv
<1> QED  BY <1>1 DEF LockedBy, HasMessage, NoHandler

\* A payload is freed by its caller, when no handler has its message.
LEMMA IInvImplies == ASSUME IInv PROVE NoUseAfterFree
<1> SUFFICES ASSUME NEW p \in PE
             PROVE  /\ Requesting(p) \/ Replying(p) => args[p] # NoCall /\ payload[p].completed = 0
                    /\ ~(Requesting(p) /\ Replying(p))
                    /\ args[p] = NoCall => payload[p] = NoPayload
  BY DEF NoUseAfterFree
<1>1. \A q \in PE : hsl[q][DataType].kind \in {"out", "bak"} =>
        /\ HasMessage(q) /\ Awaited(hsl[q][DataType].msg)
        /\ hsl[q][DataType].kind = "bak" => hsl[q][DataType].msg.src = q
  BY HeldMessage
<1>2. \A m : Awaited(m) /\ m.src = p => args[p] # NoCall /\ payload[p].completed = 0
  BY IdleHasNoCall DEF Awaited
<1>3. Requesting(p) \/ Replying(p) => args[p] # NoCall /\ payload[p].completed = 0
  BY <1>1, <1>2, RequestingFacts DEF IInv
<1>4. ~(Requesting(p) /\ Replying(p))
  BY <1>1, RequestingFacts DEF IInv, OnePlace
<1> QED  BY <1>3, <1>4 DEF IInv

\* The invariant holds always.
THEOREM AmoInvariant == Spec => []IInv
BY InitIInv, NextIInv, PTL DEF Spec

\* No handler writes to a payload that its caller has freed, whatever order
\* requests and replies of all PEs are handled in.
THEOREM PayloadsFreedLast == Spec => []NoUseAfterFree
BY AmoInvariant, IInvImplies, PTL

-----------------------------------------------------------------------------
\* The refinement.  What the mapping says of a state, place by place: an
\* operation has taken effect when it is neither a request nor in an out
\* handler, and its result is in the reply or, when that is gone, in the payload.

Sent(p, kind) == \E m \in net : m.kind = kind /\ m.src = p
HeldOut(p) == \E q \in PE : hsl[q][DataType].kind = "out" /\ hsl[q][DataType].msg.src = p
Effective(p) ==
  /\ args[p] # NoCall /\ ~Sent(p, "out") /\ ~HeldOut(p)
  /\ args[p].op = "wait" => payload[p].completed = 1

View ==
  /\ \A p \in PE : p \in Applied <=> Effective(p)
  /\ \A p \in PE : ~Effective(p) \/ args[p].op \notin Fetching => ResultOf(p) = Void
  /\ \A p \in PE : Effective(p) /\ args[p].op \in Fetching =>
       /\ \A m \in net : m.kind = "bak" /\ m.src = p => ResultOf(p) = m.value
       /\ ~Sent(p, "bak") => ResultOf(p) = payload[p].value

\* The mapping is the view.
LEMMA ViewHolds == ASSUME IInv PROVE View
<1>1. \A p \in PE : p \in Applied <=> Effective(p)
  BY RequestingFacts DEF Applied, Effective, Sent, HeldOut
<1>2. ASSUME NEW p \in PE, ~Effective(p) \/ args[p].op \notin Fetching PROVE ResultOf(p) = Void
  BY <1>1, <1>2 DEF ResultOf
<1>3. ASSUME NEW p \in PE, Effective(p), args[p].op \in Fetching
      PROVE  /\ \A m \in net : m.kind = "bak" /\ m.src = p => ResultOf(p) = m.value
             /\ ~Sent(p, "bak") => ResultOf(p) = payload[p].value
  <2>1. p \in Applied  BY <1>1, <1>3
  <2>2. ~Sent(p, "bak") => ResultOf(p) = payload[p].value  BY <1>3, <2>1 DEF ResultOf, Sent
  <2>3. ASSUME NEW m \in net, m.kind = "bak", m.src = p PROVE ResultOf(p) = m.value
    <3>1. (CHOOSE n \in net : n.kind = "bak" /\ n.src = p) = m  BY <2>3 DEF IInv, OnePlace
    <3> QED  BY <1>3, <2>1, <2>3, <3>1 DEF ResultOf
  <2> QED  BY <2>2, <2>3
<1> QED  BY <1>1, <1>2, <1>3 DEF View

\* An operation of which neither the effect nor the reply nor the payload
\* changes has the same result.
LEMMA SameResult ==
  ASSUME View, View', NEW p \in PE, Effective(p)' <=> Effective(p), args'[p] = args[p],
         payload'[p].value = payload[p].value,
         \A m : m.kind = "bak" /\ m.src = p => (m \in net' <=> m \in net)
  PROVE  ResultOf(p)' = ResultOf(p)
<1>1. Sent(p, "bak")' <=> Sent(p, "bak")  BY DEF Sent
<1>2. CASE ~Effective(p) \/ args[p].op \notin Fetching  BY <1>2 DEF View
<1>3. CASE Effective(p) /\ args[p].op \in Fetching /\ Sent(p, "bak")
  <2>1. PICK m \in net : m.kind = "bak" /\ m.src = p  BY <1>3 DEF Sent
  <2>2. m \in net'  BY <2>1
  <2> QED  BY <1>3, <2>1, <2>2 DEF View
<1>4. CASE Effective(p) /\ args[p].op \in Fetching /\ ~Sent(p, "bak")
  BY <1>1, <1>4 DEF View
<1> QED  BY <1>2, <1>3, <1>4

\* So has every operation, if none changes.
LEMMA SameOfAll ==
  ASSUME View, View', \A p \in PE : (Effective(p)' <=> Effective(p)) /\ ResultOf(p)' = ResultOf(p)
  PROVE  Applied' = Applied /\ [p \in PE |-> ResultOf(p)]' = [p \in PE |-> ResultOf(p)]
<1>1. Applied \subseteq PE /\ Applied' \subseteq PE  BY DEF Applied
<1> QED  BY <1>1 DEF View

\* The initial states are those of the memory.
LEMMA InitRefines == Init => Memory!Init
<1> SUFFICES ASSUME Init PROVE Memory!Init  OBVIOUS
<1>1. Applied = {}  BY DEF Init, Applied
<1>2. \A p \in PE : ResultOf(p) = Void  BY <1>1 DEF ResultOf
<1> QED  BY <1>1, <1>2 DEF Init, Memory!Init, NoCall, Memory!Idle, Void, Memory!Void

\* A request, or a wait_until that begins, is a call.
LEMMA InvokeRefines ==
  ASSUME IInv, View, View', NEW p \in PE, Request(p) \/ WaitUntil(p)
  PROVE  Memory!Invoke(p)
<1>1. TypeOK  BY DEF IInv
<1>2. /\ args[p] = NoCall /\ UNCHANGED <<var, hsl>>
      /\ ret' = [ret EXCEPT ![p] = Void]
      /\ \A q \in PE : q # p => args'[q] = args[q] /\ payload'[q] = payload[q]
  BY <1>1 DEF Request, WaitUntil, TypeOK
<1>3. /\ \E c \in Operation : args' = [args EXCEPT ![p] = c] /\ c # NoCall
      /\ ~Effective(p)'
      /\ \A m : m.src # p \/ m.kind # "out" => (m \in net' <=> m \in net)
  <2>1. CASE Request(p)
    <3>1. PICK c \in RequestOf(p) :
            /\ args' = [args EXCEPT ![p] = c]
            /\ net' = net \cup {[kind |-> "out", src |-> p, call |-> c, value |-> c.value]}
      BY <2>1 DEF Request
    <3> DEFINE sent == [kind |-> "out", src |-> p, call |-> c, value |-> c.value]
    <3>2. net' = net \cup {sent} /\ sent.kind = "out" /\ sent.src = p  BY <3>1
    <3>3. ~Effective(p)'  BY <3>1, <3>2 DEF Effective, Sent
    <3>4. \A m : m.src # p \/ m.kind # "out" => (m \in net' <=> m \in net)  BY <3>2
    <3>5. c \in Operation /\ c # NoCall  BY RequestFacts
    <3> QED  BY <3>1, <3>3, <3>4, <3>5
  <2>2. CASE WaitUntil(p)
    <3>1. PICK c \in WaitCall(p) : args' = [args EXCEPT ![p] = c]  BY <2>2 DEF WaitUntil
    <3>2. /\ c.op = "wait" /\ c \in Operation /\ c # NoCall  BY WaitFacts
    <3>3. args'[p] = c  BY <1>1, <3>1 DEF TypeOK
    <3>4. payload'[p].completed = 0 /\ net' = net  BY <1>1, <2>2 DEF TypeOK, WaitUntil
    <3>5. ~Effective(p)'  BY <3>2, <3>3, <3>4 DEF Effective
    <3> QED  BY <3>1, <3>2, <3>4, <3>5
  <2> QED  BY <2>1, <2>2, <1>2
<1>4. ~Effective(p)  BY <1>2 DEF Effective
<1>5. ASSUME NEW q \in PE PROVE (Effective(q)' <=> Effective(q)) /\ ResultOf(q)' = ResultOf(q)
  <2>1. CASE q = p  BY <2>1, <1>3, <1>4 DEF View
  <2>2. CASE q # p
    <3>1. Sent(q, "out")' <=> Sent(q, "out")  BY <2>2, <1>3 DEF Sent
    <3>2. HeldOut(q)' <=> HeldOut(q)  BY <1>2 DEF HeldOut
    <3>3. Effective(q)' <=> Effective(q)  BY <2>2, <3>1, <3>2, <1>2 DEF Effective
    <3>4. \A m : m.kind = "bak" /\ m.src = q => (m \in net' <=> m \in net)  BY <2>2, <1>3
    <3> QED  BY <2>2, <3>3, <3>4, <1>2, SameResult
  <2> QED  BY <2>1, <2>2
<1>6. Applied' = Applied /\ [q \in PE |-> ResultOf(q)]' = [q \in PE |-> ResultOf(q)]
  BY <1>5, SameOfAll
<1> QED  BY <1>2, <1>3, <1>6 DEF Memory!Invoke, NoCall, Memory!Idle, Void, Memory!Void

\* The store of an out handler is the instant an operation takes effect: what it
\* read is still what is there.
LEMMA OutStoreRefines ==
  ASSUME IInv, IInv', View, View', NEW d \in PE, OutStore(d, DataType)
  PROVE  \E p \in PE : Memory!Apply(p)
<1>1. /\ hsl[d][DataType].kind = "out" /\ TypeOK /\ OnePlace
      /\ var' = [var EXCEPT ![d] = Update(hsl[d][DataType].msg.call, hsl[d][DataType].old)]
      /\ net' = net \cup {[hsl[d][DataType].msg EXCEPT !.kind = "bak",
             !.value = IF hsl[d][DataType].msg.call.op \in Fetching THEN hsl[d][DataType].old ELSE @]}
      /\ hsl' = [hsl EXCEPT ![d][DataType] = NoHandler]
      /\ UNCHANGED <<args, payload, ret, ops>>
  BY DEF OutStore, IInv
<1>2. PICK m, p : m = hsl[d][DataType].msg /\ p = m.src  OBVIOUS
<1>3. /\ HasMessage(d) /\ Awaited(m) /\ m.kind = "out" /\ m.call.dst = d
      /\ hsl[d][DataType].old = var[d]
  BY <1>1, <1>2, HeldMessage
<1>4. p \in PE /\ m.call = args[p] /\ args[p] \in RequestOf(p) /\ args[p].op \in Plain /\ args[p].dst = d
  BY <1>2, <1>3, MessageFacts
<1>5. PICK reply :
        /\ reply = [kind |-> "bak", src |-> p, call |-> args[p],
                    value |-> IF args[p].op \in Fetching THEN var[d] ELSE m.value]
        /\ net' = net \cup {reply}
  <2>1. m = [kind |-> m.kind, src |-> m.src, call |-> args[p], value |-> m.value]
    BY <1>2, <1>3 DEF Awaited
  <2>2. PICK v : v = IF args[p].op \in Fetching THEN var[d] ELSE m.value  OBVIOUS
  <2>3. [m EXCEPT !.kind = "bak", !.value = v]
          = [kind |-> "bak", src |-> m.src, call |-> args[p], value |-> v]
    BY <2>1, ReplyRecord
  <2>4. net' = net \cup {[m EXCEPT !.kind = "bak", !.value = v]}  BY <1>1, <1>2, <1>3, <1>4, <2>2
  <2> QED  BY <1>2, <2>2, <2>3, <2>4
<1>6. reply.kind = "bak" /\ reply.src = p  BY <1>5
<1>7. /\ hsl'[d][DataType] = NoHandler
      /\ \A q \in PE : q # d => hsl'[q][DataType] = hsl[q][DataType]
  BY <1>1, LockSet
<1>8. \A n \in net : n.src # p  BY <1>1, <1>2, <1>3 DEF OnePlace
<1>9. \A q \in PE : q # d /\ hsl[q][DataType].kind = "out" => hsl[q][DataType].msg.src # p
  BY <1>1, <1>2, <1>3 DEF OnePlace, HasMessage
<1>10. NoHandler.kind = "none"  BY DEF NoHandler
<1>11. ~Effective(p) /\ Effective(p)'
  <2>1. HeldOut(p)  BY <1>1, <1>2 DEF HeldOut
  <2>2. ~HeldOut(p)'  BY <1>7, <1>9, <1>10 DEF HeldOut
  <2>3. ~Sent(p, "out")'  BY <1>5, <1>6, <1>8 DEF Sent
  <2>4. args'[p] # NoCall /\ args'[p].op # "wait"  BY <1>1, <1>4, IdleFacts DEF Plain
  <2> QED  BY <2>1, <2>2, <2>3, <2>4 DEF Effective
<1>12. ResultOf(p)' = IF args[p].op \in Fetching THEN var[d] ELSE Void
  <2>1. CASE args[p].op \in Fetching
    <3>1. reply \in net' /\ reply.value = var[d] /\ args'[p] = args[p]  BY <1>1, <1>5, <2>1
    <3> QED  BY <1>4, <1>6, <1>11, <2>1, <3>1 DEF View
  <2>2. CASE args[p].op \notin Fetching
    <3>1. args'[p] = args[p]  BY <1>1
    <3> QED  BY <2>2, <3>1, <1>4 DEF View
  <2> QED  BY <2>1, <2>2
<1>13. ASSUME NEW q \in PE, q # p
       PROVE  (Effective(q)' <=> Effective(q)) /\ ResultOf(q)' = ResultOf(q)
  <2>1. Sent(q, "out")' <=> Sent(q, "out")  BY <1>5, <1>6 DEF Sent
  <2>2. HeldOut(q)' <=> HeldOut(q)
    BY <1>2, <1>7, <1>10, <1>13 DEF HeldOut
  <2>3. Effective(q)' <=> Effective(q)  BY <2>1, <2>2, <1>1 DEF Effective
  <2>4. \A n : n.kind = "bak" /\ n.src = q => (n \in net' <=> n \in net)  BY <1>5, <1>6, <1>13
  <2> QED  BY <2>3, <2>4, <1>1, SameResult
<1>14. Applied' = Applied \cup {p} /\ p \notin Applied
  <2>1. Applied \subseteq PE /\ Applied' \subseteq PE  BY DEF Applied
  <2> QED  BY <2>1, <1>4, <1>11, <1>13 DEF View
<1>15. var' = [var EXCEPT ![args[p].dst] = Memory!After(args[p], @)]
  <2>1. Update(args[p], var[d]) = Memory!After(args[p], var[d])  BY <1>4, UpdateIsAfter
  <2> QED  BY <1>1, <1>2, <1>3, <1>4, <2>1
<1>16. [q \in PE |-> ResultOf(q)]'
         = [[q \in PE |-> ResultOf(q)] EXCEPT ![p] = Memory!Told(args[p], var[args[p].dst])]
  <2>1. Memory!Told(args[p], var[args[p].dst]) = IF args[p].op \in Fetching THEN var[d] ELSE Void
    BY <1>4 DEF Memory!Told, Fetching, Void, Memory!Void
  <2> QED  BY <2>1, <1>12, <1>13
<1>17. args[p] # Memory!Idle /\ args[p].op # "wait"
  BY <1>4, RequestFacts DEF Plain, NoCall, Memory!Idle
<1> QED  BY <1>1, <1>4, <1>14, <1>15, <1>16, <1>17 DEF Memory!Apply

\* A wait_until takes effect when it sees what it waits for.
LEMMA WaitSeesRefines ==
  ASSUME IInv, View, View', NEW p \in PE, WaitSees(p)
  PROVE  Memory!Apply(p)
<1>1. /\ TypeOK /\ args[p].op = "wait" /\ payload[p].completed = 0
      /\ Compares(args[p].cond, var[p], args[p].value)
      /\ payload' = [payload EXCEPT ![p].completed = 1]
      /\ UNCHANGED <<var, hsl, net, args, ret, ops>>
  BY DEF WaitSees, IInv
<1>2. args[p] # NoCall /\ args[p] \in WaitCall(p) /\ args[p].dst = p
  BY <1>1, IdleFacts, RequestFacts, WaitFacts DEF TypeOK, Plain
<1>3. /\ \A n \in net : n.src # p
      /\ \A q \in PE : HasMessage(q) => hsl[q][DataType].msg.src # p
  BY <1>2, IdleHasNoCall, NoMessage
<1>4. payload'[p].completed = 1 /\ \A q \in PE : q # p => payload'[q] = payload[q]
  BY <1>1 DEF TypeOK
<1>5. ~Effective(p) /\ Effective(p)'
  <2>1. ~HeldOut(p)' /\ ~Sent(p, "out")'  BY <1>1, <1>3 DEF HeldOut, Sent, HasMessage
  <2> QED  BY <1>1, <1>2, <1>4, <2>1 DEF Effective
<1>6. ResultOf(p) = Void /\ ResultOf(p)' = Void  BY <1>1 DEF View, Fetching
<1>7. ASSUME NEW q \in PE, q # p
      PROVE  (Effective(q)' <=> Effective(q)) /\ ResultOf(q)' = ResultOf(q)
  <2>1. (Sent(q, "out")' <=> Sent(q, "out")) /\ (HeldOut(q)' <=> HeldOut(q))
    BY <1>1 DEF Sent, HeldOut
  <2>2. Effective(q)' <=> Effective(q)  BY <2>1, <1>1, <1>4, <1>7 DEF Effective
  <2> QED  BY <2>2, <1>1, <1>4, <1>7, SameResult
<1>8. Applied' = Applied \cup {p} /\ p \notin Applied
  <2>1. Applied \subseteq PE /\ Applied' \subseteq PE  BY DEF Applied
  <2> QED  BY <2>1, <1>5, <1>7 DEF View
<1>9. var' = [var EXCEPT ![args[p].dst] = Memory!After(args[p], @)]
  <2>1. Memory!After(args[p], var[p]) = var[p]  BY <1>1 DEF Memory!After
  <2> QED  BY <2>1, <1>1, <1>2 DEF TypeOK
<1>10. [q \in PE |-> ResultOf(q)]'
         = [[q \in PE |-> ResultOf(q)] EXCEPT ![p] = Memory!Told(args[p], var[args[p].dst])]
  <2>1. Memory!Told(args[p], var[args[p].dst]) = Void  BY <1>1 DEF Memory!Told, Void, Memory!Void
  <2> QED  BY <2>1, <1>6, <1>7
<1>11. Memory!Holds(args[p].cond, var[p], args[p].value)  BY <1>1, ComparesHolds
<1>12. args[p] # Memory!Idle  BY <1>2 DEF NoCall, Memory!Idle
<1> QED  BY <1>1, <1>8, <1>9, <1>10, <1>11, <1>12 DEF Memory!Apply

\* The rest of the way of a message changes nothing that can be seen: what the
\* reply carries is in the payload when it is gone.
LEMMA HandlerStutters ==
  ASSUME IInv, IInv', View, View',
         \/ \E m \in net : Deliver(m)
         \/ \E d \in PE : BakFlag(d, DataType) \/ BakUnlock(d, DataType)
  PROVE  UNCHANGED Memory!vars
<1>1. UNCHANGED <<var, args, ret>> /\ TypeOK
  BY DEF Deliver, OutLoad, BakValue, BakFlag, BakUnlock, IInv
<1>2. NoHandler.kind = "none" /\ [kind |-> "done"].kind = "done"  BY DEF NoHandler
<1>3. \A q \in PE : (Effective(q)' <=> Effective(q)) /\ ResultOf(q)' = ResultOf(q)
  <2>1. ASSUME NEW m \in net, OutLoad(m), NEW q \in PE
        PROVE  (Effective(q)' <=> Effective(q)) /\ ResultOf(q)' = ResultOf(q)
    <3>1. Awaited(m)  BY DEF IInv
    <3>2. PICK d \in PE : d = m.call.dst /\ m.call.type = DataType  BY <3>1, MessageFacts
    <3>3. /\ m.kind = "out" /\ hsl[d][DataType] = NoHandler
          /\ hsl' = [hsl EXCEPT ![d][DataType] = [kind |-> "out", msg |-> m, old |-> var[d]]]
          /\ net' = net \ {m} /\ payload' = payload
      BY <2>1, <3>2 DEF OutLoad
    <3>4. /\ hsl'[d][DataType].kind = "out" /\ hsl'[d][DataType].msg = m
          /\ \A r \in PE : r # d => hsl'[r][DataType] = hsl[r][DataType]
      <4>1. PICK h : h = [kind |-> "out", msg |-> m, old |-> var[d]]  OBVIOUS
      <4>2. hsl' = [hsl EXCEPT ![d][DataType] = h]  BY <3>3, <4>1
      <4>3. /\ hsl'[d][DataType] = h
            /\ \A r \in PE : r # d => hsl'[r][DataType] = hsl[r][DataType]
        BY <1>1, <4>2, LockSet
      <4> QED  BY <4>1, <4>3
    <3>5. Sent(q, "out") \/ HeldOut(q) <=> (Sent(q, "out") \/ HeldOut(q))'
      BY <1>2, <3>3, <3>4 DEF Sent, HeldOut
    <3>6. Effective(q)' <=> Effective(q)  BY <3>5, <1>1, <3>3 DEF Effective
    <3>7. \A n : n.kind = "bak" /\ n.src = q => (n \in net' <=> n \in net)  BY <3>3
    <3> QED  BY <3>3, <3>6, <3>7, <1>1, SameResult
  <2>2. ASSUME NEW m \in net, BakValue(m), NEW q \in PE
        PROVE  (Effective(q)' <=> Effective(q)) /\ ResultOf(q)' = ResultOf(q)
    <3>1. Awaited(m)  BY DEF IInv
    <3>2. PICK d \in PE : d = m.src /\ m.call.type = DataType /\ m.call = args[d]
      BY <3>1, MessageFacts
    <3>3. /\ m.kind = "bak" /\ hsl[d][DataType] = NoHandler
          /\ hsl' = [hsl EXCEPT ![d][DataType] = [kind |-> "bak", msg |-> m]]
          /\ net' = net \ {m}
          /\ payload' = [payload EXCEPT ![d].value = IF args[d].op \in CopiedBack THEN m.value ELSE @]
      BY <2>2, <3>2 DEF BakValue
    <3>4. /\ hsl'[d][DataType].kind = "bak"
          /\ \A r \in PE : r # d => hsl'[r][DataType] = hsl[r][DataType]
      <4>1. PICK h : h = [kind |-> "bak", msg |-> m]  OBVIOUS
      <4>2. hsl' = [hsl EXCEPT ![d][DataType] = h]  BY <3>3, <4>1
      <4>3. /\ hsl'[d][DataType] = h
            /\ \A r \in PE : r # d => hsl'[r][DataType] = hsl[r][DataType]
        BY <1>1, <4>2, LockSet
      <4> QED  BY <4>1, <4>3
    <3>5. /\ payload'[d].completed = payload[d].completed
          /\ args[d].op \in CopiedBack => payload'[d].value = m.value
          /\ \A r \in PE : r # d => payload'[r] = payload[r]
      BY <1>1, <3>3 DEF TypeOK
    <3>6. (Sent(q, "out")' <=> Sent(q, "out")) /\ (HeldOut(q)' <=> HeldOut(q))
      BY <1>2, <3>3, <3>4 DEF Sent, HeldOut
    <3>7. Effective(q)' <=> Effective(q)  BY <3>6, <3>5, <1>1 DEF Effective
    <3>8. CASE q # d
      <4>1. \A n : n.kind = "bak" /\ n.src = q => (n \in net' <=> n \in net)  BY <3>2, <3>3, <3>8
      <4> QED  BY <3>5, <3>7, <3>8, <4>1, <1>1, SameResult
    <3>9. CASE q = d /\ Effective(q) /\ args[q].op \in Fetching
      <4>1. ~Sent(q, "bak")'  BY <3>2, <3>3, <3>9 DEF Sent, IInv, OnePlace
      <4>2. ResultOf(q)' = payload'[q].value  BY <4>1, <3>7, <3>9, <1>1 DEF View
      <4>3. ResultOf(q) = m.value  BY <3>2, <3>3, <3>9 DEF View
      <4>4. args[d].op \in CopiedBack  BY <3>9 DEF CopiedBack
      <4> QED  BY <4>2, <4>3, <4>4, <3>5, <3>7, <3>9
    <3>10. CASE ~Effective(q) \/ args[q].op \notin Fetching
      BY <3>7, <3>10, <1>1 DEF View
    <3> QED  BY <3>8, <3>9, <3>10
  <2>3. ASSUME NEW d \in PE, BakFlag(d, DataType) \/ BakUnlock(d, DataType), NEW q \in PE
        PROVE  (Effective(q)' <=> Effective(q)) /\ ResultOf(q)' = ResultOf(q)
    <3>1. net' = net /\ hsl[d][DataType].kind # "out"
      BY <2>3 DEF BakFlag, BakUnlock
    <3>2. /\ hsl'[d][DataType] \in {NoHandler, [kind |-> "done"]}
          /\ \A r \in PE : r # d => hsl'[r][DataType] = hsl[r][DataType]
      <4>1. PICK h \in {NoHandler, [kind |-> "done"]} : hsl' = [hsl EXCEPT ![d][DataType] = h]
        BY <2>3 DEF BakFlag, BakUnlock
      <4> QED  BY <1>1, <4>1, LockSet
    <3>3. payload'[q].value = payload[q].value /\ (q # d => payload'[q] = payload[q])
      BY <1>1, <2>3 DEF TypeOK, BakFlag, BakUnlock
    <3>4. (Sent(q, "out")' <=> Sent(q, "out")) /\ (HeldOut(q)' <=> HeldOut(q))
      BY <1>2, <3>1, <3>2 DEF Sent, HeldOut
    <3>5. q = d /\ payload'[q] # payload[q] => args[q].op # "wait"
      <4>1. CASE BakFlag(d, DataType)
        <5>1. Awaited(hsl[d][DataType].msg) /\ hsl[d][DataType].msg.src = d
          BY <4>1, HeldMessage DEF BakFlag
        <5>2. args[d] \in RequestOf(d)  BY <5>1 DEF Awaited
        <5> QED  BY <5>2, RequestFacts DEF Plain
      <4>2. CASE BakUnlock(d, DataType)  BY <4>2 DEF BakUnlock
      <4> QED  BY <2>3, <4>1, <4>2
    <3>6. Effective(q)' <=> Effective(q)  BY <3>3, <3>4, <3>5, <1>1 DEF Effective
    <3> QED  BY <3>1, <3>3, <3>6, <1>1, SameResult
  <2> QED  BY <2>1, <2>2, <2>3 DEF Deliver
<1>4. Applied' = Applied /\ [q \in PE |-> ResultOf(q)]' = [q \in PE |-> ResultOf(q)]
  BY <1>3, SameOfAll
<1> QED  BY <1>1, <1>4 DEF Memory!vars

\* The caller returns with the value in its payload.
LEMMA ReturnRefines ==
  ASSUME IInv, View, View', NEW p \in PE, Return(p)
  PROVE  Memory!Return(p)
<1>1. /\ TypeOK /\ payload[p].completed = 1
      /\ ret' = [ret EXCEPT ![p] = IF args[p].op \in Fetching THEN payload[p].value ELSE Void]
      /\ args' = [args EXCEPT ![p] = NoCall]
      /\ UNCHANGED <<var, hsl, net, ops>>
      /\ \A q \in PE : q # p => args'[q] = args[q] /\ payload'[q] = payload[q]
  BY DEF Return, IInv, TypeOK
<1>2. args[p] # NoCall
  <2>1. NoPayload.completed = -1  BY DEF NoPayload
  <2> QED  BY <1>1, <2>1 DEF IInv
<1>3. /\ \A n \in net : n.src # p
      /\ \A q \in PE : HasMessage(q) => hsl[q][DataType].msg.src # p
  BY <1>1, NoMessage
<1>4. Effective(p) /\ ~Sent(p, "bak")
  BY <1>1, <1>2, <1>3 DEF Effective, Sent, HeldOut, HasMessage
<1>5. ~Effective(p)'  BY <1>1 DEF Effective, TypeOK
<1>6. /\ ResultOf(p) = IF args[p].op \in Fetching THEN payload[p].value ELSE Void
      /\ ResultOf(p)' = Void
  BY <1>4, <1>5 DEF View
<1>7. ASSUME NEW q \in PE, q # p
      PROVE  (Effective(q)' <=> Effective(q)) /\ ResultOf(q)' = ResultOf(q)
  <2>1. (Sent(q, "out")' <=> Sent(q, "out")) /\ (HeldOut(q)' <=> HeldOut(q))
    BY <1>1 DEF Sent, HeldOut
  <2>2. Effective(q)' <=> Effective(q)  BY <2>1, <1>1, <1>7 DEF Effective
  <2> QED  BY <2>2, <1>1, <1>7, SameResult
<1>8. Applied' = Applied \ {p} /\ p \in Applied
  <2>1. Applied \subseteq PE /\ Applied' \subseteq PE  BY DEF Applied
  <2> QED  BY <2>1, <1>4, <1>5, <1>7 DEF View
<1>9. [q \in PE |-> ResultOf(q)]' = [[q \in PE |-> ResultOf(q)] EXCEPT ![p] = Void]
  BY <1>6, <1>7
<1>10. ret' = [ret EXCEPT ![p] = [q \in PE |-> ResultOf(q)][p]]  BY <1>1, <1>6
<1> QED  BY <1>1, <1>8, <1>9, <1>10 DEF Memory!Return, NoCall, Memory!Idle, Void, Memory!Void

\* Every step is one of the memory, or changes nothing of it.
LEMMA NextRefines ==
  ASSUME IInv, IInv', View, View', [Next]_vars
  PROVE  [Memory!Next]_(Memory!vars)
<1>1. ASSUME NEW p \in PE, Request(p) \/ WaitUntil(p) \/ WaitSees(p) \/ Return(p)
      PROVE  Memory!Next
  BY <1>1, InvokeRefines, WaitSeesRefines, ReturnRefines DEF Memory!Next
<1>2. ASSUME NEW p \in PE, Handler(p) PROVE [Memory!Next]_(Memory!vars)
  BY <1>2, HandlerOfType, OutStoreRefines, HandlerStutters DEF Memory!Next
<1>3. ASSUME NEW m \in net, Deliver(m) PROVE UNCHANGED Memory!vars  BY <1>3, HandlerStutters
<1>4. CASE UNCHANGED vars
  <2>1. UNCHANGED <<var, hsl, net, args, payload, ret>>  BY <1>4 DEF vars
  <2>2. \A q \in PE : Effective(q)' <=> Effective(q)
    BY <2>1 DEF Effective, Sent, HeldOut
  <2>3. \A q \in PE : ResultOf(q)' = ResultOf(q)  BY <2>1, <2>2, SameResult
  <2> QED  BY <2>1, <2>2, <2>3, SameOfAll DEF Memory!vars
<1> QED  BY <1>1, <1>2, <1>3, <1>4 DEF Next

\* Request, handlers and reply are an atomic memory: each operation of C or
\* Fortran takes effect once, between its call and its return, and returns what
\* was there just before; a wait_until returns only after its comparison held.
THEOREM OperationsAreAtomicAlways == Spec => OperationsAreAtomic
BY AmoInvariant, ViewHolds, InitRefines, NextRefines, PTL DEF Spec, OperationsAreAtomic, Memory!Spec

=============================================================================
