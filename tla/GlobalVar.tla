----------------------------- MODULE GlobalVar ------------------------------
(***************************************************************************)
(* Puts and gets of global variables, and global_exit, in the build with   *)
(* managed segments (comms/gasnet/comms-inline.h).  A global variable is   *)
(* outside the segment GASNet knows, so its bytes travel in active         *)
(* messages, a chunk at a time, each acknowledged before the next is sent. *)
(* put_counter counts the chunks a PE has sent and not seen acknowledged;  *)
(* a fence waits for it, the one in the handler of global_exit too.        *)
(*                                                                         *)
(* Handlers run in a thread that polls: the program's, when it waits in    *)
(* the library, or the progress thread that some PEs have.  While the      *)
(* handler of global_exit waits, its thread runs nothing else.             *)
(*                                                                         *)
(* Each PE p writes to, and reads from, a variable of its own on each PE q *)
(* (var[q][p]).  Byte i of what p's k-th put sends is the value <<k, i>>.  *)
(***************************************************************************)
EXTENDS Naturals, FiniteSets, FiniteSetsExt

CONSTANTS
  PE,
  ServicePE,    \* the PEs that have a progress thread
  Size,         \* bytes of a variable
  MaxData,      \* bytes of data that fit in a chunk
  Calls,        \* the transfers the program makes, a subset of {"put", "get"}
  MaxOps,       \* bound: transfers of all PEs together
  MayExit       \* the PEs that may call global_exit

ASSUME GlobalVarAssumption ==
  /\ PE \subseteq Nat /\ ServicePE \subseteq PE /\ MayExit \subseteq PE
  /\ Size \in Nat /\ MaxData \in Nat \ {0} /\ MaxOps \in Nat
  /\ Calls \subseteq {"put", "get"}

VARIABLES
  var,          \* the global variables
  local,        \* the buffer each PE gets into
  want,         \* history: what the variables should hold when p has returned
  ops,          \* transfers each PE has begun
  call,         \* the transfer each PE is in, with its loop variables
  completed,    \* the flag in the buffer of that transfer
  put_counter, get_counter,
  net,          \* active messages on their way
  toTell,       \* PEs that the program of p, in global_exit, has yet to tell
  stuck,        \* the threads of p in which the handler of global_exit waits
  exited        \* the PEs that have exited

vars == <<var, local, want, ops, call, completed, put_counter, get_counter,
          net, toTell, stuck, exited>>

-----------------------------------------------------------------------------
Byte == 0 .. Size - 1
Data(k) == [i \in Byte |-> <<k, i>>]
Idle == [kind |-> "none"]
NoExit == PE                    \* toTell of a PE that is not in global_exit

Init ==
  /\ var = [q \in PE |-> [p \in PE |-> Data(0)]]
  /\ local = [p \in PE |-> Data(0)]
  /\ want = [q \in PE |-> [p \in PE |-> Data(0)]]
  /\ ops = [p \in PE |-> 0]
  /\ call = [p \in PE |-> Idle]
  /\ completed = [p \in PE |-> 0]
  /\ put_counter = [p \in PE |-> 0]
  /\ get_counter = [p \in PE |-> 0]
  /\ net = {}
  /\ toTell = [p \in PE |-> NoExit]
  /\ stuck = [p \in PE |-> {}]
  /\ exited = {}

Exiting(p) == toTell[p] # NoExit
ProgramRuns(p) == p \notin exited /\ "program" \notin stuck[p]

\* The threads of p that can run a handler.  The program polls while it waits
\* for a chunk and in its other calls, to finalize at the latest; not between
\* two chunks.
Polling(p) ==
  IF p \in exited THEN {}
  ELSE ((IF call[p] = Idle \/ call[p].sent THEN {"program"} ELSE {})
          \cup (IF p \in ServicePE THEN {"service"} ELSE {})) \ stuck[p]

-----------------------------------------------------------------------------
\* The counters, each changed under a lock of its own.
atomic_inc_put_counter(p) == put_counter' = [put_counter EXCEPT ![p] = @ + 1]

atomic_dec_put_counter(p) == put_counter' = [put_counter EXCEPT ![p] = @ - 1]

atomic_wait_put_zero(p) == put_counter[p] = 0

atomic_inc_get_counter(p) == get_counter' = [get_counter EXCEPT ![p] = @ + 1]

atomic_dec_get_counter(p) == get_counter' = [get_counter EXCEPT ![p] = @ - 1]

\* A fence.  The puts here are all of global variables: the other two waits of
\* do_fencequiet are over at once.
Fence(p) == atomic_wait_put_zero(p)

-----------------------------------------------------------------------------
\* The program starts a transfer of the first n bytes.
Begin(p, kind, q, n) ==
  /\ ProgramRuns(p) /\ ~Exiting(p)
  /\ call[p] = Idle
  /\ kind \in Calls
  /\ MapThenSumSet(LAMBDA r : ops[r], PE) < MaxOps
  /\ call' = [call EXCEPT ![p] = [kind |-> kind, pe |-> q, nbytes |-> n,
                                  offset |-> 0, sent |-> FALSE]]
  /\ ops' = [ops EXCEPT ![p] = @ + 1]
  /\ UNCHANGED <<var, local, completed, put_counter, get_counter, net, toTell, stuck, exited>>

globalvar_put_request(p, q, n) ==
  /\ Begin(p, "put", q, n)
  /\ want' = [want EXCEPT ![q][p] =
                [i \in Byte |-> IF i < n THEN <<ops[p] + 1, i>> ELSE @[i]]]

globalvar_get_request(p, q, n) ==
  /\ Begin(p, "get", q, n)
  /\ UNCHANGED want

\* How a transfer is split: whole chunks while there are any, then the rest.
Whole(c) == (c.nbytes \div MaxData) * MaxData

Bug_ChunkSize(c) == IF c.offset < Whole(c) THEN MaxData ELSE 0

ChunkSize(c) ==
  IF c.offset < Whole(c) THEN MaxData
  ELSE IF c.offset = Whole(c) THEN c.nbytes % MaxData ELSE 0

\* p is between two chunks of a transfer of this kind.
Between(p, kind) == ProgramRuns(p) /\ call[p].kind = kind /\ ~call[p].sent

Chunk(c) == c.offset .. c.offset + ChunkSize(c) - 1

\* A chunk leaves, with the flag its acknowledgement sets cleared.
Send(p, data) ==
  /\ ChunkSize(call[p]) > 0
  /\ completed' = [completed EXCEPT ![p] = 0]
  /\ net' = net \cup {[kind |-> call[p].kind, src |-> p, pe |-> call[p].pe, data |-> data]}
  /\ call' = [call EXCEPT ![p].sent = TRUE]
  /\ UNCHANGED <<var, local, want, ops, toTell, stuck, exited>>

\* put_a_chunk: fill in, count, copy the data, send ...
put_a_chunk(p) ==
  /\ Between(p, "put")
  /\ atomic_inc_put_counter(p)
  /\ Send(p, [i \in Chunk(call[p]) |-> <<ops[p], i>>])
  /\ UNCHANGED get_counter

\* get_a_chunk: the same, with room for the data.
get_a_chunk(p) ==
  /\ Between(p, "get")
  /\ atomic_inc_get_counter(p)
  /\ Send(p, [i \in Chunk(call[p]) |-> <<0, 0>>])
  /\ UNCHANGED put_counter

Bug_ChunkNotWaited(p, kind) ==
  /\ ProgramRuns(p)
  /\ call[p].kind = kind /\ call[p].sent
  /\ call' = [call EXCEPT ![p].sent = FALSE, ![p].offset = @ + ChunkSize(call[p])]
  /\ UNCHANGED <<var, local, want, ops, completed, net, toTell, stuck, exited>>

\* ... and, once it is acknowledged, go on to the next.
Acknowledged(p, kind) ==
  /\ ProgramRuns(p)
  /\ call[p].kind = kind /\ call[p].sent
  /\ completed[p] = 1
  /\ call' = [call EXCEPT ![p].sent = FALSE, ![p].offset = @ + ChunkSize(call[p])]
  /\ UNCHANGED <<var, local, want, ops, completed, net, toTell, stuck, exited>>

PutChunkDone(p) ==
  /\ Acknowledged(p, "put")
  /\ atomic_dec_put_counter(p)
  /\ UNCHANGED get_counter

GetChunkDone(p) ==
  /\ Acknowledged(p, "get")
  /\ atomic_dec_get_counter(p)
  /\ UNCHANGED put_counter

\* No chunk is left: the buffer is freed and the call returns.
Return(p, kind) ==
  /\ Between(p, kind)
  /\ ChunkSize(call[p]) = 0
  /\ call' = [call EXCEPT ![p] = Idle]
  /\ UNCHANGED <<var, local, want, ops, completed, put_counter, get_counter, net, toTell,
                 stuck, exited>>

Bug_NoAck(m) ==
  /\ m.kind = "put"
  /\ Polling(m.pe) # {}
  /\ var' = [var EXCEPT ![m.pe][m.src] =
               [i \in Byte |-> IF i \in DOMAIN m.data THEN m.data[i] ELSE @[i]]]
  /\ net' = net \ {m}
  /\ UNCHANGED <<local, want, ops, call, completed, put_counter, get_counter, toTell, stuck, exited>>

\* handler_globalvar_put_out: write, acknowledge.
PutOut(m) ==
  /\ m.kind = "put"
  /\ Polling(m.pe) # {}
  /\ var' = [var EXCEPT ![m.pe][m.src] =
               [i \in Byte |-> IF i \in DOMAIN m.data THEN m.data[i] ELSE @[i]]]
  /\ net' = (net \ {m}) \cup {[m EXCEPT !.kind = "put_bak"]}
  /\ UNCHANGED <<local, want, ops, call, completed, put_counter, get_counter, toTell, stuck, exited>>

\* handler_globalvar_get_out: read, send back.
GetOut(m) ==
  /\ m.kind = "get"
  /\ Polling(m.pe) # {}
  /\ net' = (net \ {m}) \cup
            {[m EXCEPT !.kind = "get_bak", !.data = [i \in DOMAIN m.data |-> var[m.pe][m.src][i]]]}
  /\ UNCHANGED <<var, local, want, ops, call, completed, put_counter, get_counter, toTell,
                 stuck, exited>>

\* handler_globalvar_put_bak: set the flag.
PutBak(m) ==
  /\ m.kind = "put_bak"
  /\ Polling(m.src) # {}
  /\ completed' = [completed EXCEPT ![m.src] = 1]
  /\ net' = net \ {m}
  /\ UNCHANGED <<var, local, want, ops, call, put_counter, get_counter, toTell, stuck, exited>>

\* handler_globalvar_get_bak: write what has come, set the flag.
GetBak(m) ==
  /\ m.kind = "get_bak"
  /\ Polling(m.src) # {}
  /\ local' = [local EXCEPT ![m.src] =
                 [i \in Byte |-> IF i \in DOMAIN m.data THEN m.data[i] ELSE @[i]]]
  /\ completed' = [completed EXCEPT ![m.src] = 1]
  /\ net' = net \ {m}
  /\ UNCHANGED <<var, want, ops, call, put_counter, get_counter, toTell, stuck, exited>>

-----------------------------------------------------------------------------
\* shmem_global_exit ...
CallExit(p) ==
  /\ p \in MayExit
  /\ ProgramRuns(p) /\ ~Exiting(p) /\ call[p] = Idle
  /\ toTell' = [toTell EXCEPT ![p] = PE \ {p}]
  /\ UNCHANGED <<var, local, want, ops, call, completed, put_counter, get_counter, net, stuck, exited>>

\* ... tells the others one by one, in order ...
Tell(p) ==
  /\ ProgramRuns(p) /\ Exiting(p)
  /\ \E q \in toTell[p] :
       /\ \A r \in toTell[p] : q <= r
       /\ net' = net \cup {[kind |-> "exit", src |-> p, pe |-> q]}
       /\ toTell' = [toTell EXCEPT ![p] = @ \ {q}]
  /\ UNCHANGED <<var, local, want, ops, call, completed, put_counter, get_counter, stuck, exited>>

\* ... then fences and exits.
Exit(p) ==
  /\ ProgramRuns(p)
  /\ toTell[p] = {}
  /\ Fence(p)
  /\ exited' = exited \cup {p}
  /\ UNCHANGED <<var, local, want, ops, call, completed, put_counter, get_counter, net, toTell, stuck>>

\* handler_globalexit_out fences in the thread that runs it ...
ExitOut(m) ==
  /\ m.kind = "exit"
  /\ \E t \in Polling(m.pe) : stuck' = [stuck EXCEPT ![m.pe] = @ \cup {t}]
  /\ net' = net \ {m}
  /\ UNCHANGED <<var, local, want, ops, call, completed, put_counter, get_counter, toTell, exited>>

Bug_NoFence(p) ==
  /\ p \notin exited /\ stuck[p] # {}
  /\ exited' = exited \cup {p}
  /\ UNCHANGED <<var, local, want, ops, call, completed, put_counter, get_counter, net, toTell, stuck>>

\* ... and exits, which ends the PE's other thread too.
ExitHandled(p) ==
  /\ p \notin exited /\ stuck[p] # {}
  /\ Fence(p)
  /\ exited' = exited \cup {p}
  /\ UNCHANGED <<var, local, want, ops, call, completed, put_counter, get_counter, net, toTell, stuck>>

Program(p) ==
  \/ put_a_chunk(p) \/ PutChunkDone(p) \/ Return(p, "put")
  \/ get_a_chunk(p) \/ GetChunkDone(p) \/ Return(p, "get")
  \/ Tell(p) \/ Exit(p) \/ ExitHandled(p)

Handle(m) == PutOut(m) \/ PutBak(m) \/ GetOut(m) \/ GetBak(m) \/ ExitOut(m)

Next ==
  \/ \E p, q \in PE, n \in 0 .. Size :
       globalvar_put_request(p, q, n) \/ globalvar_get_request(p, q, n)
  \/ \E p \in PE : CallExit(p) \/ Program(p)
  \/ \E m \in net : Handle(m)

Spec == Init /\ [][Next]_vars

\* Calls go on once begun, and messages to a PE that polls are handled.
FairSpec ==
  /\ Spec
  /\ \A p \in PE : WF_vars(Program(p))
  /\ \A p, q \in PE :
       /\ WF_vars(\E m \in net : m.src = p /\ m.pe = q /\ m.kind # "exit" /\ Handle(m))
       /\ WF_vars(\E m \in net : m.src = p /\ m.pe = q /\ m.kind = "exit" /\ Handle(m))

-----------------------------------------------------------------------------
InFlight(p) == {m \in net : m.src = p /\ m.kind # "exit"}

\* What the variables hold: each has its type.
Transfer == [kind : {"put", "get"}, pe : PE, nbytes : 0 .. Size, offset : 0 .. Size,
             sent : BOOLEAN]

Contents == [Byte -> Nat \X Nat]

TypeOK ==
  /\ var \in [PE -> [PE -> Contents]] /\ want \in [PE -> [PE -> Contents]]
  /\ local \in [PE -> Contents]
  /\ ops \in [PE -> Nat]
  /\ call \in [PE -> Transfer \cup {Idle}]
  /\ completed \in [PE -> {0, 1}]
  /\ put_counter \in [PE -> Nat] /\ get_counter \in [PE -> Nat]
  /\ \A m \in net :
       /\ m.src \in PE /\ m.pe \in PE
       /\ m.kind # "exit" =>
            /\ m.kind \in {"put", "put_bak", "get", "get_bak"}
            /\ m = [kind |-> m.kind, src |-> m.src, pe |-> m.pe, data |-> m.data]
  /\ toTell \in [PE -> SUBSET PE]
  /\ stuck \in [PE -> SUBSET {"program", "service"}]
  /\ exited \subseteq PE

\* put_counter counts the chunk under way, and an exited PE has none.
Counted ==
  /\ \A p \in PE : put_counter[p] = IF call[p].kind = "put" /\ call[p].sent THEN 1 ELSE 0
  /\ \A p \in PE : get_counter[p] = IF call[p].kind = "get" /\ call[p].sent THEN 1 ELSE 0
  /\ \A p \in exited : put_counter[p] = 0

\* A PE has one chunk on its way, and that is a chunk of its call.
Carries(m) ==
  LET c == call[m.src] IN
  /\ c.kind = (IF m.kind \in {"put", "put_bak"} THEN "put" ELSE "get")
  /\ c.sent /\ completed[m.src] = 0 /\ m.pe = c.pe
  /\ DOMAIN m.data = Chunk(c)
  /\ m.kind = "put" => \A i \in Chunk(c) : m.data[i] = <<ops[m.src], i>>
  /\ m.kind = "get_bak" => \A i \in Chunk(c) : m.data[i] = want[c.pe][m.src][i]

OneChunk ==
  /\ \A m \in net : m.kind # "exit" => Carries(m)
  /\ \A m, n \in net : m.kind # "exit" /\ n.kind # "exit" /\ m.src = n.src => m = n

\* A call has gone over whole chunks so far, or over everything.
Split(c) ==
  /\ c.offset <= c.nbytes
  /\ \/ \E k \in 0 .. c.nbytes \div MaxData : c.offset = k * MaxData
     \/ c.offset = c.nbytes

\* What p's put has written so far ...
Written(p) ==
  LET c == call[p] IN
  c.kind = "put" =>
    \A i \in Byte :
      /\ i < c.nbytes => want[c.pe][p][i] = <<ops[p], i>>
      /\ i < c.offset \/ c.nbytes <= i => var[c.pe][p][i] = want[c.pe][p][i]
      /\ c.sent /\ i \in Chunk(c) =>
           \/ \E m \in net : m.src = p /\ m.kind = "put"
           \/ var[c.pe][p][i] = want[c.pe][p][i]

\* ... which leaves the other PEs alone ...
Untouched(p) ==
  \A q \in PE : (call[p].kind = "put" => q # call[p].pe) => var[q][p] = want[q][p]

\* ... and what its get has fetched.
Fetched(p) ==
  LET c == call[p] IN
  c.kind = "get" =>
    \A i \in Byte :
      i < c.offset \/ (c.sent /\ completed[p] = 1 /\ i \in Chunk(c))
        => local[p][i] = want[c.pe][p][i]

Progress(p) ==
  /\ call[p].kind # "none" => Split(call[p])
  /\ Written(p) /\ Untouched(p) /\ Fetched(p)

IInv ==
  /\ TypeOK
  /\ Counted
  /\ OneChunk
  /\ \A p \in PE : Progress(p)

\* When a put has returned, every byte of it and no other is on the target,
\* however it was split.
PutsArriveWhole ==
  \A p, q \in PE : call[p] = Idle => var[q][p] = want[q][p]

\* What a get has fetched so far is what the PE last put there, in place.
GetsSeePuts ==
  \A p \in PE : call[p] # Idle /\ call[p].kind = "get" =>
    \A i \in Byte : i < call[p].offset => local[p][i] = want[call[p].pe][p][i]

\* No PE exits with a chunk that has not been acknowledged.
ExitFlushesChunks == \A p \in exited : \A m \in InFlight(p) : m.kind \notin {"put", "put_bak"}

\* Every transfer returns, unless somebody exits.
TransfersReturn ==
  \A p \in PE : (call[p] # Idle) ~> (call[p] = Idle \/ \E q \in PE : Exiting(q))

\* shmem.h: called "on 1 or more PEs", global_exit "causes immediate termination
\* of the program on all PEs".
\* The code does not keep this promise: see Divergences in README.md.
ExitEndsAll == (\E p \in PE : Exiting(p)) ~> (exited = PE)

\* shmem.h: "pending communication is flushed".  A PE whose put is partly
\* delivered does not exit before the rest is.
\* The code does not keep this promise: see Divergences in README.md.
ExitFlushes ==
  \A p \in exited :
    call[p].kind = "put" /\ call[p].offset > 0 => ~call[p].sent /\ ChunkSize(call[p]) = 0

=============================================================================
