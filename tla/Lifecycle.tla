----------------------------- MODULE Lifecycle ------------------------------
(***************************************************************************)
(* The life of the PEs: updown/updown.c, utils/state.c and, in             *)
(* comms/gasnet/comms-inline.h, shmemi_comms_init,                         *)
(* shmemi_symmetric_memory_init (the build without managed segments), the  *)
(* progress thread, shmemi_comms_exit and comms_bailout; and               *)
(* shmem_barrier_all, which is GASNet's barrier like theirs.               *)
(*                                                                         *)
(* Each PE reads its environment, allocates its heap, meets the others in  *)
(* a barrier, tells them where its heap is and waits for their replies;    *)
(* then it runs.  To finalize it meets them again, stops its progress      *)
(* thread and frees the heap.  It ends in exit, which finalizes if the     *)
(* program has not.  Barriers are GASNet's: the n-th call of one PE        *)
(* matches the n-th of the others.                                         *)
(***************************************************************************)
EXTENDS Environment, FiniteSets

CONSTANTS
  PE,
  Jobs,           \* how a job may be started: env, the environment of all; locp,
                  \* the host of each PE; poor, the PEs without memory for a heap
  Barriers,       \* bound: how often each program calls shmem_barrier_all
  MaxPuts         \* bound: puts on their way

ASSUME LifecycleAssumption ==
  /\ IsFiniteSet(PE) /\ PE = 0 .. Cardinality(PE) - 1
  /\ \A job \in Jobs :
       IsEnvironment(job.env) /\ job.locp \in [PE -> Nat] /\ job.poor \subseteq PE
  /\ Barriers \in Nat /\ MaxPuts \in Nat

VARIABLES
  given,          \* the job
  pc,             \* where each program is
  pe_status,
  exiting,        \* the PEs that run their exit handlers
  barcount,       \* barriers each PE has called
  called,         \* ... of them, those of shmem_barrier_all
  heapsize,
  seginfo_table,  \* the PEs whose heap each PE knows
  heap,           \* great_big_heap of each PE
  replies,        \* seg_setup_replies_received
  hsl,            \* setup_bak_lock: free, or what its holder has read
  service,        \* the progress thread of each PE
  stream,         \* trace_log_stream of each PE
  spoilt,         \* the PEs that have written to a stream they had closed
  net,            \* active messages on their way
  puts            \* implicit puts on their way, with the barriers their PE had called

setup == <<seginfo_table, replies, hsl, net>>
output == <<stream, spoilt>>
vars == <<given, pc, pe_status, exiting, barcount, called, heapsize, heap, service, puts, setup, output>>

Free == -1

Init ==
  /\ given \in Jobs
  /\ pc = [p \in PE |-> "start"]
  /\ pe_status = [p \in PE |-> "UNINITIALIZED"]
  /\ exiting = {}
  /\ barcount = [p \in PE |-> 0]
  /\ called = [p \in PE |-> 0]
  /\ heapsize = [p \in PE |-> 0]
  /\ seginfo_table = [p \in PE |-> {}]
  /\ heap = [p \in PE |-> "none"]
  /\ replies = [p \in PE |-> 0]
  /\ hsl = [p \in PE |-> Free]
  /\ service = [p \in PE |-> "none"]
  /\ stream = [p \in PE |-> "none"]
  /\ spoilt = {}
  /\ net = {}
  /\ puts = {}

Goto(p, l) == pc' = [pc EXCEPT ![p] = l]

\* A barrier is passed when every PE has called it as often.
Notify(p) == barcount' = [barcount EXCEPT ![p] = @ + 1]
Passed(p) == \A q \in PE : barcount[q] >= barcount[p]

\* Who runs the handlers of p: its program, in a barrier or any other call of
\* the library, or its progress thread.
Polls(p) ==
  \/ pc[p] \in {"init_barrier", "tell", "wait_replies", "running", "barrier_all", "exit_barrier"}
  \/ service[p] \in {"runs", "told"}

\* place_init: the host of each PE, as GASNet numbers it.
where(p) == given.locp[p]

\* A thread is started on PE 0 and where the host changes to one of a higher
\* number: not on every host if their numbers do not go up.
shmemi_thread_starter(p) == p = 0 \/ where(p - 1) < where(p)

shmemi_service_init(p) ==
  service' = [service EXCEPT ![p] = IF shmemi_thread_starter(p) THEN "runs" ELSE @]

shmemi_tracers_init(p) == stream' = [stream EXCEPT ![p] = logging_filestream_init(given.env)]
shmemi_tracers_fini(p) == stream' = [stream EXCEPT ![p] = "closed"]

shmemi_trace_is_enabled(level) == level \in parse_log_levels(given.env)

\* A message of a level that is on is written to the stream, be it closed.
shmemi_trace(p, level) ==
  /\ spoilt' = IF stream[p] = "closed" /\ shmemi_trace_is_enabled(level)
               THEN spoilt \cup {p} ELSE spoilt
  /\ UNCHANGED stream

\* It is for shmem_init to go on only in a PE that is not up and has not been.
check_pe_status(p) == pe_status[p] = "UNINITIALIZED"

\* shmemi_comms_exit, in a PE that is not down: the barrier.  To bail out is the
\* same, after a line on stderr.
shmemi_comms_exit(p) == Notify(p) /\ Goto(p, "exit_barrier")
comms_bailout(p) == shmemi_comms_exit(p)

-----------------------------------------------------------------------------
\* shmemi_comms_init: the size of the heap, the progress thread, the messages.  To
\* bail out now, before GASNet is attached, is the end of the PE.
StartUp(p) ==
  /\ pc[p] = "start"
  /\ check_pe_status(p)
  /\ \E size \in shmemi_comms_get_segment_size(given.env) :
       /\ heapsize' = [heapsize EXCEPT ![p] = size.bytes]
       /\ IF size.ok
          THEN /\ Goto(p, "memory")
               /\ shmemi_service_init(p)
               /\ shmemi_tracers_init(p)
          ELSE /\ Goto(p, "crashed")
               /\ UNCHANGED <<service, stream>>
  /\ UNCHANGED <<given, pe_status, exiting, barcount, called, heap, puts, setup, spoilt>>

\* The heap, and the first barrier.  Without memory the PE bails out: that too is
\* a barrier, the one that all the others call next.
AllocateHeap(p) ==
  /\ pc[p] = "memory"
  /\ IF p \in given.poor
     THEN /\ comms_bailout(p)
          /\ UNCHANGED heap
     ELSE /\ Notify(p)
          /\ heap' = [heap EXCEPT ![p] = "live"]
          /\ Goto(p, "init_barrier")
  /\ UNCHANGED <<given, pe_status, exiting, called, heapsize, service, puts, setup, output>>

\* The entry of its own heap ...
StoreOwn(p) ==
  /\ pc[p] = "init_barrier"
  /\ Passed(p)
  /\ seginfo_table' = [seginfo_table EXCEPT ![p] = @ \cup {p}]
  /\ Goto(p, "tell")
  /\ UNCHANGED <<given, pe_status, exiting, barcount, called, heapsize, heap, service, puts, replies, hsl, net, output>>

\* ... goes to all the others.  They are told one by one; only the messages
\* they get tell the difference.
TellOthers(p) ==
  /\ pc[p] = "tell"
  /\ net' = net \cup {[kind |-> "setup_out", src |-> p, dst |-> q] : q \in PE \ {p}}
  /\ Goto(p, "wait_replies")
  /\ UNCHANGED <<given, pe_status, exiting, barcount, called, heapsize, heap, service, puts, seginfo_table, replies, hsl, output>>

program == <<given, pc, pe_status, exiting, barcount, called, heapsize, heap, service, puts, output>>

Bug_ReplyFirst(m) ==
  /\ m.kind = "setup_out"
  /\ Polls(m.dst)
  /\ net' = (net \ {m}) \cup {[kind |-> "setup_bak", src |-> m.dst, dst |-> m.src]}
  /\ UNCHANGED <<program, seginfo_table, replies, hsl>>

\* handler_segsetup_out: note the sender's heap, reply.
SegsetupOut(m) ==
  /\ m.kind = "setup_out"
  /\ Polls(m.dst)
  /\ seginfo_table' = [seginfo_table EXCEPT ![m.dst] = @ \cup {m.src}]
  /\ net' = (net \ {m}) \cup {[kind |-> "setup_bak", src |-> m.dst, dst |-> m.src]}
  /\ UNCHANGED <<program, replies, hsl>>

Bug_BakUnlocked(m) ==
  /\ m.kind = "setup_bak"
  /\ Polls(m.dst)
  /\ hsl' = [hsl EXCEPT ![m.dst] = replies[m.dst]]
  /\ net' = net \ {m}
  /\ UNCHANGED <<program, seginfo_table, replies>>

\* handler_segsetup_bak: the counter goes up, under a lock.
SegsetupBak(m) ==
  /\ m.kind = "setup_bak"
  /\ Polls(m.dst)
  /\ hsl[m.dst] = Free
  /\ hsl' = [hsl EXCEPT ![m.dst] = replies[m.dst]]
  /\ net' = net \ {m}
  /\ UNCHANGED <<program, seginfo_table, replies>>

SegsetupBakStore(p) ==
  /\ hsl[p] # Free
  /\ replies' = [replies EXCEPT ![p] = hsl[p] + 1]
  /\ hsl' = [hsl EXCEPT ![p] = Free]
  /\ UNCHANGED <<program, seginfo_table, net>>

\* All have replied: the rest of shmemi_comms_init.
Run(p) ==
  /\ pc[p] = "wait_replies"
  /\ replies[p] = Cardinality(PE) - 1
  /\ pe_status' = [pe_status EXCEPT ![p] = "RUNNING"]
  /\ Goto(p, "running")
  /\ UNCHANGED <<given, exiting, barcount, called, heapsize, heap, service, puts, setup, output>>

-----------------------------------------------------------------------------
\* shmem_init or start_pes once more: a message and no more.
InitAgain(p) ==
  /\ pc[p] \in {"running", "down"}
  /\ ~check_pe_status(p)
  /\ shmemi_trace(p, "INFO")
  /\ UNCHANGED <<given, pc, pe_status, exiting, barcount, called, heapsize, heap, service, puts, setup>>

\* The checks of the build with HAVE_FEATURE_DEBUG: the caller is up, and the PE
\* it names is one.
INIT_CHECK(p) == pe_status[p] = "RUNNING"
PE_RANGE_CHECK(pe) == pe \in 0 .. Cardinality(PE) - 1

\* The program puts to a PE's heap, whether it knows it or not; the put lands
\* when it will.
Put(p, q) ==
  /\ pc[p] = "running" /\ INIT_CHECK(p) /\ PE_RANGE_CHECK(q)
  /\ Cardinality(puts) < MaxPuts
  /\ puts' = puts \cup {[src |-> p, dst |-> q, call |-> called[p]]}
  /\ UNCHANGED <<given, pc, pe_status, exiting, barcount, called, heapsize, heap, service, setup, output>>

Land(m) ==
  /\ puts' = puts \ {m}
  /\ UNCHANGED <<given, pc, pe_status, exiting, barcount, called, heapsize, heap, service, setup, output>>

Quiet(p) == \A m \in puts : m.src # p

\* shmem_barrier_all: its own puts are done, then the function the dispatcher
\* has chosen, if any.
BarrierAll(p) ==
  /\ pc[p] = "running"
  /\ called[p] < Barriers
  /\ Quiet(p)
  /\ called' = [called EXCEPT ![p] = @ + 1]
  /\ IF shmemi_barrier_all_dispatch_init(given.env)
     THEN Notify(p) /\ Goto(p, "barrier_all")
     ELSE Goto(p, "crashed") /\ UNCHANGED barcount
  /\ UNCHANGED <<given, pe_status, exiting, heapsize, heap, service, puts, setup, output>>

LeaveBarrierAll(p) ==
  /\ pc[p] = "barrier_all"
  /\ Passed(p)
  /\ Goto(p, "running")
  /\ UNCHANGED <<given, pe_status, exiting, barcount, called, heapsize, heap, service, puts, setup, output>>

-----------------------------------------------------------------------------
\* shmem_finalize.  The program has met the others as often as they it.
Finalize(p) ==
  /\ pc[p] = "running"
  /\ called[p] = Barriers
  /\ shmemi_comms_exit(p)
  /\ UNCHANGED <<given, pe_status, exiting, called, heapsize, heap, service, puts, setup, output>>

\* The program ends: shmemi_comms_finalize is the exit handler.
Exit(p) ==
  /\ pc[p] = "running"
  /\ called[p] = Barriers
  /\ exiting' = exiting \cup {p}
  /\ shmemi_comms_exit(p)
  /\ UNCHANGED <<given, pe_status, called, heapsize, heap, service, puts, setup, output>>

\* A fatal message ends it, here that of a put to a PE there is not.
PutToNobody(p, q) ==
  /\ pc[p] = "running" /\ INIT_CHECK(p) /\ ~PE_RANGE_CHECK(q)
  /\ called[p] = Barriers
  /\ shmemi_trace(p, "FATAL")
  /\ exiting' = exiting \cup {p}
  /\ shmemi_comms_exit(p)
  /\ UNCHANGED <<given, pe_status, called, heapsize, heap, service, puts, setup>>

\* A PE that has finalized ends too, at the latest when it calls the library
\* again: the handler finds it down.
ExitWhenDown(p) ==
  /\ pc[p] = "down"
  /\ pe_status[p] = "SHUTDOWN"
  /\ exiting' = exiting \cup {p}
  /\ Goto(p, "gone")
  /\ UNCHANGED <<given, pe_status, barcount, called, heapsize, heap, service, puts, setup, output>>

shmemi_service_finalize(p) == service' = [service EXCEPT ![p] = IF @ = "runs" THEN "told" ELSE @]

\* Past the barrier the progress thread is told to stop ...
ExitBarrier(p) ==
  /\ pc[p] = "exit_barrier"
  /\ Passed(p)
  /\ shmemi_service_finalize(p)
  /\ Goto(p, "join_service")
  /\ UNCHANGED <<given, pe_status, exiting, barcount, called, heapsize, heap, puts, setup, output>>

\* ... which it does between two polls ...
ServiceStops(p) ==
  /\ service[p] = "told"
  /\ service' = [service EXCEPT ![p] = "stopped"]
  /\ UNCHANGED <<given, pc, pe_status, exiting, barcount, called, heapsize, heap, puts, setup, output>>

\* ... and, once it has, the heap is freed, and the log closed after a message.  A
\* PE that bailed out has no pool for destroy_mspace to look into.
Shutdown(p) ==
  /\ pc[p] = "join_service"
  /\ service[p] \in {"none", "stopped"}
  /\ IF heap[p] = "live"
     THEN /\ heap' = [heap EXCEPT ![p] = "freed"]
          /\ pe_status' = [pe_status EXCEPT ![p] = "SHUTDOWN"]
          /\ shmemi_tracers_fini(p)
          /\ Goto(p, IF p \in exiting THEN "gone" ELSE "down")
     ELSE Goto(p, "crashed") /\ UNCHANGED <<heap, pe_status, stream>>
  /\ UNCHANGED <<given, exiting, barcount, called, heapsize, service, puts, setup, spoilt>>

Program(p) ==
  \/ StartUp(p) \/ AllocateHeap(p) \/ StoreOwn(p) \/ TellOthers(p) \/ Run(p)
  \/ LeaveBarrierAll(p) \/ ExitBarrier(p) \/ Shutdown(p) \/ ExitWhenDown(p)

Handle(m) == SegsetupOut(m) \/ SegsetupBak(m)

Next ==
  \/ \E p \in PE : Program(p) \/ SegsetupBakStore(p) \/ ServiceStops(p)
  \/ \E p \in PE : InitAgain(p) \/ BarrierAll(p) \/ Finalize(p) \/ Exit(p)
  \/ \E m \in net : Handle(m)
  \/ \E p \in PE, q \in PE \cup {Cardinality(PE)} : Put(p, q) \/ PutToNobody(p, q)
  \/ \E m \in puts : Land(m)

Spec == Init /\ [][Next]_vars

\* The program goes on, its progress thread too, and messages are handled where
\* somebody polls again and again; a running program without a progress thread
\* polls because it calls the library again and again.  Nobody is obliged to
\* finalize, but who has does not compute for ever.
FairSpec ==
  /\ Spec
  /\ \A p \in PE :
       /\ WF_vars(Program(p)) /\ WF_vars(SegsetupBakStore(p)) /\ WF_vars(ServiceStops(p))
       /\ SF_vars(\E m \in net : m.dst = p /\ Handle(m))

-----------------------------------------------------------------------------
Leaving(p) == pc[p] \in {"exit_barrier", "join_service", "down", "gone"}
Past(p) == pc[p] \in {"running", "barrier_all"} \/ Leaving(p)

\* The heap of a PE that has come up is there for all to use: its replies came
\* from PEs that had stored where it is ...
HeapsKnown == \A p, q \in PE : pe_status[p] # "UNINITIALIZED" => p \in seginfo_table[q]

\* ... it is freed when nobody can put to it any more ...
FreedAtTheEnd == \A p, q \in PE : heap[p] = "freed" => Leaving(q)

\* ... and what a shmem_barrier_all was to flush is there when anyone has left it.
FlushedByBarrier ==
  \A m \in puts, q \in PE :
    called[q] > m.call => called[q] = m.call + 1 /\ pc[q] \in {"barrier_all", "crashed"}

HeapsReachable == HeapsKnown /\ FreedAtTheEnd /\ FlushedByBarrier

\* utils/unitparse.c:106: "Return segment size, scaled where necessary by unit", and
\* "make sure aligned to page size multiples" (shmemi_comms_get_segment_size).  A
\* heap is the least number of whole pages that holds what the environment asks
\* for, if a size_t can tell it.
HeapAsAsked ==
  CanBeHad(given.env) => \A p \in PE : heap[p] # "none" =>
    /\ heapsize[p] % GASNET_PAGESIZE = 0
    /\ heapsize[p] - HeapAsked(given.env) \in 0 .. GASNET_PAGESIZE - 1

\* Every PE comes up, and all end once all have called finalize or exit: neither
\* the wait for replies, the join of the progress thread nor the second call of
\* shmemi_comms_exit is for ever.
Sound ==
  given.poor = {} /\ CanBeHad(given.env) /\ shmemi_barrier_all_dispatch_init(given.env)

AllComeAndGo ==
  Sound => /\ \A p \in PE : <>Past(p)
           /\ (\A p \in PE : Leaving(p)) ~> (\A p \in PE : pc[p] = "gone")

\* comms-inline.h, at the end of shmemi_symmetric_memory_init: "and make sure
\* everyone is up-to-speed" (a barrier that is commented out).  A PE that runs
\* knows the heaps of all.
\* The code does not keep this promise: see Divergences in README.md.
EveryoneUpToSpeed ==
  \A p, q \in PE : pe_status[p] = "RUNNING" => q \in seginfo_table[p]

\* comms-inline.h, at the barrier of shmemi_comms_exit: "ok, no more pending I/O".
\* No put is on its way to a heap that has been freed.
\* The code does not keep this promise: see Divergences in README.md.
NoMorePendingIO == \A m \in puts : heap[m.dst] # "freed"

\* comms-inline.h, after the comms_bailout of shmemi_symmetric_memory_init: "NOT
\* REACHED".  If one PE has no heap, nobody gets to run.
\* The code does not keep this promise: see Divergences in README.md.
NobodyRunsWithout == given.poor # {} => \A p \in PE : pe_status[p] # "RUNNING"

\* comms-inline.h, in shmemi_thread_starter: "only start thread if I am first PE on
\* a host".  There is a progress thread on every host.
\* The code does not keep this promise: see Divergences in README.md.
ThreadOnEveryHost ==
  \A p \in PE : \E q \in PE : where(q) = where(p) /\ shmemi_thread_starter(q)

\* No message goes to a stream that has been closed.
\* The code does not keep this promise: see Divergences in README.md.
LogOpen == spoilt = {}

=============================================================================
