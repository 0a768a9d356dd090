---------------------------- MODULE Environment -----------------------------
(***************************************************************************)
(* What the library reads from its environment: the size of the symmetric  *)
(* heap (utils/unitparse.c and shmemi_comms_get_segment_size), the levels  *)
(* of its messages and where they go (utils/trace.c), and the algorithm of *)
(* shmem_barrier_all.                                                      *)
(*                                                                         *)
(* An environment is a function from the names that are set to their       *)
(* values.  A size is a number with a unit, "" for none, a list of levels  *)
(* a sequence of names in upper case, a file name whether it can be opened.*)
(***************************************************************************)
EXTENDS Integers, SequencesExt

CONSTANTS
  DEFAULT_HEAP_SIZE, GASNET_PAGESIZE,
  multiplier,   \* from one unit to the next
  SizeMod,      \* a size_t is below it
  Garbage       \* sizes that an uninitialised variable may hold

ASSUME EnvironmentAssumption ==
  /\ GASNET_PAGESIZE \in Nat \ {0} /\ multiplier \in Nat \ {0}
  /\ SizeMod \in Nat \ {0} /\ SizeMod % GASNET_PAGESIZE = 0
  /\ DEFAULT_HEAP_SIZE \in 0 .. SizeMod - 1 /\ DEFAULT_HEAP_SIZE % GASNET_PAGESIZE = 0
  /\ Garbage \subseteq 0 .. SizeMod - 1

Set(env, names) == DOMAIN env \cap names # {}

\* A size is read digit by digit: it is never negative.
IsEnvironment(env) ==
  Set(env, {"SHMEM_SYMMETRIC_HEAP_SIZE"}) => env.SHMEM_SYMMETRIC_HEAP_SIZE.number \in Nat

-----------------------------------------------------------------------------
units_string == <<"", "k", "m", "g", "t", "p", "e">>

Known(unit) == \E i \in 1 .. 7 : units_string[i] = unit

\* What one of each unit is: "bytes *= multiplier" until the unit is found.  It is
\* cut to a size_t only below.
unit_bytes[i \in 1 .. 7] == IF i = 1 THEN 1 ELSE multiplier * unit_bytes[i - 1]

parse_unit(unit) == unit_bytes[CHOOSE i \in 1 .. 7 : units_string[i] = unit]

\* A number too large for a size_t wraps.  With an unknown unit neither the size
\* nor the flag is assigned: the caller finds what its stack holds.
shmemi_parse_size(size) ==
  IF Known(size.unit)
  THEN {[ok |-> TRUE, bytes |-> (parse_unit(size.unit) * size.number) % SizeMod]}
  ELSE [ok : BOOLEAN, bytes : Garbage]

Bug_Pages(bytes) == ((bytes \div GASNET_PAGESIZE + 1) * GASNET_PAGESIZE) % SizeMod

\* Up to the next multiple of the page size, which may wrap too.
Pages(bytes) ==
  IF bytes % GASNET_PAGESIZE = 0 THEN bytes
  ELSE ((bytes \div GASNET_PAGESIZE + 1) * GASNET_PAGESIZE) % SizeMod

\* The sizes the heap may get; not ok if the program is to bail out.
shmemi_comms_get_segment_size(env) ==
  IF Set(env, {"SHMEM_SYMMETRIC_HEAP_SIZE"})
  THEN {[o EXCEPT !.bytes = Pages(@)] : o \in shmemi_parse_size(env.SHMEM_SYMMETRIC_HEAP_SIZE)}
  ELSE {[ok |-> TRUE, bytes |-> DEFAULT_HEAP_SIZE]}

-----------------------------------------------------------------------------
tracers ==
  {"FATAL", "SYMBOLS", "DEBUG", "INFO", "INIT", "FINALIZE", "ATOMIC", "AUTH", "BARRIER",
   "BROADCAST", "REDUCTION", "CACHE", "COLLECT", "FENCE", "QUIET", "LOCK", "MEMORY",
   "NOTICE", "SERVICE", "PROFILING"}

\* The older variables stand for lists of one level.  Each replaces what was set
\* before; their heap size comes too late to be read.
Compat == <<[names |-> {"SHMEM_DEBUG", "SMA_DEBUG"}, level |-> "ALL"],
            [names |-> {"SHMEM_INFO", "SMA_INFO"}, level |-> "INFO"],
            [names |-> {"SHMEM_VERSION", "SMA_VERSION"}, level |-> "INIT"]>>

compat_environment_init(env) ==
  LET given == SelectSeq(Compat, LAMBDA c : Set(env, c.names))
  IN IF given # <<>> THEN <<Last(given).level>>
     ELSE IF Set(env, {"SHMEM_LOG_LEVELS"}) THEN env.SHMEM_LOG_LEVELS ELSE <<>>

\* Names nobody knows are passed over.
shmemi_trace_enable_text(names) == names \cap tracers
shmemi_trace_enable_all == tracers

\* A list is read up to the first "all"; fatal messages are always on.
parse_log_levels(env) ==
  LET listed == ToSet(compat_environment_init(env))
  IN {"FATAL"} \cup (IF "ALL" \in listed THEN shmemi_trace_enable_all
                    ELSE shmemi_trace_enable_text(listed))

\* Messages go to a file that is named and can be opened.
logging_filestream_init(env) ==
  IF Set(env, {"SHMEM_LOG_FILE"}) /\ env.SHMEM_LOG_FILE = "opens" THEN "file" ELSE "stderr"

\* shmemi_barrier_all_dispatch_init: there is one algorithm, and any other name
\* leaves the function pointer null.
shmemi_barrier_all_dispatch_init(env) ==
  IF Set(env, {"SHMEM_BARRIER_ALL_ALGORITHM"}) THEN env.SHMEM_BARRIER_ALL_ALGORITHM = "linear"
  ELSE TRUE

-----------------------------------------------------------------------------
\* What an environment asks for, as far as it can be had: the least whole number
\* of pages that holds it.
HeapAsked(env) ==
  IF Set(env, {"SHMEM_SYMMETRIC_HEAP_SIZE"})
  THEN LET size == env.SHMEM_SYMMETRIC_HEAP_SIZE IN size.number * parse_unit(size.unit)
  ELSE DEFAULT_HEAP_SIZE

CanBeHad(env) ==
  Set(env, {"SHMEM_SYMMETRIC_HEAP_SIZE"}) =>
    /\ Known(env.SHMEM_SYMMETRIC_HEAP_SIZE.unit)
    /\ HeapAsked(env) + GASNET_PAGESIZE <= SizeMod

=============================================================================
