--------------------------- MODULE BroadcastTree ----------------------------
(***************************************************************************)
(* shmem_broadcast with its default algorithm, the tree one                *)
(* (broadcast/broadcast-tree.c).  A PE enters by setting pSync[0] to 0;    *)
(* its parent polls that, puts the data, fences and puts 1 there.  A PE    *)
(* that has its data copies it to its own source, feeds its children,      *)
(* waits until they have counted themselves in pSync[1] and counts itself  *)
(* on its parent.                                                          *)
(*                                                                         *)
(* Calls are numbered; the data of call n is n.                            *)
(***************************************************************************)
EXTENDS TwoTree, ActiveSet

CONSTANTS
  Roots,            \* the roots the program may pass, as indices
  SeparateRoots     \* does the program synchronise before it passes another root?

ASSUME BroadcastAssumption ==
  Roots \subseteq 0 .. PE_size - 1 /\ SeparateRoots \in BOOLEAN

VARIABLES
  roots,    \* PE_root of each call: the PEs agree about it
  pSync     \* pSync[p][0], pSync[p][1] of each PE

\* The data areas hold the number of the call whose data they hold, 0 for other data.
treevars == <<roots, calls, pc, pSync, source, target, flight>>

NotReady == 0       \* what pSync[0] says to a parent ...
IsReady == 1        \* ... and to the PE itself

\* The call p is in, or was in last, its root and p's place in its tree.
RootPE(n) == PE_start + step * roots[n]
IsRoot(p) == p = RootPE(calls[p])
Place(p) == build_tree(PE_start, step, roots[calls[p]], PE_size, p)

no_children(p) == IF Place(p).child_r # NoPE THEN 2 ELSE IF Place(p).child_l # NoPE THEN 1 ELSE 0

SetSync(p, i, v) == pSync' = [pSync EXCEPT ![p] = [@ EXCEPT ![i] = v]]

TreeInit ==
  /\ roots \in [1 .. MaxCalls -> Roots]
  /\ calls = [p \in Member |-> 0]
  /\ pc = [p \in Member |-> "outside"]
  /\ pSync = [p \in Member |-> [i \in {0, 1} |-> SYNC]]
  /\ source = [p \in Member |-> 0]
  /\ target = [p \in Member |-> 0]
  /\ flight = {}

-----------------------------------------------------------------------------
NewRoot(p) == calls[p] > 0 /\ roots[calls[p] + 1] # roots[calls[p]]

\* The program calls, the root with new data.  A program that synchronises
\* between calls with different roots has seen all PEs through the call before;
\* with the same root calls follow each other freely.
TreeCall(p) ==
  /\ pc[p] = "outside"
  /\ calls[p] < MaxCalls
  /\ SeparateRoots /\ NewRoot(p) =>
       \A q \in Member : calls[q] > calls[p] \/ (calls[q] = calls[p] /\ pc[q] = "outside")
  /\ calls' = [calls EXCEPT ![p] = @ + 1]
  /\ source' = [source EXCEPT ![p] = IF p = RootPE(calls[p] + 1) THEN calls[p] + 1 ELSE 0]
  /\ Goto(p, "enter")
  /\ UNCHANGED <<roots, pSync, target, flight>>

\* Both flags are restored from the last call; then they are cleared.  A lone
\* PE returns at once.
Enter(p) ==
  /\ pc[p] = "enter"
  /\ pSync[p] = [i \in {0, 1} |-> SYNC]
  /\ pSync' = [pSync EXCEPT ![p] = [i \in {0, 1} |-> NotReady]]
  /\ Goto(p, CASE PE_size = 1 -> "outside"
               [] PE_size > 1 /\ IsRoot(p) -> "root"
               [] OTHER -> "receive")
  /\ UNCHANGED <<roots, calls, source, target, flight>>

RootStart(p) ==
  /\ pc[p] = "root"
  /\ SetSync(p, 0, SYNC)
  /\ Goto(p, "left")
  /\ UNCHANGED <<roots, calls, source, target, flight>>

\* The data is there: it goes to the PE's own source area too.
Receive(p) ==
  /\ pc[p] = "receive"
  /\ pSync[p][0] = IsReady
  /\ SetSync(p, 0, SYNC)
  /\ source' = [source EXCEPT ![p] = target[p]]
  /\ Goto(p, "left")
  /\ UNCHANGED <<roots, calls, target, flight>>

\* A child, the left one first, ...
Side == [left |-> "child_l", right |-> "child_r"]
Fence == [left |-> "fence_left", right |-> "fence_right"]
Child(p) == Place(p)[Side[pc[p]]]
After(p, side) == IF side = "left" THEN "right" ELSE IF IsRoot(p) THEN "count" ELSE "fed"

\* ... if there is one, ...
NoChild(p) ==
  /\ pc[p] \in DOMAIN Side
  /\ Child(p) = NoPE
  /\ Goto(p, After(p, pc[p]))
  /\ UNCHANGED <<roots, calls, pSync, source, target, flight>>

Bug_ChildNotPolled(p) ==
  /\ pc[p] \in DOMAIN Side
  /\ Child(p) # NoPE
  /\ flight' = flight \cup {[src |-> p, dst |-> Child(p), what |-> "data", val |-> source[p]]}
  /\ Goto(p, Fence[pc[p]])
  /\ UNCHANGED <<roots, calls, pSync, source, target>>

\* ... is polled until it has entered, and then gets the data ...
PutData(p) ==
  /\ pc[p] \in DOMAIN Side
  /\ Child(p) # NoPE
  /\ pSync[Child(p)][0] = NotReady
  /\ flight' = flight \cup {[src |-> p, dst |-> Child(p), what |-> "data", val |-> source[p]]}
  /\ Goto(p, Fence[pc[p]])
  /\ UNCHANGED <<roots, calls, pSync, source, target>>

Fenced == [fence_left |-> "left", fence_right |-> "right"]

Bug_NoFence(p) ==
  /\ pc[p] \in DOMAIN Fenced
  /\ flight' = flight \cup {[src |-> p, dst |-> Place(p)[Side[Fenced[pc[p]]]], what |-> "flag", val |-> IsReady]}
  /\ Goto(p, After(p, Fenced[pc[p]]))
  /\ UNCHANGED <<roots, calls, pSync, source, target>>

\* ... and, when that has landed, the flag.
PutFlag(p) ==
  /\ pc[p] \in DOMAIN Fenced
  /\ \A m \in flight : m.src # p
  /\ flight' = flight \cup {[src |-> p, dst |-> Place(p)[Side[Fenced[pc[p]]]], what |-> "flag", val |-> IsReady]}
  /\ Goto(p, After(p, Fenced[pc[p]]))
  /\ UNCHANGED <<roots, calls, pSync, source, target>>

TreeLand(m) ==
  /\ flight' = flight \ {m}
  /\ IF m.what = "data"
     THEN target' = [target EXCEPT ![m.dst] = m.val] /\ UNCHANGED pSync
     ELSE SetSync(m.dst, 0, m.val) /\ UNCHANGED target
  /\ UNCHANGED <<roots, calls, pc, source>>

\* All but the root reset their flag once more.
Fed(p) ==
  /\ pc[p] = "fed"
  /\ SetSync(p, 0, SYNC)
  /\ Goto(p, "count")
  /\ UNCHANGED <<roots, calls, source, target, flight>>

Bug_CountNotRestored(p) ==
  /\ pc[p] = "count"
  /\ pSync[p][1] = no_children(p)
  /\ Goto(p, IF IsRoot(p) THEN "outside" ELSE "report")
  /\ UNCHANGED <<roots, calls, pSync, source, target, flight>>

\* The count is restored when the children, if any, have reported.
Count(p) ==
  /\ pc[p] = "count"
  /\ no_children(p) > 0 => pSync[p][1] = no_children(p)
  /\ SetSync(p, 1, SYNC)
  /\ Goto(p, IF IsRoot(p) THEN "outside" ELSE "report")
  /\ UNCHANGED <<roots, calls, source, target, flight>>

\* shmem_long_inc on the parent, and the PE returns.
Report(p) ==
  /\ pc[p] = "report"
  /\ SetSync(Place(p).parent, 1, pSync[Place(p).parent][1] + 1)
  /\ Goto(p, "outside")
  /\ UNCHANGED <<roots, calls, source, target, flight>>

TreeLibraryStep(p) ==
  \/ Enter(p) \/ RootStart(p) \/ Receive(p) \/ NoChild(p) \/ PutData(p) \/ PutFlag(p)
  \/ Fed(p) \/ Count(p) \/ Report(p)

TreeLandFrom(p) == \E m \in flight : m.src = p /\ TreeLand(m)

TreeNext == \E p \in Member : TreeCall(p) \/ TreeLibraryStep(p) \/ TreeLandFrom(p)

TreeSpec == TreeInit /\ [][TreeNext]_treevars

\* A PE in a call keeps running, puts land, and a program whose other PEs have
\* called a collective operation calls it too.
TreeFairSpec ==
  /\ TreeSpec
  /\ \A p \in Member : WF_treevars(TreeCall(p)) /\ WF_treevars(TreeLibraryStep(p)) /\ WF_treevars(TreeLandFrom(p))

-----------------------------------------------------------------------------
\* Whoever returns has the root's data of that call; the root, whose target is
\* left alone, returns when all the others have it.
ReturnedWithData ==
  \A p \in Member : Returned(p) =>
    IF IsRoot(p) THEN \A q \in Member \ {p} : target[q] >= calls[p]
                 ELSE target[p] = calls[p]

\* A PE whose children have all reported leaves pSync as it found it.
SyncRestored ==
  \A p \in Member : Returned(p) => pSync[p] = [i \in {0, 1} |-> SYNC]

\* Data is put only to a PE that is in the same call and waits for it.
PutsAreExpected ==
  \A m \in flight : calls[m.dst] = calls[m.src] /\ pc[m.dst] = "receive"

\* shmem.h declares the parameter "const void *source": a call leaves the source
\* area alone.
\* The code does not keep this promise: see Divergences in README.md.
SourceUnchanged == [][\A p \in Member : source'[p] # source[p] => pc[p] = "outside"]_treevars

\* All calls return, at every PE.
CallsReturn == <>(\A p \in Member : calls[p] = MaxCalls /\ pc[p] = "outside")

-----------------------------------------------------------------------------
(* The inductive invariant.  A PE has the data of a call only if its parent *)
(* has put it there, and counts itself only when its children have.  The   *)
(* calls that some PE has not returned from have the same tree, so that a  *)
(* parent that finds its child waiting knows that it waits in this call.   *)

\* How far a PE is in a call, and whether it has come as far as that in call n.
Rank ==
  [enter |-> 1, root |-> 2, receive |-> 2, left |-> 3, fence_left |-> 4, right |-> 5,
   fence_right |-> 6, fed |-> 7, count |-> 8, report |-> 9, outside |-> 10]
Reached(p, n, k) == calls[p] > n \/ (calls[p] = n /\ Rank[pc[p]] >= k)

\* In call n p has its data, has put data and flag to a child, has seen its
\* children report, and has reported.
Received(p, n) == Reached(p, n, 3)
Flagged(p, n, side) == Reached(p, n, IF side = "left" THEN 5 ELSE 7)
Counted(p, n) == Reached(p, n, 9)
Reported(p, n) == Reached(p, n, 10)

\* p's place and children in the tree of call n.
PlaceIn(n, p) == build_tree(PE_start, step, roots[n], PE_size, p)
Kid(n, p, side) == PlaceIn(n, p)[Side[side]]

TreeTypeOK ==
  /\ roots \in [1 .. MaxCalls -> Roots]
  /\ calls \in [Member -> 0 .. MaxCalls]
  /\ pc \in [Member -> DOMAIN Rank]
  /\ pSync \in [Member -> [{0, 1} -> Int]]
  /\ source \in [Member -> Nat]
  /\ target \in [Member -> Nat]

\* Where a PE can be.
PcOK ==
  \A p \in Member :
    /\ calls[p] = 0 => pc[p] = "outside"
    /\ PE_size = 1 => pc[p] \in {"outside", "enter"}
    /\ pc[p] = "root" => IsRoot(p)
    /\ pc[p] \in {"receive", "fed", "report"} => ~IsRoot(p)

\* Down the tree goes the data, up come the reports.
Ordered ==
  \A n \in 1 .. MaxCalls, p \in Member, side \in DOMAIN Side :
    LET c == Kid(n, p, side) IN
    c # NoPE =>
      /\ Received(c, n) => Flagged(p, n, side)
      /\ Counted(p, n) => Reported(c, n)

\* No PE is so far ahead that others are still in a call with another root.
Uniform ==
  \A p, q \in Member : \A n \in 1 .. calls[p] :
    ~Reported(q, n) => roots[n] = roots[calls[p]]

\* pSync[0]: cleared while p waits, up when the data is there and nothing else is
\* on its way to p.
Flags(p) ==
  /\ pc[p] = "root" => pSync[p][0] = NotReady
  /\ pc[p] = "receive" =>
       \/ pSync[p][0] = NotReady
       \/ /\ pSync[p][0] = IsReady
          /\ \A side \in DOMAIN Side, q \in Member :
               Kid(calls[p], q, side) = p => Flagged(q, calls[p], side)
          /\ target[p] = calls[p]
          /\ \A m \in flight : m.dst # p
  /\ pc[p] \notin {"root", "receive"} => pSync[p][0] = SYNC

\* pSync[1]: how many children have reported.
Has(n, p, side) ==
  IF Kid(n, p, side) # NoPE /\ Reported(Kid(n, p, side), n) THEN 1 ELSE 0
Counters(p) ==
  pSync[p][1] = IF pc[p] \in {"enter", "report", "outside"} THEN SYNC
                ELSE Has(calls[p], p, "left") + Has(calls[p], p, "right")

\* Who puts has the data of its call, and who has received has no older data.
Sources ==
  \A p \in Member :
    (pc[p] \in {"left", "right", "fence_left", "fence_right"}
      \/ (pc[p] \in {"enter", "root"} /\ IsRoot(p))) => source[p] = calls[p]
Targets ==
  \A p \in Member :
    /\ target[p] <= calls[p]
    /\ \A n \in 1 .. MaxCalls : p # RootPE(n) /\ Received(p, n) => target[p] >= n

\* Puts go to a child that waits, first the data and then the flag.
Data(p, c, n) == [src |-> p, dst |-> c, what |-> "data", val |-> n]
Flag(p, c) == [src |-> p, dst |-> c, what |-> "flag", val |-> IsReady]
InFlight ==
  \A m \in flight :
    /\ m.src \in Member /\ m.dst \in Member
    /\ calls[m.src] = calls[m.dst] /\ pc[m.dst] = "receive"
    /\ \E side \in DOMAIN Side :
         /\ m.dst = Kid(calls[m.src], m.src, side)
         /\ \/ m = Data(m.src, m.dst, calls[m.src]) /\ pc[m.src] = Fence[side]
            \/ m = Flag(m.src, m.dst) /\ Flagged(m.src, calls[m.src], side)
               /\ target[m.dst] = calls[m.src]
Fences ==
  \A p \in Member, side \in DOMAIN Side : pc[p] = Fence[side] =>
    LET c == Kid(calls[p], p, side)
    IN  /\ c # NoPE /\ calls[c] = calls[p] /\ pc[c] = "receive"
        /\ Data(p, c, calls[p]) \in flight \/ target[c] = calls[p]

TreeIInv ==
  /\ TreeTypeOK /\ PcOK /\ Ordered /\ Uniform /\ Sources /\ Targets /\ InFlight /\ Fences
  /\ PE_size > 1 => \A p \in Member : Flags(p) /\ Counters(p)

=============================================================================
