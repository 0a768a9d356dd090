-------------------------- MODULE GlobalVarProofs --------------------------
(***************************************************************************)
(* Transfers of global variables arrive whole, and exits flush the chunks, *)
(* for any number of PEs, size of variable and size of chunk.              *)
(***************************************************************************)
EXTENDS GlobalVar, TLAPS

-----------------------------------------------------------------------------
\* How a transfer is split into chunks.

\* A quotient and its remainder.
LEMMA Division ==
  ASSUME NEW n \in Nat, NEW d \in Nat \ {0}
  PROVE  /\ n \div d \in Nat /\ n % d \in 0 .. d - 1
         /\ n = ((n \div d) * d) + (n % d)
  OBVIOUS

\* Multiples of a positive number are ordered as their factors are.
LEMMA Multiples ==
  ASSUME NEW d \in Nat \ {0}, NEW k \in Nat, NEW w \in Nat
  PROVE  /\ k * d \in Nat /\ w * d \in Nat
         /\ k * d < w * d => k + 1 <= w
         /\ k <= w => k * d <= w * d
         /\ (k + 1) * d = k * d + d
  OBVIOUS

\* The next chunk is inside the transfer, it is empty only at the end, and the
\* transfer stays split in this way when it is done.
LEMMA ChunkFacts ==
  ASSUME NEW c \in Transfer, Split(c)
  PROVE  /\ ChunkSize(c) \in Nat
         /\ c.offset + ChunkSize(c) <= c.nbytes
         /\ ChunkSize(c) = 0 => c.offset = c.nbytes
         /\ Split([c EXCEPT !.sent = FALSE, !.offset = @ + ChunkSize(c)])
         /\ [c EXCEPT !.sent = FALSE, !.offset = @ + ChunkSize(c)] \in Transfer
<1> DEFINE n == c.nbytes
           d == MaxData
           w == n \div d
           r == n % d
           next == [c EXCEPT !.sent = FALSE, !.offset = @ + ChunkSize(c)]
<1>1. n \in Nat /\ d \in Nat \ {0} /\ c.offset \in Nat /\ c.offset <= n /\ n <= Size /\ Size \in Nat
  BY GlobalVarAssumption DEF Transfer, Split
<1>2. w \in Nat /\ r \in 0 .. d - 1 /\ n = (w * d) + r  BY <1>1, Division
<1>3. w * d \in Nat /\ r \in Nat  BY <1>1, <1>2, Multiples
<1>4. Whole(c) = w * d  BY DEF Whole
<1>5. ChunkSize(c) = IF c.offset < w * d THEN d ELSE IF c.offset = w * d THEN r ELSE 0
  BY <1>4 DEF ChunkSize
<1>6. next.offset = c.offset + ChunkSize(c) /\ next.nbytes = n  BY DEF Transfer
<1>7. next \in Transfer <=> c.offset + ChunkSize(c) \in 0 .. Size  BY DEF Transfer
<1>8. Split(next) <=>
        /\ c.offset + ChunkSize(c) <= n
        /\ \/ \E k \in 0 .. w : c.offset + ChunkSize(c) = k * d
           \/ c.offset + ChunkSize(c) = n
  BY <1>6 DEF Split
<1>9. /\ c.offset = n \/ \E k \in 0 .. w : c.offset = k * d
      /\ \A k \in Nat : /\ k * d \in Nat
                        /\ k * d < w * d => k + 1 <= w
                        /\ k <= w => k * d <= w * d
                        /\ (k + 1) * d = k * d + d
  BY <1>1, <1>2, Multiples DEF Split
<1> HIDE DEF n, d, w, r, next
<1>10. CASE c.offset < w * d
  <2>1. c.offset # n  BY <1>1, <1>2, <1>3, <1>10
  <2>2. PICK k \in 0 .. w : c.offset = k * d  BY <1>9, <2>1
  <2>3. k + 1 <= w /\ (k + 1) * d = k * d + d /\ k + 1 \in 0 .. w
    BY <1>2, <1>10, <1>9, <2>2
  <2>4. (k + 1) * d <= w * d /\ (k + 1) * d \in Nat  BY <1>2, <1>9, <2>3
  <2>5. ChunkSize(c) = d  BY <1>5, <1>10
  <2>6. c.offset + ChunkSize(c) = (k + 1) * d  BY <2>2, <2>3, <2>5
  <2>7. c.offset + ChunkSize(c) <= n /\ c.offset + ChunkSize(c) \in 0 .. Size
    BY <1>1, <1>2, <1>3, <2>4, <2>6
  <2> QED  BY <1>1, <1>7, <1>8, <1>10, <2>1, <2>3, <2>5, <2>6, <2>7 DEF n, next
<1>11. CASE c.offset = w * d
  <2>1. ChunkSize(c) = r  BY <1>3, <1>5, <1>11
  <2>2. c.offset + ChunkSize(c) = n  BY <1>2, <1>11, <2>1
  <2> QED  BY <1>1, <1>3, <1>7, <1>8, <2>1, <2>2 DEF n, next
<1>12. CASE c.offset > w * d
  <2>1. ChunkSize(c) = 0  BY <1>1, <1>3, <1>5, <1>12
  <2>2. ASSUME NEW k \in 0 .. w PROVE c.offset # k * d  BY <1>1, <1>2, <1>3, <1>12, <1>9
  <2>3. c.offset = n  BY <1>9, <2>2
  <2> QED  BY <1>1, <1>7, <1>8, <2>1, <2>3 DEF n, next
<1>13. c.offset < w * d \/ c.offset = w * d \/ c.offset > w * d  BY <1>1, <1>3
<1> QED  BY <1>10, <1>11, <1>12, <1>13 DEF n, next

\* A chunk's bytes are bytes of the variable.
LEMMA ChunkInByte ==
  ASSUME NEW c \in Transfer, Split(c)
  PROVE  Chunk(c) \subseteq Byte
<1>1. ChunkSize(c) \in Nat /\ c.offset + ChunkSize(c) <= c.nbytes  BY ChunkFacts
<1> QED  BY <1>1, GlobalVarAssumption DEF Chunk, Byte, Transfer

-----------------------------------------------------------------------------
\* What a step does not touch keeps its part of the invariant.

LEMMA Frame ==
  ASSUME NEW r \in PE, Progress(r), call[r] \in Transfer \cup {Idle},
         call'[r] = call[r], ops'[r] = ops[r], local'[r] = local[r],
         completed'[r] \in {completed[r], 0},
         \A q \in PE : var'[q][r] = var[q][r] /\ want'[q][r] = want[q][r],
         \A m \in net : m.src = r /\ m.kind = "put" => m \in net'
  PROVE  Progress(r)'
<1>1. call[r].kind # "none" => call[r].pe \in PE  BY DEF Transfer, Idle
<1>2. Written(r)'
  <2> SUFFICES ASSUME call[r].kind = "put", NEW i \in Byte
               PROVE  LET c == call[r] IN
                        /\ i < c.nbytes => want'[c.pe][r][i] = <<ops'[r], i>>
                        /\ i < c.offset \/ c.nbytes <= i => var'[c.pe][r][i] = want'[c.pe][r][i]
                        /\ c.sent /\ i \in Chunk(c) =>
                             \/ \E m \in net' : m.src = r /\ m.kind = "put"
                             \/ var'[c.pe][r][i] = want'[c.pe][r][i]
    BY DEF Written, Chunk, Byte
  <2> QED  BY <1>1 DEF Progress, Written
<1>3. Untouched(r)'  BY <1>1 DEF Progress, Untouched
<1>4. Fetched(r)'  BY <1>1 DEF Progress, Fetched, Chunk, Byte
<1>5. (call[r].kind # "none" => Split(call[r]))'  BY DEF Progress, Split
<1> QED  BY <1>2, <1>3, <1>4, <1>5 DEF Progress

LEMMA FrameChunk ==
  ASSUME NEW m, m.src \in PE, Carries(m),
         call'[m.src] = call[m.src], ops'[m.src] = ops[m.src],
         completed'[m.src] = completed[m.src], call[m.src] \in Transfer \cup {Idle},
         \A q \in PE : want'[q][m.src] = want[q][m.src]
  PROVE  Carries(m)'
<1>1. call[m.src].kind # "none" => call[m.src].pe \in PE  BY DEF Transfer, Idle
<1> QED  BY <1>1 DEF Carries, Chunk

\* A step of p's transfer keeps the invariant if it keeps p's part of it.
LEMMA StepOf ==
  ASSUME IInv, NEW p \in PE, TypeOK', Counted', Progress(p)',
         \A r \in PE \ {p} :
           /\ call'[r] = call[r] /\ ops'[r] = ops[r] /\ local'[r] = local[r]
           /\ completed'[r] = completed[r]
           /\ \A q \in PE : var'[q][r] = var[q][r] /\ want'[q][r] = want[q][r],
         \A m \in net : m.src # p => m \in net',
         \A m \in net' : m.kind # "exit" => (IF m.src = p THEN Carries(m)' ELSE m \in net),
         \A m, n \in net' :
           m.kind # "exit" /\ n.kind # "exit" /\ m.src = p /\ n.src = p => m = n
  PROVE  IInv'
<1>1. ASSUME NEW r \in PE PROVE Progress(r)'
  <2>1. CASE r = p  BY <2>1
  <2>2. CASE r # p
    <3>1. Progress(r) /\ call[r] \in Transfer \cup {Idle}  BY DEF IInv, TypeOK
    <3> QED  BY <2>2, <3>1, Frame
  <2> QED  BY <2>1, <2>2
<1>2. ASSUME NEW m \in net', m.kind # "exit" PROVE Carries(m)'
  <2>1. CASE m.src = p  BY <1>2, <2>1
  <2>2. CASE m.src # p
    <3>1. m \in net /\ Carries(m) /\ m.src \in PE  BY <1>2, <2>2 DEF IInv, OneChunk, TypeOK
    <3>2. call[m.src] \in Transfer \cup {Idle}  BY <3>1 DEF IInv, TypeOK
    <3> QED  BY <2>2, <3>1, <3>2, FrameChunk
  <2> QED  BY <2>1, <2>2
<1>3. OneChunk'  BY <1>2 DEF OneChunk, IInv
<1> QED  BY <1>1, <1>3 DEF IInv

\* A step that leaves the transfers and their messages alone keeps it too.
LEMMA Unrelated ==
  ASSUME IInv, TypeOK', Counted', UNCHANGED <<var, local, want, ops, call, completed>>,
         \A m : m.kind # "exit" => (m \in net' <=> m \in net)
  PROVE  IInv'
<1>1. ASSUME NEW r \in PE PROVE Progress(r)'
  <2>1. Progress(r) /\ call[r] \in Transfer \cup {Idle}  BY DEF IInv, TypeOK
  <2> QED  BY <2>1, Frame
<1>2. ASSUME NEW m \in net', m.kind # "exit" PROVE Carries(m)'
  <2>1. m \in net /\ Carries(m) /\ m.src \in PE  BY <1>2 DEF IInv, OneChunk, TypeOK
  <2>2. call[m.src] \in Transfer \cup {Idle}  BY <2>1 DEF IInv, TypeOK
  <2> QED  BY <2>1, <2>2, FrameChunk
<1>3. OneChunk'  BY <1>2 DEF OneChunk, IInv
<1> QED  BY <1>1, <1>3 DEF IInv

-----------------------------------------------------------------------------
\* Every action keeps the invariant.

\* A PE that is in no call, or between two chunks, has no chunk on its way.
LEMMA NoneOnItsWay ==
  ASSUME IInv, NEW p \in PE,
         call[p].kind = "none" \/ ~call[p].sent \/ completed[p] = 1
  PROVE  \A m \in net : m.kind # "exit" => m.src # p
  BY DEF IInv, OneChunk, Carries

LEMMA PutBegins ==
  ASSUME IInv, NEW p \in PE, NEW q \in PE, NEW n \in 0 .. Size, globalvar_put_request(p, q, n)
  PROVE  IInv'
<1> DEFINE c == [kind |-> "put", pe |-> q, nbytes |-> n, offset |-> 0, sent |-> FALSE]
<1> USE DEF globalvar_put_request, Begin
<1>1. Size \in Nat /\ MaxData \in Nat \ {0} /\ n \in Nat  BY GlobalVarAssumption
<1>2. /\ call[p] = Idle /\ call[p].kind = "none"
      /\ call' = [call EXCEPT ![p] = c] /\ ops' = [ops EXCEPT ![p] = @ + 1]
      /\ want' = [want EXCEPT ![q][p] =
                    [i \in Byte |-> IF i < n THEN <<ops[p] + 1, i>> ELSE want[q][p][i]]]
      /\ UNCHANGED <<var, local, completed, put_counter, get_counter, net, toTell, stuck, exited>>
  BY DEF Idle
<1> USE DEF IInv
<1>3. c \in Transfer  BY <1>1 DEF Transfer
<1>4. /\ call' \in [PE -> Transfer \cup {Idle}] /\ call'[p] = c
      /\ \A r \in PE \ {p} : call'[r] = call[r]
  BY <1>2, <1>3 DEF TypeOK
<1>5. /\ ops' \in [PE -> Nat] /\ ops'[p] = ops[p] + 1
      /\ \A r \in PE \ {p} : ops'[r] = ops[r]
  BY <1>2 DEF TypeOK
<1>6. /\ want' \in [PE -> [PE -> Contents]]
      /\ want'[q][p] = [i \in Byte |-> IF i < n THEN <<ops[p] + 1, i>> ELSE want[q][p][i]]
      /\ \A r, s \in PE : r # p \/ s # q => want'[s][r] = want[s][r]
  <2> DEFINE w == [i \in Byte |-> IF i < n THEN <<ops[p] + 1, i>> ELSE want[q][p][i]]
             row == [want[q] EXCEPT ![p] = w]
  <2>1. want \in [PE -> [PE -> Contents]] /\ ops[p] + 1 \in Nat  BY DEF TypeOK
  <2>2. want[q][p] \in [Byte -> Nat \X Nat]  BY <2>1 DEF Contents
  <2>3. ASSUME NEW i \in Byte PROVE w[i] \in Nat \X Nat
    <3>1. want[q][p][i] \in Nat \X Nat  BY <2>2
    <3>2. i \in Nat  BY <1>1 DEF Byte
    <3>3. <<ops[p] + 1, i>> \in Nat \X Nat  BY <2>1, <3>2
    <3> QED  BY <3>1, <3>3
  <2>4. w \in Contents  BY <2>3 DEF Contents
  <2>5. want' = [want EXCEPT ![q] = row]  BY <1>2, <2>1
  <2> HIDE DEF w
  <2>6. row \in [PE -> Contents] /\ row[p] = w /\ \A r \in PE \ {p} : row[r] = want[q][r]
    BY <2>1, <2>4
  <2> HIDE DEF row
  <2>7. /\ want' \in [PE -> [PE -> Contents]]
        /\ want'[q] = row /\ \A s \in PE \ {q} : want'[s] = want[s]
    BY <2>1, <2>5, <2>6
  <2> QED  BY <2>6, <2>7 DEF w
<1>7. TypeOK'  BY <1>2, <1>4, <1>5, <1>6 DEF TypeOK
<1>8. Counted'  BY <1>2, <1>4 DEF Counted, TypeOK
<1>9. Progress(p)'
  <2>1. Split(c)
    <3>1. n \div MaxData \in Nat  BY <1>1, Division
    <3>2. 0 \in 0 .. n \div MaxData /\ 0 = 0 * MaxData  BY <1>1, <3>1
    <3> QED  BY <3>2 DEF Split
  <2>2. \A s \in PE : var[s][p] = want[s][p]  BY <1>2 DEF Progress, Untouched
  <2>3. Written(p)'
    <3> SUFFICES ASSUME NEW i \in Byte
                 PROVE  /\ i < n => want'[q][p][i] = <<ops'[p], i>>
                        /\ i < 0 \/ n <= i => var'[q][p][i] = want'[q][p][i]
      BY <1>4 DEF Written
    <3> QED  BY <1>1, <1>2, <1>5, <1>6, <2>2 DEF Byte
  <2>4. Untouched(p)'  BY <1>2, <1>4, <1>6, <2>2 DEF Untouched
  <2>5. Fetched(p)'  BY <1>4 DEF Fetched
  <2> QED  BY <1>4, <2>1, <2>3, <2>4, <2>5 DEF Progress, Split
<1>10. \A m \in net : m.kind # "exit" => m.src # p  BY <1>2, NoneOnItsWay
<1> QED  BY <1>2, <1>4, <1>5, <1>6, <1>7, <1>8, <1>9, <1>10, StepOf

LEMMA GetBegins ==
  ASSUME IInv, NEW p \in PE, NEW q \in PE, NEW n \in 0 .. Size, globalvar_get_request(p, q, n)
  PROVE  IInv'
<1> DEFINE c == [kind |-> "get", pe |-> q, nbytes |-> n, offset |-> 0, sent |-> FALSE]
<1>1. Size \in Nat /\ MaxData \in Nat \ {0} /\ n \in Nat  BY GlobalVarAssumption
<1>2. /\ call[p] = Idle /\ call[p].kind = "none"
      /\ call' = [call EXCEPT ![p] = c] /\ ops' = [ops EXCEPT ![p] = @ + 1]
      /\ UNCHANGED <<want, var, local, completed, put_counter, get_counter, net, toTell, stuck, exited>>
  BY DEF globalvar_get_request, Begin, Idle
<1> USE DEF IInv
<1>3. c \in Transfer  BY <1>1 DEF Transfer
<1>4. /\ call' \in [PE -> Transfer \cup {Idle}] /\ call'[p] = c
      /\ \A r \in PE \ {p} : call'[r] = call[r]
  BY <1>2, <1>3 DEF TypeOK
<1>5. ops' \in [PE -> Nat] /\ \A r \in PE \ {p} : ops'[r] = ops[r]
  BY <1>2 DEF TypeOK
<1>6. TypeOK'  BY <1>2, <1>4, <1>5 DEF TypeOK
<1>7. Counted'  BY <1>2, <1>4 DEF Counted, TypeOK
<1>8. Progress(p)'
  <2>1. Split(c)
    <3>1. n \div MaxData \in Nat  BY <1>1, Division
    <3>2. 0 \in 0 .. n \div MaxData /\ 0 = 0 * MaxData  BY <1>1, <3>1
    <3> QED  BY <3>2 DEF Split
  <2>2. Written(p)' /\ Untouched(p)'  BY <1>2, <1>4 DEF Progress, Written, Untouched
  <2>3. Fetched(p)'  BY <1>4 DEF Fetched, Byte
  <2> QED  BY <1>4, <2>1, <2>2, <2>3 DEF Progress, Split
<1>9. \A m \in net : m.kind # "exit" => m.src # p  BY <1>2, NoneOnItsWay
<1> QED  BY <1>2, <1>4, <1>5, <1>6, <1>7, <1>8, <1>9, StepOf

LEMMA PutChunkSent ==
  ASSUME IInv, NEW p \in PE, put_a_chunk(p)
  PROVE  IInv'
<1> DEFINE c == call[p]
<1>0. PICK m : m = [kind |-> "put", src |-> p, pe |-> c.pe, data |-> [i \in Chunk(c) |-> <<ops[p], i>>]]  OBVIOUS
<1>1. /\ c.kind = "put" /\ ~c.sent /\ p \notin exited
      /\ call' = [call EXCEPT ![p].sent = TRUE]
      /\ completed' = [completed EXCEPT ![p] = 0]
      /\ put_counter' = [put_counter EXCEPT ![p] = @ + 1]
      /\ net' = net \cup {m}
      /\ UNCHANGED <<var, local, want, ops, get_counter, toTell, stuck, exited>>
  BY <1>0 DEF put_a_chunk, Between, Send, atomic_inc_put_counter, ProgramRuns
<1> USE DEF IInv
<1>2. c \in Transfer /\ c.pe \in PE  BY <1>1 DEF TypeOK, Idle, Transfer
<1>3. /\ call' \in [PE -> Transfer \cup {Idle}]
      /\ call'[p] = [c EXCEPT !.sent = TRUE]
      /\ \A r \in PE \ {p} : call'[r] = call[r]
  <2>1. [c EXCEPT !.sent = TRUE] \in Transfer  BY <1>2 DEF Transfer
  <2> QED  BY <1>1, <2>1 DEF TypeOK
<1>4. /\ call'[p].kind = "put" /\ call'[p].sent /\ call'[p].pe = c.pe
      /\ call'[p].nbytes = c.nbytes /\ call'[p].offset = c.offset
      /\ Chunk(call'[p]) = Chunk(c)
  BY <1>1, <1>2, <1>3 DEF Transfer, Chunk, ChunkSize, Whole
<1>5. /\ completed' \in [PE -> {0, 1}] /\ completed'[p] = 0
      /\ \A r \in PE \ {p} : completed'[r] = completed[r]
  BY <1>1 DEF TypeOK
<1>6. put_counter' \in [PE -> Nat]  BY <1>1 DEF TypeOK
<1>7. TypeOK'
  <2>1. /\ m.src \in PE /\ m.pe \in PE /\ m.kind = "put"
        /\ m = [kind |-> m.kind, src |-> m.src, pe |-> m.pe, data |-> m.data]
    BY <1>0, <1>2
  <2> QED  BY <1>1, <1>3, <1>5, <1>6, <2>1 DEF TypeOK
<1>8. Counted'
  <2>1. put_counter[p] = 0  BY <1>1 DEF Counted
  <2>2. put_counter'[p] = 1 /\ \A r \in PE \ {p} : put_counter'[r] = put_counter[r]
    BY <1>1, <2>1 DEF TypeOK
  <2>3. exited \subseteq PE  BY DEF TypeOK
  <2> QED  BY <1>1, <1>3, <1>4, <2>2, <2>3 DEF Counted
<1>9. Split(c)  BY <1>1 DEF Progress
<1>10. Progress(p)'
  <2>1. Split(call'[p])  BY <1>4, <1>9 DEF Split
  <2>2. m \in net' /\ m.src = p /\ m.kind = "put"  BY <1>0, <1>1
  <2>3. Written(p)'  BY <1>1, <1>4, <2>2 DEF Progress, Written
  <2>4. Untouched(p)'  BY <1>1, <1>4 DEF Progress, Untouched
  <2>5. Fetched(p)'  BY <1>1, <1>4, <1>5 DEF Progress, Fetched
  <2> QED  BY <2>1, <2>3, <2>4, <2>5 DEF Progress, Split
<1>11. Carries(m)'
  <2>1. Chunk(c) \subseteq Byte  BY <1>2, <1>9, ChunkInByte
  <2>2. /\ m.src = p /\ m.kind = "put" /\ m.pe = c.pe /\ DOMAIN m.data = Chunk(c)
        /\ m.kind = "put" => \A i \in Chunk(c) : m.data[i] = <<ops[p], i>>
    BY <1>0
  <2> QED  BY <1>1, <1>4, <1>5, <2>2 DEF Carries, Chunk
<1>12. \A n \in net : n.kind # "exit" => n.src # p  BY <1>1, NoneOnItsWay
<1>13. m.src = p  BY <1>0
<1> HIDE DEF c
<1> QED  BY <1>1, <1>3, <1>5, <1>7, <1>8, <1>10, <1>11, <1>12, <1>13, StepOf

LEMMA GetChunkSent ==
  ASSUME IInv, NEW p \in PE, get_a_chunk(p)
  PROVE  IInv'
<1> DEFINE c == call[p]
<1>0. PICK m : m = [kind |-> "get", src |-> p, pe |-> c.pe, data |-> [i \in Chunk(c) |-> <<0, 0>>]]  OBVIOUS
<1>1. /\ c.kind = "get" /\ ~c.sent /\ p \notin exited
      /\ call' = [call EXCEPT ![p].sent = TRUE]
      /\ completed' = [completed EXCEPT ![p] = 0]
      /\ get_counter' = [get_counter EXCEPT ![p] = @ + 1]
      /\ net' = net \cup {m}
      /\ UNCHANGED <<var, local, want, ops, put_counter, toTell, stuck, exited>>
  BY <1>0 DEF get_a_chunk, Between, Send, atomic_inc_get_counter, ProgramRuns
<1> USE DEF IInv
<1>2. c \in Transfer /\ c.pe \in PE  BY <1>1 DEF TypeOK, Idle, Transfer
<1>3. /\ call' \in [PE -> Transfer \cup {Idle}]
      /\ call'[p] = [c EXCEPT !.sent = TRUE]
      /\ \A r \in PE \ {p} : call'[r] = call[r]
  <2>1. [c EXCEPT !.sent = TRUE] \in Transfer  BY <1>2 DEF Transfer
  <2> QED  BY <1>1, <2>1 DEF TypeOK
<1>4. /\ call'[p].kind = "get" /\ call'[p].sent /\ call'[p].pe = c.pe
      /\ call'[p].nbytes = c.nbytes /\ call'[p].offset = c.offset
      /\ Chunk(call'[p]) = Chunk(c)
  BY <1>1, <1>2, <1>3 DEF Transfer, Chunk, ChunkSize, Whole
<1>5. /\ completed' \in [PE -> {0, 1}] /\ completed'[p] = 0
      /\ \A r \in PE \ {p} : completed'[r] = completed[r]
  BY <1>1 DEF TypeOK
<1>6. get_counter' \in [PE -> Nat]  BY <1>1 DEF TypeOK
<1>7. TypeOK'
  <2>1. /\ m.src \in PE /\ m.pe \in PE /\ m.kind = "get"
        /\ m = [kind |-> m.kind, src |-> m.src, pe |-> m.pe, data |-> m.data]
    BY <1>0, <1>2
  <2> QED  BY <1>1, <1>3, <1>5, <1>6, <2>1 DEF TypeOK
<1>8. Counted'
  <2>1. get_counter[p] = 0  BY <1>1 DEF Counted
  <2>2. get_counter'[p] = 1 /\ \A r \in PE \ {p} : get_counter'[r] = get_counter[r]
    BY <1>1, <2>1 DEF TypeOK
  <2>3. exited \subseteq PE  BY DEF TypeOK
  <2> QED  BY <1>1, <1>3, <1>4, <2>2, <2>3 DEF Counted
<1>9. Split(c)  BY <1>1 DEF Progress
<1>10. Progress(p)'
  <2>1. Split(call'[p])  BY <1>4, <1>9 DEF Split
  <2>2. m \in net' /\ m.src = p /\ m.kind = "get"  BY <1>0, <1>1
  <2>3. Written(p)'  BY <1>1, <1>4, <2>2 DEF Progress, Written
  <2>4. Untouched(p)'  BY <1>1, <1>4 DEF Progress, Untouched
  <2>5. Fetched(p)'  BY <1>1, <1>4, <1>5 DEF Progress, Fetched
  <2> QED  BY <2>1, <2>3, <2>4, <2>5 DEF Progress, Split
<1>11. Carries(m)'
  <2>1. Chunk(c) \subseteq Byte  BY <1>2, <1>9, ChunkInByte
  <2>2. /\ m.src = p /\ m.kind = "get" /\ m.pe = c.pe /\ DOMAIN m.data = Chunk(c)
        /\ m.kind = "put" => \A i \in Chunk(c) : m.data[i] = <<ops[p], i>>
    BY <1>0
  <2> QED  BY <1>1, <1>4, <1>5, <2>2 DEF Carries, Chunk
<1>12. \A n \in net : n.kind # "exit" => n.src # p  BY <1>1, NoneOnItsWay
<1>13. m.src = p  BY <1>0
<1> HIDE DEF c
<1> QED  BY <1>1, <1>3, <1>5, <1>7, <1>8, <1>10, <1>11, <1>12, <1>13, StepOf

LEMMA PutChunkLands ==
  ASSUME IInv, NEW p \in PE, PutChunkDone(p)
  PROVE  IInv'
<1> DEFINE c == call[p]
           d == [c EXCEPT !.sent = FALSE, !.offset = @ + ChunkSize(c)]
<1>1. /\ c.kind = "put" /\ c.sent /\ completed[p] = 1
      /\ call' = [call EXCEPT ![p].sent = FALSE, ![p].offset = @ + ChunkSize(call[p])]
      /\ put_counter' = [put_counter EXCEPT ![p] = @ - 1]
      /\ UNCHANGED <<var, local, want, ops, completed, get_counter, net, toTell, stuck, exited>>
  BY DEF PutChunkDone, Acknowledged, atomic_dec_put_counter
<1> USE DEF IInv
<1>2. c \in Transfer /\ c.pe \in PE /\ Split(c)  BY <1>1 DEF TypeOK, Idle, Transfer, Progress
<1>3. d \in Transfer /\ Split(d) /\ ChunkSize(c) \in Nat  BY <1>2, ChunkFacts
<1>4. /\ call' \in [PE -> Transfer \cup {Idle}] /\ call'[p] = d
      /\ \A r \in PE \ {p} : call'[r] = call[r]
  BY <1>1, <1>2, <1>3 DEF TypeOK, Transfer
<1>5. /\ d.kind = "put" /\ ~d.sent /\ d.pe = c.pe /\ d.nbytes = c.nbytes
      /\ \A i \in Byte : i < d.offset => i < c.offset \/ i \in Chunk(c)
  BY <1>1, <1>2, <1>3, GlobalVarAssumption DEF Transfer, Byte, Chunk
<1> HIDE DEF d
<1>6. put_counter[p] = 1  BY <1>1 DEF Counted
<1>7. /\ put_counter' \in [PE -> Nat] /\ put_counter'[p] = 0
      /\ \A r \in PE \ {p} : put_counter'[r] = put_counter[r]
  BY <1>1, <1>6 DEF TypeOK
<1>8. TypeOK'  BY <1>1, <1>4, <1>7 DEF TypeOK
<1>9. Counted'
  <2>1. exited \subseteq PE  BY DEF TypeOK
  <2> QED  BY <1>1, <1>4, <1>5, <1>7, <2>1 DEF Counted
<1>10. \A m \in net : m.kind # "exit" => m.src # p  BY <1>1, NoneOnItsWay
<1>11. Progress(p)'
  <2>1. Written(p)'
    <3> SUFFICES ASSUME d.kind = "put", NEW i \in Byte
                 PROVE  /\ i < d.nbytes => want[d.pe][p][i] = <<ops[p], i>>
                        /\ i < d.offset \/ d.nbytes <= i => var[d.pe][p][i] = want[d.pe][p][i]
      <4>1. call'[p] = d /\ ~d.sent /\ var' = var /\ want' = want /\ ops' = ops
        BY <1>1, <1>4, <1>5
      <4> QED  BY <4>1 DEF Written
    <3>1. Written(p)  BY DEF Progress
    <3>2. ~\E m \in net : m.src = p /\ m.kind = "put"  BY <1>10
    <3>3. /\ i < c.nbytes => want[c.pe][p][i] = <<ops[p], i>>
          /\ i < c.offset \/ c.nbytes <= i => var[c.pe][p][i] = want[c.pe][p][i]
          /\ i \in Chunk(c) => var[c.pe][p][i] = want[c.pe][p][i]
      BY <1>1, <3>1, <3>2 DEF Written
    <3> QED  BY <1>5, <3>3
  <2>2. Untouched(p)'  BY <1>1, <1>4, <1>5 DEF Progress, Untouched
  <2>3. Fetched(p)'
    <3> SUFFICES ASSUME d.kind = "get", NEW i \in Byte, i < d.offset
                 PROVE  local[p][i] = want[d.pe][p][i]
      BY <1>1, <1>4, <1>5 DEF Fetched
    <3> QED  BY <1>1, <1>5 DEF Progress, Fetched
  <2> QED  BY <1>3, <1>4, <2>1, <2>2, <2>3 DEF Progress, Split
<1> HIDE DEF c
<1> QED  BY <1>1, <1>4, <1>8, <1>9, <1>10, <1>11, StepOf

LEMMA GetChunkLands ==
  ASSUME IInv, NEW p \in PE, GetChunkDone(p)
  PROVE  IInv'
<1> DEFINE c == call[p]
           d == [c EXCEPT !.sent = FALSE, !.offset = @ + ChunkSize(c)]
<1>1. /\ c.kind = "get" /\ c.sent /\ completed[p] = 1
      /\ call' = [call EXCEPT ![p].sent = FALSE, ![p].offset = @ + ChunkSize(call[p])]
      /\ get_counter' = [get_counter EXCEPT ![p] = @ - 1]
      /\ UNCHANGED <<var, local, want, ops, completed, put_counter, net, toTell, stuck, exited>>
  BY DEF GetChunkDone, Acknowledged, atomic_dec_get_counter
<1> USE DEF IInv
<1>2. c \in Transfer /\ c.pe \in PE /\ Split(c)  BY <1>1 DEF TypeOK, Idle, Transfer, Progress
<1>3. d \in Transfer /\ Split(d) /\ ChunkSize(c) \in Nat  BY <1>2, ChunkFacts
<1>4. /\ call' \in [PE -> Transfer \cup {Idle}] /\ call'[p] = d
      /\ \A r \in PE \ {p} : call'[r] = call[r]
  BY <1>1, <1>2, <1>3 DEF TypeOK, Transfer
<1>5. /\ d.kind = "get" /\ ~d.sent /\ d.pe = c.pe /\ d.nbytes = c.nbytes
      /\ \A i \in Byte : i < d.offset => i < c.offset \/ i \in Chunk(c)
  BY <1>1, <1>2, <1>3, GlobalVarAssumption DEF Transfer, Byte, Chunk
<1> HIDE DEF d
<1>6. get_counter[p] = 1  BY <1>1 DEF Counted
<1>7. /\ get_counter' \in [PE -> Nat] /\ get_counter'[p] = 0
      /\ \A r \in PE \ {p} : get_counter'[r] = get_counter[r]
  BY <1>1, <1>6 DEF TypeOK
<1>8. TypeOK'  BY <1>1, <1>4, <1>7 DEF TypeOK
<1>9. Counted'
  <2>1. exited \subseteq PE  BY DEF TypeOK
  <2> QED  BY <1>1, <1>4, <1>5, <1>7, <2>1 DEF Counted
<1>10. \A m \in net : m.kind # "exit" => m.src # p  BY <1>1, NoneOnItsWay
<1>11. Progress(p)'
  <2>1. Written(p)'
    <3> SUFFICES ASSUME d.kind = "put", NEW i \in Byte
                 PROVE  /\ i < d.nbytes => want[d.pe][p][i] = <<ops[p], i>>
                        /\ i < d.offset \/ d.nbytes <= i => var[d.pe][p][i] = want[d.pe][p][i]
      BY <1>1, <1>4, <1>5 DEF Written
    <3> QED  BY <1>1, <1>5, <1>10 DEF Progress, Written
  <2>2. Untouched(p)'  BY <1>1, <1>4, <1>5 DEF Progress, Untouched
  <2>3. Fetched(p)'
    <3> SUFFICES ASSUME d.kind = "get", NEW i \in Byte, i < d.offset
                 PROVE  local[p][i] = want[d.pe][p][i]
      BY <1>1, <1>4, <1>5 DEF Fetched
    <3> QED  BY <1>1, <1>5 DEF Progress, Fetched
  <2> QED  BY <1>3, <1>4, <2>1, <2>2, <2>3 DEF Progress, Split
<1> HIDE DEF c
<1> QED  BY <1>1, <1>4, <1>8, <1>9, <1>10, <1>11, StepOf

LEMMA CallReturns ==
  ASSUME IInv, NEW p \in PE, NEW kind \in {"put", "get"}, Return(p, kind)
  PROVE  IInv'
<1> DEFINE c == call[p]
<1>1. /\ c.kind = kind /\ ~c.sent /\ ChunkSize(c) = 0
      /\ call' = [call EXCEPT ![p] = Idle]
      /\ UNCHANGED <<var, local, want, ops, completed, put_counter, get_counter, net, toTell,
                     stuck, exited>>
  BY DEF Return, Between
<1> USE DEF IInv
<1>2. c \in Transfer /\ c.pe \in PE /\ Split(c)  BY <1>1 DEF TypeOK, Idle, Transfer, Progress
<1>3. /\ call' \in [PE -> Transfer \cup {Idle}] /\ call'[p] = Idle /\ Idle.kind = "none"
      /\ \A r \in PE \ {p} : call'[r] = call[r]
  BY <1>1 DEF TypeOK, Idle
<1>4. c.offset = c.nbytes  BY <1>1, <1>2, ChunkFacts
<1>5. TypeOK'  BY <1>1, <1>3 DEF TypeOK
<1>6. Counted'  BY <1>1, <1>3 DEF Counted, TypeOK
<1>7. \A m \in net : m.kind # "exit" => m.src # p  BY <1>1, NoneOnItsWay
<1>8. ASSUME c.kind = "put" PROVE var[c.pe][p] = want[c.pe][p]
  <2>1. /\ var \in [PE -> [PE -> Contents]] /\ want \in [PE -> [PE -> Contents]]
        /\ Contents = [Byte -> Nat \X Nat]
    BY DEF TypeOK, Contents
  <2>2. var[c.pe][p] \in [Byte -> Nat \X Nat] /\ want[c.pe][p] \in [Byte -> Nat \X Nat]
    BY <1>2, <2>1
  <2>3. ASSUME NEW i \in Byte PROVE var[c.pe][p][i] = want[c.pe][p][i]
    <3>1. c.nbytes \in Nat /\ i \in Int  BY <1>2, GlobalVarAssumption DEF Transfer, Byte
    <3>2. i < c.offset \/ c.nbytes <= i  BY <1>4, <3>1
    <3> QED  BY <1>8, <3>2 DEF Progress, Written
  <2> QED  BY <2>2, <2>3
<1>9. Progress(p)'
  <2>1. Untouched(p)'  BY <1>1, <1>2, <1>3, <1>8 DEF Progress, Untouched
  <2> QED  BY <1>3, <2>1 DEF Progress, Written, Fetched
<1> HIDE DEF c
<1> QED  BY <1>1, <1>3, <1>5, <1>6, <1>7, <1>9, StepOf

-----------------------------------------------------------------------------
\* The handlers.

\* A message is its PE's chunk under way.
LEMMA MessageFacts ==
  ASSUME IInv, NEW m \in net, m.kind # "exit"
  PROVE  /\ m.src \in PE /\ call[m.src] \in Transfer /\ call[m.src].pe \in PE
         /\ m.pe = call[m.src].pe
         /\ call[m.src].sent /\ completed[m.src] = 0
         /\ m.kind \in {"put", "put_bak", "get", "get_bak"}
         /\ call[m.src].kind = (IF m.kind \in {"put", "put_bak"} THEN "put" ELSE "get")
         /\ m = [kind |-> m.kind, src |-> m.src, pe |-> m.pe, data |-> m.data]
         /\ DOMAIN m.data = Chunk(call[m.src])
         /\ \A i \in Chunk(call[m.src]) :
              /\ m.kind = "put" => m.data[i] = <<ops[m.src], i>>
              /\ m.kind = "get_bak" => m.data[i] = want[call[m.src].pe][m.src][i]
         /\ Split(call[m.src]) /\ Chunk(call[m.src]) \subseteq Byte
         /\ Progress(m.src)
         /\ \A n \in net : n.kind # "exit" /\ n.src = m.src => n = m
<1>1. m.src \in PE /\ Carries(m) /\ Progress(m.src)  BY DEF IInv, TypeOK, OneChunk
<1>2. call[m.src] \in Transfer /\ call[m.src].pe \in PE
  BY <1>1 DEF IInv, TypeOK, Carries, Idle, Transfer
<1>3. Split(call[m.src])  BY <1>1 DEF Carries, Progress
<1>4. Chunk(call[m.src]) \subseteq Byte  BY <1>2, <1>3, ChunkInByte
<1>5. /\ m.kind \in {"put", "put_bak", "get", "get_bak"}
      /\ m = [kind |-> m.kind, src |-> m.src, pe |-> m.pe, data |-> m.data]
  BY DEF IInv, TypeOK
<1>6. \A n \in net : n.kind # "exit" /\ n.src = m.src => n = m  BY DEF IInv, OneChunk
<1> QED  BY <1>1, <1>2, <1>3, <1>4, <1>5, <1>6 DEF Carries

LEMMA PutHandled ==
  ASSUME IInv, NEW m \in net, PutOut(m)
  PROVE  IInv'
<1> DEFINE p == m.src
           c == call[p]
           q == c.pe
           w == [i \in Byte |-> IF i \in Chunk(c) THEN m.data[i] ELSE var[q][p][i]]
<1>0. PICK b : b = [m EXCEPT !.kind = "put_bak"]  OBVIOUS
<1>1. m.kind = "put"  BY DEF PutOut
<1>2. /\ p \in PE /\ c \in Transfer /\ q \in PE /\ m.pe = q
      /\ c.sent /\ completed[p] = 0 /\ c.kind = "put"
      /\ m = [kind |-> m.kind, src |-> p, pe |-> q, data |-> m.data]
      /\ DOMAIN m.data = Chunk(c)
      /\ \A i \in Chunk(c) : m.data[i] = <<ops[p], i>>
      /\ Split(c) /\ Chunk(c) \subseteq Byte /\ Progress(p)
      /\ \A n \in net : n.kind # "exit" /\ n.src = p => n = m
  BY <1>1, MessageFacts
<1>3. /\ var' = [var EXCEPT ![q][p] = w]
      /\ net' = (net \ {m}) \cup {b}
      /\ UNCHANGED <<local, want, ops, call, completed, put_counter, get_counter, toTell, stuck,
                     exited>>
  BY <1>0, <1>2 DEF PutOut
<1>4. b.kind = "put_bak" /\ b.src = p /\ b.pe = q /\ b.data = m.data
      /\ b = [kind |-> b.kind, src |-> b.src, pe |-> b.pe, data |-> b.data]
  BY <1>0, <1>2
<1> USE DEF IInv
<1>5. w \in Contents
  <2>1. var[q][p] \in [Byte -> Nat \X Nat] /\ ops[p] \in Nat  BY <1>2 DEF TypeOK, Contents
  <2>2. ASSUME NEW i \in Byte PROVE w[i] \in Nat \X Nat
    <3>1. var[q][p][i] \in Nat \X Nat  BY <2>1
    <3>2. i \in Nat  BY GlobalVarAssumption DEF Byte
    <3>3. <<ops[p], i>> \in Nat \X Nat  BY <2>1, <3>2
    <3> QED  BY <1>2, <3>1, <3>3
  <2> QED  BY <2>2 DEF Contents
<1>6. \A i \in Byte : w[i] = IF i \in Chunk(c) THEN <<ops[p], i>> ELSE var[q][p][i]
  BY <1>2
<1> HIDE DEF w
<1>7. /\ var' \in [PE -> [PE -> Contents]] /\ var'[q][p] = w
      /\ \A r, s \in PE : r # p \/ s # q => var'[s][r] = var[s][r]
  BY <1>2, <1>3, <1>5 DEF TypeOK
<1>8. TypeOK'
  <2>1. \A n \in net' : n \in net \/ n = b  BY <1>3
  <2> QED  BY <1>2, <1>3, <1>4, <1>7, <2>1 DEF TypeOK
<1>9. Counted'  BY <1>3 DEF Counted
<1>10. ASSUME NEW i \in Byte
       PROVE  /\ i < c.nbytes => want[q][p][i] = <<ops[p], i>>
              /\ i < c.offset \/ c.nbytes <= i \/ i \in Chunk(c) => var'[q][p][i] = want[q][p][i]
  <2>1. /\ i < c.nbytes => want[q][p][i] = <<ops[p], i>>
        /\ i < c.offset \/ c.nbytes <= i => var[q][p][i] = want[q][p][i]
    BY <1>2 DEF Progress, Written
  <2>2. i \in Chunk(c) => i < c.nbytes
    <3>1. ChunkSize(c) \in Nat /\ c.offset + ChunkSize(c) <= c.nbytes  BY <1>2, ChunkFacts
    <3>2. c.offset \in Nat /\ c.nbytes \in Nat  BY <1>2, GlobalVarAssumption DEF Transfer
    <3> QED  BY <3>1, <3>2 DEF Chunk
  <2> QED  BY <1>6, <1>7, <2>1, <2>2
<1>11. Progress(p)'
  <2>1. Written(p)'
    <3> SUFFICES ASSUME NEW i \in Byte
                 PROVE  /\ i < c.nbytes => want[q][p][i] = <<ops[p], i>>
                        /\ i < c.offset \/ c.nbytes <= i => var'[q][p][i] = want[q][p][i]
                        /\ i \in Chunk(c) => var'[q][p][i] = want[q][p][i]
      BY <1>3 DEF Written
    <3> QED  BY <1>10
  <2>2. Untouched(p)'  BY <1>2, <1>3, <1>7 DEF Progress, Untouched
  <2>3. Fetched(p)'  BY <1>2, <1>3 DEF Fetched
  <2> QED  BY <1>2, <1>3, <2>1, <2>2, <2>3 DEF Progress, Split
<1>12. Carries(b)'  BY <1>2, <1>3, <1>4 DEF Carries, Chunk
<1> HIDE DEF p, q, c
<1> QED  BY <1>2, <1>3, <1>4, <1>7, <1>8, <1>9, <1>11, <1>12, StepOf

LEMMA PutAcknowledged ==
  ASSUME IInv, NEW m \in net, PutBak(m)
  PROVE  IInv'
<1> DEFINE p == m.src
           c == call[p]
<1>1. /\ m.kind = "put_bak"
      /\ completed' = [completed EXCEPT ![p] = 1]
      /\ net' = net \ {m}
      /\ UNCHANGED <<var, want, local, ops, call, put_counter, get_counter, toTell, stuck, exited>>
  BY DEF PutBak
<1>2. /\ p \in PE /\ c.kind = "put" /\ Progress(p)
      /\ \A n \in net : n.kind # "exit" /\ n.src = p => n = m
  BY <1>1, MessageFacts
<1> USE DEF IInv
<1>3. completed' \in [PE -> {0, 1}] /\ \A r \in PE \ {p} : completed'[r] = completed[r]
  BY <1>1 DEF TypeOK
<1>4. TypeOK'  BY <1>1, <1>3 DEF TypeOK
<1>5. Counted'  BY <1>1 DEF Counted
<1>6. Progress(p)'
  <2>1. \A n \in net : n.kind = "put" => n \in net'  BY <1>1
  <2>2. Written(p)'  BY <1>1, <1>2, <2>1 DEF Progress, Written
  <2>3. Untouched(p)'  BY <1>1, <1>2 DEF Progress, Untouched
  <2>4. Fetched(p)'  BY <1>1, <1>2 DEF Fetched
  <2> QED  BY <1>1, <1>2, <2>2, <2>3, <2>4 DEF Progress, Split
<1> HIDE DEF p, c
<1>7. m.src = p  BY DEF p
<1> QED  BY <1>1, <1>2, <1>3, <1>4, <1>5, <1>6, <1>7, StepOf

LEMMA GetHandled ==
  ASSUME IInv, NEW m \in net, GetOut(m)
  PROVE  IInv'
<1> DEFINE p == m.src
           c == call[p]
           q == c.pe
<1>0. PICK b : b = [m EXCEPT !.kind = "get_bak",
                             !.data = [i \in DOMAIN m.data |-> var[m.pe][m.src][i]]]  OBVIOUS
<1>1. /\ m.kind = "get"
      /\ net' = (net \ {m}) \cup {b}
      /\ UNCHANGED <<var, want, local, ops, call, completed, put_counter, get_counter, toTell,
                     stuck, exited>>
  BY <1>0 DEF GetOut
<1>2. /\ p \in PE /\ q \in PE /\ m.pe = q
      /\ c.sent /\ completed[p] = 0 /\ c.kind = "get" /\ c \in Transfer
      /\ m = [kind |-> m.kind, src |-> p, pe |-> q, data |-> m.data]
      /\ DOMAIN m.data = Chunk(c) /\ Progress(p)
      /\ \A n \in net : n.kind # "exit" /\ n.src = p => n = m
  BY <1>1, MessageFacts
<1>3. var[q][p] = want[q][p]  BY <1>2 DEF Progress, Untouched
<1>4. /\ b.kind = "get_bak" /\ b.src = p /\ b.pe = q /\ DOMAIN b.data = Chunk(c)
      /\ \A i \in Chunk(c) : b.data[i] = want[q][p][i]
      /\ b = [kind |-> b.kind, src |-> b.src, pe |-> b.pe, data |-> b.data]
  BY <1>0, <1>2, <1>3
<1> USE DEF IInv
<1>5. TypeOK'
  <2>1. \A n \in net' : n \in net \/ n = b  BY <1>1
  <2> QED  BY <1>1, <1>2, <1>4, <2>1 DEF TypeOK
<1>6. Counted'  BY <1>1 DEF Counted
<1>7. Progress(p)'
  <2>1. \A n \in net : n.src = p /\ n.kind = "put" => n \in net'  BY <1>1
  <2> HIDE DEF p
  <2> QED  BY <1>1, <1>2, <2>1, Frame
<1>8. Carries(b)'  BY <1>1, <1>2, <1>4 DEF Carries, Chunk
<1>9. m.src = p  OBVIOUS
<1> HIDE DEF p, q, c
<1> QED  BY <1>1, <1>2, <1>4, <1>5, <1>6, <1>7, <1>8, <1>9, StepOf

LEMMA GetAcknowledged ==
  ASSUME IInv, NEW m \in net, GetBak(m)
  PROVE  IInv'
<1> DEFINE p == m.src
           c == call[p]
           q == c.pe
           w == [i \in Byte |-> IF i \in Chunk(c) THEN m.data[i] ELSE local[p][i]]
<1>1. m.kind = "get_bak"  BY DEF GetBak
<1>2. /\ p \in PE /\ q \in PE /\ c.sent /\ c.kind = "get" /\ c \in Transfer
      /\ DOMAIN m.data = Chunk(c) /\ Progress(p)
      /\ \A i \in Chunk(c) : m.data[i] = want[q][p][i]
      /\ \A n \in net : n.kind # "exit" /\ n.src = p => n = m
  BY <1>1, MessageFacts
<1>3. /\ local' = [local EXCEPT ![p] = w]
      /\ completed' = [completed EXCEPT ![p] = 1]
      /\ net' = net \ {m}
      /\ UNCHANGED <<var, want, ops, call, put_counter, get_counter, toTell, stuck, exited>>
  BY <1>2 DEF GetBak
<1> USE DEF IInv
<1>4. /\ w \in Contents
      /\ \A i \in Byte : w[i] = IF i \in Chunk(c) THEN want[q][p][i] ELSE local[p][i]
  <2>1. local[p] \in [Byte -> Nat \X Nat] /\ want[q][p] \in [Byte -> Nat \X Nat]
    BY <1>2 DEF TypeOK, Contents
  <2>2. ASSUME NEW i \in Byte
        PROVE  /\ w[i] \in Nat \X Nat
               /\ w[i] = IF i \in Chunk(c) THEN want[q][p][i] ELSE local[p][i]
    <3>1. local[p][i] \in Nat \X Nat /\ want[q][p][i] \in Nat \X Nat  BY <2>1
    <3> QED  BY <1>2, <3>1
  <2> QED  BY <2>2 DEF Contents
<1> HIDE DEF w
<1>5. /\ local' \in [PE -> Contents] /\ local'[p] = w
      /\ \A r \in PE \ {p} : local'[r] = local[r]
  BY <1>2, <1>3, <1>4 DEF TypeOK
<1>6. completed' \in [PE -> {0, 1}] /\ \A r \in PE \ {p} : completed'[r] = completed[r]
  BY <1>3 DEF TypeOK
<1>7. TypeOK'  BY <1>3, <1>5, <1>6 DEF TypeOK
<1>8. Counted'  BY <1>3 DEF Counted
<1>9. Progress(p)'
  <2>1. Written(p)' /\ Untouched(p)'  BY <1>2, <1>3 DEF Progress, Written, Untouched
  <2>2. Fetched(p)'
    <3> SUFFICES ASSUME NEW i \in Byte, i < c.offset \/ i \in Chunk(c)
                 PROVE  w[i] = want[q][p][i]
      BY <1>2, <1>3, <1>5 DEF Fetched
    <3>1. i < c.offset => local[p][i] = want[q][p][i]  BY <1>2 DEF Progress, Fetched
    <3> QED  BY <1>4, <3>1
  <2> QED  BY <1>2, <1>3, <2>1, <2>2 DEF Progress, Split
<1>10. m.src = p  OBVIOUS
<1> HIDE DEF p, q, c
<1> QED  BY <1>2, <1>3, <1>5, <1>6, <1>7, <1>8, <1>9, <1>10, StepOf

\* global_exit's steps leave the transfers alone, and exit after the fence only.
LEMMA ExitSteps ==
  ASSUME IInv,
         \/ \E p \in PE : CallExit(p) \/ Tell(p) \/ Exit(p) \/ ExitHandled(p)
         \/ \E m \in net : ExitOut(m)
  PROVE  IInv'
<1> USE DEF IInv
<1>1. /\ UNCHANGED <<var, local, want, ops, call, completed, put_counter, get_counter>>
      /\ \A m : m.kind # "exit" => (m \in net' <=> m \in net)
      /\ \A p \in exited' \ exited : put_counter[p] = 0
  BY DEF CallExit, Tell, Exit, ExitHandled, ExitOut, Fence, atomic_wait_put_zero
<1>2. Counted'  BY <1>1 DEF Counted
<1>3. /\ toTell' \in [PE -> SUBSET PE] /\ exited' \subseteq PE
      /\ stuck' \in [PE -> SUBSET {"program", "service"}]
  <2>1. CASE \E p \in PE : CallExit(p) \/ Tell(p) \/ Exit(p) \/ ExitHandled(p)
    <3>1. PICK p \in PE : CallExit(p) \/ Tell(p) \/ Exit(p) \/ ExitHandled(p)  BY <2>1
    <3>2. /\ toTell \in [PE -> SUBSET PE] /\ exited \subseteq PE
          /\ stuck \in [PE -> SUBSET {"program", "service"}]
      BY DEF TypeOK
    <3>3. CASE CallExit(p)
      <4>1. PE \ {p} \in SUBSET PE  OBVIOUS
      <4> QED  BY <3>2, <3>3, <4>1 DEF CallExit
    <3>4. CASE Tell(p)
      <4>1. PICK q \in toTell[p] : toTell' = [toTell EXCEPT ![p] = @ \ {q}]
        BY <3>4 DEF Tell
      <4>2. toTell[p] \ {q} \in SUBSET PE  BY <3>2
      <4> QED  BY <3>2, <3>4, <4>1, <4>2 DEF Tell
    <3>5. CASE Exit(p) \/ ExitHandled(p)  BY <3>2, <3>5 DEF Exit, ExitHandled
    <3> QED  BY <3>1, <3>3, <3>4, <3>5
  <2>2. CASE \E m \in net : ExitOut(m)
    <3>1. PICK m \in net : ExitOut(m)  BY <2>2
    <3>2. Polling(m.pe) \subseteq {"program", "service"} /\ m.pe \in PE  BY DEF Polling, TypeOK
    <3> QED  BY <3>1, <3>2 DEF TypeOK, ExitOut
  <2> QED  BY <2>1, <2>2
<1>4. \A m \in net' : m \in net \/ (m.src \in PE /\ m.pe \in PE /\ m.kind = "exit")
  BY DEF TypeOK, CallExit, Tell, Exit, ExitHandled, ExitOut
<1>5. TypeOK'  BY <1>1, <1>3, <1>4 DEF TypeOK
<1> QED  BY <1>1, <1>2, <1>5, Unrelated

-----------------------------------------------------------------------------
\* IInv is inductive.

LEMMA InitIInv == ASSUME Init PROVE IInv
<1>1. /\ Size \in Nat /\ MaxData \in Nat \ {0}  BY GlobalVarAssumption
<1>2. Data(0) \in Contents
  <2>1. ASSUME NEW i \in Byte PROVE <<0, i>> \in Nat \X Nat  BY <1>1 DEF Byte
  <2> QED  BY <2>1 DEF Data, Contents
<1>3. TypeOK  BY <1>2 DEF Init, TypeOK, NoExit
<1>4. \A p \in PE : call[p].kind = "none"  BY DEF Init, Idle
<1>5. Counted /\ OneChunk  BY <1>4 DEF Init, Counted, OneChunk
<1>6. \A p \in PE : Progress(p)
  BY <1>4 DEF Init, Progress, Written, Untouched, Fetched
<1> QED  BY <1>3, <1>5, <1>6 DEF IInv

LEMMA NextIInv == ASSUME IInv, [Next]_vars PROVE IInv'
<1>1. ASSUME NEW p \in PE, NEW q \in PE, NEW n \in 0 .. Size,
             globalvar_put_request(p, q, n) \/ globalvar_get_request(p, q, n)
      PROVE  IInv'
  BY <1>1, PutBegins, GetBegins
<1>2. ASSUME NEW p \in PE, CallExit(p) \/ Program(p) PROVE IInv'
  <2>1. CASE put_a_chunk(p) \/ get_a_chunk(p)  BY <2>1, PutChunkSent, GetChunkSent
  <2>2. CASE PutChunkDone(p) \/ GetChunkDone(p)  BY <2>2, PutChunkLands, GetChunkLands
  <2>3. CASE Return(p, "put") \/ Return(p, "get")  BY <2>3, CallReturns
  <2>4. CASE CallExit(p) \/ Tell(p) \/ Exit(p) \/ ExitHandled(p)  BY <2>4, ExitSteps
  <2> QED  BY <1>2, <2>1, <2>2, <2>3, <2>4 DEF Program
<1>3. ASSUME NEW m \in net, Handle(m) PROVE IInv'
  BY <1>3, PutHandled, PutAcknowledged, GetHandled, GetAcknowledged, ExitSteps DEF Handle
<1>4. CASE UNCHANGED vars
  <2>1. /\ UNCHANGED <<var, local, want, ops, call, completed, put_counter, get_counter, net,
                      toTell, stuck, exited>>
    BY <1>4 DEF vars
  <2>2. TypeOK' /\ Counted'  BY <2>1 DEF IInv, TypeOK, Counted
  <2> QED  BY <2>1, <2>2, Unrelated
<1> QED  BY <1>1, <1>2, <1>3, <1>4 DEF Next

\* The three invariants follow from it.
LEMMA IInvImplies == ASSUME IInv PROVE PutsArriveWhole /\ GetsSeePuts /\ ExitFlushesChunks
<1> USE DEF IInv
<1>1. PutsArriveWhole  BY DEF PutsArriveWhole, Progress, Untouched, Idle
<1>2. GetsSeePuts  BY DEF GetsSeePuts, Progress, Fetched
<1>3. ExitFlushesChunks
  <2> SUFFICES ASSUME NEW p \in exited, NEW m \in net, m.src = p, m.kind \in {"put", "put_bak"}
               PROVE  FALSE
    BY DEF ExitFlushesChunks, InFlight
  <2>1. p \in PE /\ put_counter[p] = 0  BY DEF TypeOK, Counted
  <2>2. call[p].kind = "put" /\ call[p].sent  BY MessageFacts
  <2> QED  BY <2>1, <2>2 DEF Counted
<1> QED  BY <1>1, <1>2, <1>3

\* The invariant holds always.
THEOREM GlobalVarInv == Spec => []IInv
BY InitIInv, NextIInv, PTL DEF Spec

\* When a put of a global variable has returned, every byte of it and no other
\* is on the target, whatever the sizes of the variable and of a chunk.
THEOREM PutsArriveWholeAlways == Spec => []PutsArriveWhole
BY GlobalVarInv, IInvImplies, PTL

\* What a get has fetched is what the PE last put there, chunk by chunk.
THEOREM GetsSeePutsAlways == Spec => []GetsSeePuts
BY GlobalVarInv, IInvImplies, PTL

\* No PE leaves, by its own global_exit or in another's, with a chunk of a put
\* that has not been acknowledged.
THEOREM ExitFlushesChunksAlways == Spec => []ExitFlushesChunks
BY GlobalVarInv, IInvImplies, PTL

=============================================================================
