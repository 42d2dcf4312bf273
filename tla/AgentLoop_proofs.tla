--------------------------- MODULE AgentLoop_proofs ---------------------------
(***************************************************************************)
(* Proofs about AgentLoop, for every number of prompts, workers, servers   *)
(* and turns, and for a cache of any size: how the load is spread, that no *)
(* server sleeps too early, that sessions are sticky, and that a call does *)
(* not get stuck between the threads and the executor.                     *)
(***************************************************************************)
EXTENDS AgentLoop, SequenceTheorems, FiniteSetTheorems, TLAPS

(* The counts are numbers: what Balanced needs to be inductive.            *)
LoadInv ==
  /\ load \in [Workers -> [Servers -> Int]]
  /\ Balanced

LEMMA InitLoadInv == Init => LoadInv
BY DEF Init, LoadInv, Balanced

(* A conversation goes to a server that no other has fewer of.             *)
LEMMA SendToRootKeepsLoadInv ==
  ASSUME NEW w, NEW p, LoadInv, SendToRoot(w, p)
  PROVE  LoadInv'
<1> PICK v \in Root(w) : load' = [load EXCEPT ![w][v] = @ + 1]
  BY DEF SendToRoot
<1>1. v \in Servers /\ \A u \in Servers : load[w][v] <= load[w][u]
  BY DEF Root
<1>2. load' \in [Workers -> [Servers -> Int]]
  <2>1. CASE w \in Workers
    <3>1. load[w] \in [Servers -> Int]
      BY <2>1 DEF LoadInv
    <3>2. [load[w] EXCEPT ![v] = @ + 1] \in [Servers -> Int]
      BY <1>1, <3>1
    <3> QED BY <2>1, <3>2 DEF LoadInv
  <2>2. CASE w \notin Workers
    BY <2>2 DEF LoadInv
  <2> QED BY <2>1, <2>2
<1>3. ASSUME NEW x \in Workers, NEW s \in Servers, NEW t \in Servers
      PROVE  load'[x][s] - load'[x][t] <= 1
  <2>1. CASE x # w
    BY <2>1, <1>3 DEF LoadInv, Balanced
  <2>2. CASE x = w
    <3>1. /\ load[w][s] \in Int /\ load[w][t] \in Int /\ load[w][v] \in Int
          /\ load[w][s] - load[w][t] <= 1
          /\ load[w][v] <= load[w][t]
      BY <1>1, <1>3, <2>2 DEF LoadInv, Balanced
    <3>2. /\ load'[w][s] = IF s = v THEN load[w][v] + 1 ELSE load[w][s]
          /\ load'[w][t] = IF t = v THEN load[w][v] + 1 ELSE load[w][t]
      BY <1>1, <1>3, <2>2 DEF LoadInv
    <3> QED BY <2>2, <3>1, <3>2
  <2> QED BY <2>1, <2>2
<1> QED BY <1>2, <1>3 DEF LoadInv, Balanced

LEMMA StepLoadInv == LoadInv /\ [Next]_vars => LoadInv'
<1> SUFFICES ASSUME LoadInv, [Next]_vars PROVE LoadInv'
  OBVIOUS
<1>1. ASSUME NEW p \in Prompts, GenerateTurn(p) PROVE LoadInv'
  <2>1. CASE SendToKnown(WorkerOf(p), p)
    BY <2>1 DEF SendToKnown, LoadInv, Balanced
  <2>2. CASE SendToRoot(WorkerOf(p), p)
    BY <2>2, SendToRootKeepsLoadInv
  <2> QED BY <1>1, <2>1, <2>2 DEF GenerateTurn
<1>2. UNCHANGED load => LoadInv'
  BY DEF LoadInv, Balanced
<1>3. ASSUME NEW p \in Prompts, Conversation(p), ~GenerateTurn(p) PROVE UNCHANGED load
  BY <1>3 DEF Conversation, Continue, Finished, SubmitTask, Scored, placementVars
<1>4. Executor => UNCHANGED load
  BY DEF Executor, GetFirst, GetMore, Empty, Fill, Compute, ComputeRaises,
         Finish, TakeItem, placementVars
<1>5. Manager => UNCHANGED load
  BY DEF Manager, Call, Dispatch, Gathered, Raises, Return, WakeUp, Sleep, placementVars
<1>6. UNCHANGED vars => UNCHANGED load
  BY DEF vars, placementVars
<1> QED BY <1>1, <1>2, <1>3, <1>4, <1>5, <1>6 DEF Next

(* Each worker spreads its conversations evenly over the servers: the heap *)
(* of _choose_server never lets one get two ahead of another.              *)
THEOREM LoadBalanced == Spec => []Balanced
<1>1. Init => LoadInv
  BY InitLoadInv
<1>2. LoadInv /\ [Next]_vars => LoadInv'
  BY StepLoadInv
<1>3. LoadInv => Balanced
  BY DEF LoadInv
<1> QED BY <1>1, <1>2, <1>3, PTL DEF Spec

-----------------------------------------------------------------------------
(* Every prompt has a worker: the shares of DataProto.chunk are whole.     *)
LEMMA WorkerOfType == \A p \in Prompts : WorkerOf(p) \in Workers
<1> SUFFICES ASSUME NEW p \in Prompts PROVE WorkerOf(p) \in Workers
  OBVIOUS
<1> DEFINE k == NumPrompts \div NumWorkers
           q == p \div k
<1>1. /\ NumPrompts \in Nat \ {0} /\ NumWorkers \in Nat \ {0} /\ NumPrompts % NumWorkers = 0
      /\ p \in Nat /\ p < NumPrompts
  BY AgentLoopAssumption DEF Prompts
<1>2. k \in Nat /\ NumPrompts = NumWorkers * k
  BY <1>1
<1>3. k > 0
  BY <1>1, <1>2
<1> HIDE DEF k
<1>4. q \in Nat /\ k * q <= p
  BY <1>1, <1>2, <1>3
<1> HIDE DEF q
<1>5. q < NumWorkers
  BY <1>1, <1>2, <1>3, <1>4
<1>6. QED
  BY <1>4, <1>5, AgentLoopAssumption DEF WorkerOf, Workers, k, q

(* A cache without one of its entries.                                     *)
LEMMA RemoveAtType ==
  ASSUME NEW S, NEW s \in Seq(S), NEW i \in 1..Len(s)
  PROVE  RemoveAt(s, i) \in Seq(S)
<1>1. Len(s) \in Nat /\ \A j \in 1..Len(s) : s[j] \in S
  BY LenProperties, ElementOfSeq
<1>2. SubSeq(s, 1, i - 1) \in Seq(S)
  BY <1>1, SubSeqProperties
<1>3. SubSeq(s, i + 1, Len(s)) \in Seq(S)
  BY <1>1, SubSeqProperties
<1>4. QED
  BY <1>2, <1>3, ConcatProperties DEF RemoveAt

(* Conversations run while the workers do, and then all servers are awake. *)
AwakeInv ==
  /\ TypeOK
  /\ pc = "wait" => awake = Servers
  /\ \A p \in Prompts :
       phase[p] = "generating" => pc \in {"wait", "failed"} /\ server[p] \in awake

LEMMA InitAwakeInv == Init => AwakeInv
BY EmptySeq DEF Init, AwakeInv, TypeOK, Phases

LEMMA TurnAwakeInv ==
  ASSUME AwakeInv, NEW p \in Prompts, GenerateTurn(p)
  PROVE  AwakeInv'
<1> DEFINE w == WorkerOf(p)
<1>1. /\ w \in Workers /\ pc = "wait" /\ awake = Servers /\ TypeOK
      /\ phase' = [phase EXCEPT ![p] = "generating"] /\ turns' = [turns EXCEPT ![p] = @ + 1]
      /\ UNCHANGED <<managerVars, execVars>>
  BY WorkerOfType DEF AwakeInv, GenerateTurn, Move
<1> HIDE DEF w
<1>2. cache[w] \in Seq(Entry)
  BY <1>1 DEF TypeOK
<1>3. PICK v \in Servers :
        /\ server' = [server EXCEPT ![p] = v]
        /\ load' \in [Workers -> [Servers -> Nat]]
        /\ cache' \in [Workers -> Seq(Entry)]
  <2>1. CASE SendToKnown(w, p)
    <3>1. PICK i \in 1..Len(cache[w]) :
            /\ server' = [server EXCEPT ![p] = cache[w][i].server]
            /\ cache' = [cache EXCEPT ![w] = Append(RemoveAt(@, i), @[i])]
            /\ UNCHANGED load
      BY <2>1 DEF SendToKnown
    <3>2. cache[w][i] \in Entry /\ cache[w][i].server \in Servers
      <4>1. cache[w][i] \in Entry
        BY <1>2, ElementOfSeq
      <4>2. QED
        BY <4>1 DEF Entry
    <3>3. Append(RemoveAt(cache[w], i), cache[w][i]) \in Seq(Entry)
      BY <1>2, <3>2, RemoveAtType, AppendProperties
    <3>4. QED
      BY <1>1, <3>1, <3>2, <3>3 DEF TypeOK
  <2>2. CASE SendToRoot(w, p)
    <3>1. PICK v \in Servers :
            /\ server' = [server EXCEPT ![p] = v]
            /\ load' = [load EXCEPT ![w][v] = @ + 1]
            /\ cache' = [cache EXCEPT ![w] =
                           Append(Evict(@), [request |-> Request(p), server |-> v])]
      BY <2>2 DEF SendToRoot, Root
    <3>2. [request |-> Request(p), server |-> v] \in Entry
      BY <1>1 DEF Entry, Request, TypeOK
    <3>3. Evict(cache[w]) \in Seq(Entry)
      <4>1. CASE Len(cache[w]) < CacheSize
        BY <1>2, <4>1 DEF Evict
      <4>2. CASE ~(Len(cache[w]) < CacheSize)
        <5>1. cache[w] # <<>>
          BY <4>2, EmptySeq, AgentLoopAssumption
        <5>2. QED
          BY <1>2, <4>2, <5>1, HeadTailProperties DEF Evict
      <4>3. QED
        BY <4>1, <4>2
    <3>4. Append(Evict(cache[w]), [request |-> Request(p), server |-> v]) \in Seq(Entry)
      BY <3>2, <3>3, AppendProperties
    <3>5. load' \in [Workers -> [Servers -> Nat]]
      <4>1. load \in [Workers -> [Servers -> Nat]] /\ load[w] \in [Servers -> Nat]
        BY <1>1 DEF TypeOK
      <4>2. [load[w] EXCEPT ![v] = @ + 1] \in [Servers -> Nat]
        BY <4>1
      <4>3. QED
        BY <3>1, <4>1, <4>2
    <3>6. QED
      BY <1>1, <3>1, <3>4, <3>5 DEF TypeOK
  <2>3. QED
    BY <2>1, <2>2 DEF GenerateTurn, w
<1>4. TypeOK'
  BY <1>1, <1>3 DEF TypeOK, Phases, managerVars, execVars
<1>5. QED
  BY <1>1, <1>3, <1>4 DEF AwakeInv, TypeOK, managerVars

(* A step that starts no generation and puts no server to sleep.           *)
LEMMA QuietAwakeInv ==
  ASSUME AwakeInv, TypeOK', UNCHANGED <<pc, awake>>,
         \A p \in Prompts : phase'[p] = "generating" =>
                             phase[p] = "generating" /\ server'[p] = server[p]
  PROVE  AwakeInv'
BY DEF AwakeInv

LEMMA ChatAwakeInv ==
  ASSUME AwakeInv, NEW p \in Prompts,
         Continue(p) \/ Finished(p) \/ SubmitTask(p) \/ Scored(p)
  PROVE  AwakeInv'
<1> USE DEF TypeOK, Phases, managerVars, placementVars, execVars, Move
<1>0. TypeOK
  BY DEF AwakeInv
<1>1. CASE Continue(p)
  BY <1>0, <1>1, QuietAwakeInv DEF Continue
<1>2. CASE Finished(p)
  BY <1>0, <1>2, QuietAwakeInv DEF Finished
<1>3. CASE SubmitTask(p)
  <2>1. queue' \in Seq(Prompts)
    BY <1>0, <1>3, AppendProperties DEF SubmitTask
  <2>2. QED
    BY <1>0, <1>3, <2>1, QuietAwakeInv DEF SubmitTask
<1>4. CASE Scored(p)
  BY <1>0, <1>4, QuietAwakeInv DEF Scored
<1>5. QED
  BY <1>1, <1>2, <1>3, <1>4

LEMMA ExecutorAwakeInv ==
  ASSUME AwakeInv, Executor
  PROVE  AwakeInv'
<1> USE DEF managerVars, chatVars, placementVars
<1>0. TypeOK
  BY DEF AwakeInv
<1>1. ASSUME TakeItem, exec' \in {"get", "get_nowait", "fill", "run"} PROVE AwakeInv'
  <2>1. queue' \in Seq(Prompts) /\ items' \in Seq(Prompts)
    BY <1>0, <1>1, HeadTailProperties, AppendProperties DEF TakeItem, TypeOK
  <2>2. TypeOK'
    BY <1>0, <1>1, <2>1 DEF TakeItem, TypeOK
  <2>3. QED
    BY <1>1, <2>2, QuietAwakeInv DEF TakeItem
<1>2. CASE GetFirst \/ GetMore \/ Fill
  BY <1>1, <1>2 DEF GetFirst, GetMore, Fill
<1>3. CASE Empty
  <2>1. TypeOK'
    BY <1>0, <1>3 DEF Empty, TypeOK
  <2>2. QED
    BY <1>3, <2>1, QuietAwakeInv DEF Empty
<1>4. ASSUME NEW result \in {"scoring", "raised"}, Finish(result) PROVE AwakeInv'
  <2>1. TypeOK'
    BY <1>0, <1>4, EmptySeq DEF Finish, TypeOK, Phases
  <2>2. QED
    BY <1>4, <2>1, QuietAwakeInv DEF Finish
<1>5. QED
  BY <1>2, <1>3, <1>4 DEF Executor, Compute, ComputeRaises

LEMMA ManagerAwakeInv ==
  ASSUME AwakeInv, Manager
  PROVE  AwakeInv'
BY DEF AwakeInv, TypeOK, Manager, Call, Dispatch, Gathered, Raises, Return, WakeUp, Sleep, Goto,
       chatVars, placementVars, execVars, Phases

THEOREM AwakeInvariant == Spec => []AwakeInv
<1>1. ASSUME AwakeInv, [Next]_vars PROVE AwakeInv'
  <2>1. CASE UNCHANGED vars
    BY <1>1, <2>1 DEF vars, managerVars, chatVars, placementVars, execVars, AwakeInv, TypeOK
  <2>2. QED
    BY <1>1, <2>1, TurnAwakeInv, ChatAwakeInv, ExecutorAwakeInv, ManagerAwakeInv
    DEF Next, Conversation
<1>2. QED
  BY <1>1, InitAwakeInv, PTL DEF Spec

(* TypeOK: the variables keep their types, for any number of rounds.       *)
THEOREM TypeCorrect == Spec => []TypeOK
<1>1. AwakeInv => TypeOK
  BY DEF AwakeInv
<1>2. QED
  BY <1>1, AwakeInvariant, PTL

(* GeneratesAwake: generate_sequences wakes every server before the first  *)
(* turn of a conversation, and none sleeps before the last.                *)
THEOREM AlwaysAwake == Spec => []GeneratesAwake
<1>1. AwakeInv => GeneratesAwake
  BY DEF AwakeInv, GeneratesAwake
<1>2. QED
  BY <1>1, AwakeInvariant, PTL

-----------------------------------------------------------------------------
(* Sticky sessions, for a cache that holds the conversations of a worker.  *)
SharesFit ==
  \A w \in Workers : Cardinality({p \in Prompts : WorkerOf(p) = w}) <= CacheSize

(* What is in the executor is blocked on it, and there once.               *)
QueueInv ==
  /\ \A i \in 1..Len(queue) : phase[queue[i]] = "blocked"
  /\ \A i \in 1..Len(items) : phase[items[i]] = "blocked"
  /\ \A i, j \in 1..Len(queue) : i # j => queue[i] # queue[j]
  /\ \A i \in 1..Len(queue), j \in 1..Len(items) : queue[i] # items[j]

(* A conversation has had a turn only while it goes on, and none goes on    *)
(* between two calls of generate_sequences.                                 *)
TurnsInv ==
  /\ \A p \in Prompts : turns[p] > 0 => phase[p] \in {"ready", "generating"}
  /\ pc \in {"idle", "wake_up", "sleep"} => \A p \in Prompts : phase[p] \in {"none", "done"}

(* A cache names each conversation of its worker once, those of this round  *)
(* behind those of earlier ones.                                            *)
Ordered(c, w, n) ==
  /\ \A i \in 1..Len(c) : c[i].request[1] <= n /\ WorkerOf(c[i].request[2]) = w
  /\ \A i, j \in 1..Len(c) : i < j => c[i].request[1] <= c[j].request[1]
  /\ \A i, j \in 1..Len(c) : i # j => c[i].request # c[j].request

Holds(c, e) == \E i \in 1..Len(c) : c[i] = e
Session(p, n, v) == [request |-> <<n, p>>, server |-> v]

StickyInv ==
  /\ QueueInv
  /\ TurnsInv
  /\ \A w \in Workers : Ordered(cache[w], w, round)
  /\ \A p \in Prompts :
       turns[p] > 0 => Holds(cache[WorkerOf(p)], Session(p, round, server[p]))

-----------------------------------------------------------------------------
(* The elements of a sequence that has lost one.                           *)
LEMMA RemoveAtIs ==
  ASSUME NEW S, NEW s \in Seq(S), NEW i \in 1..Len(s)
  PROVE  /\ Len(RemoveAt(s, i)) = Len(s) - 1
         /\ \A j \in 1..(Len(s) - 1) : RemoveAt(s, i)[j] = IF j < i THEN s[j] ELSE s[j + 1]
<1> DEFINE a == SubSeq(s, 1, i - 1)
           b == SubSeq(s, i + 1, Len(s))
<1>1. Len(s) \in Nat /\ (\A j \in 1..Len(s) : s[j] \in S) /\ i \in Nat \ {0} /\ i <= Len(s)
  BY LenProperties, ElementOfSeq
<1>2. /\ a \in Seq(S) /\ Len(a) = i - 1 /\ \A j \in 1..(i - 1) : a[j] = s[j]
  BY <1>1, SubSeqProperties
<1>3. /\ b \in Seq(S) /\ Len(b) = Len(s) - i /\ \A j \in 1..(Len(s) - i) : b[j] = s[i + j]
  <2>1. /\ b \in Seq(S) /\ Len(b) = IF i + 1 <= Len(s) THEN Len(s) - (i + 1) + 1 ELSE 0
        /\ \A j \in 1..(Len(s) - (i + 1) + 1) : b[j] = s[(i + 1) + j - 1]
    <3>1. i + 1 \in Int /\ Len(s) \in Int /\ \A j \in (i + 1)..Len(s) : s[j] \in S
      BY <1>1
    <3> HIDE DEF a
    <3>2. QED
      BY <3>1, SubSeqProperties
  <2> HIDE DEF a, b
  <2>2. QED
    BY <1>1, <2>1
<1> HIDE DEF a, b
<1>4. /\ Len(a \o b) = Len(s) - 1
      /\ \A j \in 1..(Len(s) - 1) : (a \o b)[j] = IF j <= i - 1 THEN a[j] ELSE b[j - (i - 1)]
  <2>1. /\ Len(a \o b) = Len(a) + Len(b)
        /\ \A j \in 1..(Len(a) + Len(b)) :
             (a \o b)[j] = IF j <= Len(a) THEN a[j] ELSE b[j - Len(a)]
    BY <1>2, <1>3, ConcatProperties
  <2>2. Len(a) + Len(b) = Len(s) - 1
    BY <1>1, <1>2, <1>3
  <2>3. QED
    BY <1>2, <2>1, <2>2
<1>5. ASSUME NEW j \in 1..(Len(s) - 1) PROVE (a \o b)[j] = IF j < i THEN s[j] ELSE s[j + 1]
  <2>1. CASE j < i
    BY <1>1, <1>2, <1>4, <2>1
  <2>2. CASE ~(j < i)
    <3>1. j - (i - 1) \in 1..(Len(s) - i) /\ ~(j <= i - 1) /\ i + (j - (i - 1)) = j + 1
      BY <1>1, <2>2
    <3>2. (a \o b)[j] = b[j - (i - 1)]
      BY <1>4, <3>1
    <3>3. QED
      BY <1>3, <2>2, <3>1, <3>2
  <2>3. QED
    BY <2>1, <2>2
<1>6. QED
  BY <1>4, <1>5 DEF RemoveAt, a, b

(* A lookup moves an entry of this round to the end.                       *)
LEMMA LookedUp ==
  ASSUME NEW c \in Seq(Entry), NEW i \in 1..Len(c), NEW w, NEW n \in Nat,
         Ordered(c, w, n), c[i].request[1] = n
  PROVE  /\ Ordered(Append(RemoveAt(c, i), c[i]), w, n)
         /\ \A e : Holds(c, e) => Holds(Append(RemoveAt(c, i), c[i]), e)
<1> DEFINE a == RemoveAt(c, i)
           d == Append(a, c[i])
           Old(j) == IF j = Len(c) THEN i ELSE IF j < i THEN j ELSE j + 1
           New(j) == IF j = i THEN Len(c) ELSE IF j < i THEN j ELSE j - 1
<1>1. Len(c) \in Nat /\ i \in Nat /\ 1 <= i /\ i <= Len(c)
  BY LenProperties
<1>2. \A j \in 1..Len(c) : c[j] \in Entry /\ c[j].request[1] \in Nat
  <2>1. \A j \in 1..Len(c) : c[j] \in Entry
    BY ElementOfSeq
  <2>2. QED
    BY <2>1 DEF Entry
<1>3. /\ a \in Seq(Entry) /\ Len(a) = Len(c) - 1
      /\ \A j \in 1..(Len(c) - 1) : a[j] = IF j < i THEN c[j] ELSE c[j + 1]
  BY RemoveAtType, RemoveAtIs
<1> HIDE DEF a
<1>4. /\ Len(d) = Len(c)
      /\ \A j \in 1..(Len(c) - 1) : d[j] = IF j < i THEN c[j] ELSE c[j + 1]
      /\ d[Len(c)] = c[i]
  <2>1. /\ Len(d) = Len(a) + 1 /\ d[Len(a) + 1] = c[i]
        /\ \A j \in 1..Len(a) : d[j] = a[j]
    BY <1>2, <1>3, AppendProperties
  <2> HIDE DEF d
  <2>2. QED
    BY <1>1, <1>3, <2>1
<1> HIDE DEF d
<1>5. \A j \in 1..Len(c) : Old(j) \in 1..Len(c) /\ d[j] = c[Old(j)]
  BY <1>1, <1>4
<1>6. \A j \in 1..Len(c) : New(j) \in 1..Len(c) /\ Old(New(j)) = j
  BY <1>1
<1>7. \A j, k \in 1..Len(c) : j < k => Old(j) # Old(k) /\ (Old(k) = i \/ Old(j) < Old(k))
  BY <1>1
<1> HIDE DEF Old, New
<1>8. \A e : Holds(c, e) => Holds(d, e)
  <2> SUFFICES ASSUME NEW e, NEW j \in 1..Len(c), c[j] = e PROVE Holds(d, e)
    BY DEF Holds
  <2>1. New(j) \in 1..Len(c) /\ d[New(j)] = e
    BY <1>5, <1>6
  <2>2. QED
    BY <1>4, <2>1 DEF Holds
<1>9. \A j \in 1..Len(d) : d[j].request[1] <= n /\ WorkerOf(d[j].request[2]) = w
  BY SMTT(30), <1>4, <1>5 DEF Ordered
<1>10. ASSUME NEW j \in 1..Len(d), NEW k \in 1..Len(d), j < k
       PROVE  d[j].request[1] <= d[k].request[1] /\ d[j].request # d[k].request
  <2>1. /\ Old(j) \in 1..Len(c) /\ Old(k) \in 1..Len(c) /\ Old(j) # Old(k)
        /\ d[j] = c[Old(j)] /\ d[k] = c[Old(k)]
        /\ Old(k) = i \/ Old(j) < Old(k)
    BY <1>4, <1>5, <1>7, <1>10
  <2>2. QED
    BY <2>1 DEF Ordered
<1>11. Ordered(d, w, n)
  <2>1. \A j, k \in 1..Len(d) : j # k => j < k \/ k < j
    BY <1>1, <1>4
  <2>2. QED
    BY <1>9, <1>10, <2>1 DEF Ordered
<1>12. QED
  BY <1>8, <1>11 DEF d, a

(* A new entry of this round goes behind the others.                       *)
LEMMA Remembered ==
  ASSUME NEW c \in Seq(Entry), NEW e \in Entry, NEW w, NEW n \in Nat,
         Ordered(c, w, n), e.request[1] = n, WorkerOf(e.request[2]) = w,
         \A i \in 1..Len(c) : c[i].request # e.request
  PROVE  /\ Ordered(Append(c, e), w, n)
         /\ Holds(Append(c, e), e)
         /\ \A x : Holds(c, x) => Holds(Append(c, e), x)
<1> DEFINE d == Append(c, e)
<1>1. /\ Len(c) \in Nat /\ Len(d) = Len(c) + 1 /\ d[Len(c) + 1] = e
      /\ \A j \in 1..Len(c) : d[j] = c[j]
  BY LenProperties, AppendProperties
<1> HIDE DEF d
<1>2. \A j \in 1..Len(d) : j \in 1..Len(c) \/ j = Len(c) + 1
  BY <1>1
<1>3. \A j \in 1..Len(d) : d[j].request[1] <= n /\ WorkerOf(d[j].request[2]) = w
  BY <1>1, <1>2 DEF Ordered
<1>4. \A j, k \in 1..Len(d) : j < k => d[j].request[1] <= d[k].request[1]
  <2> SUFFICES ASSUME NEW j \in 1..Len(d), NEW k \in 1..Len(d), j < k
               PROVE  d[j].request[1] <= d[k].request[1]
    OBVIOUS
  <2>1. j \in 1..Len(c)
    BY <1>1
  <2>2. QED
    BY <1>1, <1>2, <2>1 DEF Ordered
<1>5. \A j, k \in 1..Len(d) : j # k => d[j].request # d[k].request
  BY <1>1, <1>2 DEF Ordered
<1>6. Len(c) + 1 \in 1..Len(d) /\ \A j \in 1..Len(c) : j \in 1..Len(d)
  BY <1>1
<1>7. QED
  BY <1>1, <1>3, <1>4, <1>5, <1>6 DEF Ordered, Holds, d

(* A full cache that does not know a conversation of this round holds an    *)
(* entry of an earlier one, and that is the one it loses.                   *)
LEMMA OldestIsOlder ==
  ASSUME SharesFit, NEW w \in Workers, NEW n \in Nat, NEW c \in Seq(Entry),
         Ordered(c, w, n), Len(c) >= CacheSize,
         NEW p \in Prompts, WorkerOf(p) = w,
         \A i \in 1..Len(c) : c[i].request # <<n, p>>
  PROVE  Len(c) >= 1 /\ c[1].request[1] < n
<1> DEFINE share == {q \in Prompts : WorkerOf(q) = w}
           f == [i \in 1..Len(c) |-> c[i].request[2]]
<1>1. Len(c) \in Nat /\ CacheSize \in Nat \ {0} /\ Len(c) >= 1
  BY LenProperties, AgentLoopAssumption
<1>2. \A j \in 1..Len(c) : /\ c[j].request[1] \in Nat /\ c[j].request[2] \in Prompts
                            /\ c[j].request = <<c[j].request[1], c[j].request[2]>>
  <2>1. \A j \in 1..Len(c) : c[j] \in Entry
    BY ElementOfSeq
  <2>2. QED
    BY <2>1 DEF Entry
<1>3. SUFFICES ASSUME c[1].request[1] >= n PROVE FALSE
  BY <1>1, <1>2
<1>4. \A j \in 1..Len(c) : c[j].request[1] = n
  <2> SUFFICES ASSUME NEW j \in 1..Len(c) PROVE c[j].request[1] = n
    OBVIOUS
  <2>1. 1 \in 1..Len(c) /\ (j = 1 \/ 1 < j)
    BY <1>1
  <2>2. c[1].request[1] <= c[j].request[1] /\ c[j].request[1] <= n
    BY <1>2, <2>1 DEF Ordered
  <2>3. QED
    BY <1>2, <1>3, <2>1, <2>2
<1>5. f \in Injection(1..Len(c), share \ {p})
  <2>1. \A j \in 1..Len(c) : c[j].request[2] \in share \ {p}
    BY <1>2, <1>4 DEF Ordered
  <2>2. ASSUME NEW j \in 1..Len(c), NEW k \in 1..Len(c), c[j].request[2] = c[k].request[2]
        PROVE  j = k
    <3>1. c[j].request[1] = c[k].request[1]
      BY <1>4
    <3>2. /\ c[j].request = <<c[j].request[1], c[j].request[2]>>
          /\ c[k].request = <<c[k].request[1], c[k].request[2]>>
      BY <1>2
    <3>3. c[j].request = c[k].request
      BY ONLY <2>2, <3>1, <3>2
    <3>4. QED
      BY <3>3 DEF Ordered
  <2>3. QED
    BY <2>1, <2>2 DEF Injection, IsInjective
<1> HIDE DEF f
<1>6. IsFiniteSet(share) /\ p \in share /\ Cardinality(share) \in Nat
  <2>1. IsFiniteSet(Prompts)
    BY FS_Interval, AgentLoopAssumption DEF Prompts
  <2>2. IsFiniteSet(share) /\ p \in share
    BY <2>1, FS_Subset
  <2> HIDE DEF share
  <2>3. QED
    BY <2>2, FS_CardinalityType
<1>7. Cardinality(share) <= CacheSize
  BY DEF SharesFit
<1> HIDE DEF share
<1>8. IsFiniteSet(share \ {p}) /\ Cardinality(share \ {p}) = Cardinality(share) - 1
  BY <1>6, FS_RemoveElement
<1>9. Cardinality(1..Len(c)) = Len(c)
  BY SMTT(30), <1>1, FS_Interval
<1>10. Cardinality(1..Len(c)) <= Cardinality(share \ {p})
  BY <1>5, <1>8, FS_Injection
<1>11. QED
  BY <1>1, <1>6, <1>7, <1>8, <1>9, <1>10

(* Making room keeps the entries of this round.                            *)
LEMMA RoomIsMade ==
  ASSUME SharesFit, NEW w \in Workers, NEW n \in Nat, NEW c \in Seq(Entry),
         Ordered(c, w, n), NEW p \in Prompts, WorkerOf(p) = w,
         \A i \in 1..Len(c) : c[i].request # <<n, p>>
  PROVE  /\ Evict(c) \in Seq(Entry)
         /\ Ordered(Evict(c), w, n)
         /\ \A i \in 1..Len(Evict(c)) : Evict(c)[i].request # <<n, p>>
         /\ \A e : Holds(c, e) /\ e.request[1] = n => Holds(Evict(c), e)
<1>1. CASE Len(c) < CacheSize
  BY <1>1 DEF Evict
<1>2. CASE ~(Len(c) < CacheSize)
  <2> DEFINE d == Tail(c)
  <2>1. Len(c) \in Nat /\ CacheSize \in Nat
    BY LenProperties, AgentLoopAssumption
  <2>2. Len(c) >= 1 /\ c[1].request[1] < n
    <3>1. Len(c) >= CacheSize
      BY <1>2, <2>1
    <3>2. QED
      BY <3>1, OldestIsOlder
  <2>3. /\ d \in Seq(Entry) /\ Len(d) = Len(c) - 1
        /\ \A i \in 1..Len(d) : d[i] = c[i + 1]
    <3>1. c # << >>
      BY <2>2, EmptySeq
    <3>2. QED
      BY <3>1, HeadTailProperties
  <2> HIDE DEF d
  <2>4. \A i \in 1..Len(d) : i + 1 \in 1..Len(c) /\ d[i] = c[i + 1]
    BY <2>1, <2>3
  <2>5. Ordered(d, w, n)
    <3>1. \A i \in 1..Len(d) : d[i].request[1] <= n /\ WorkerOf(d[i].request[2]) = w
      BY <2>4 DEF Ordered
    <3>2. ASSUME NEW i \in 1..Len(d), NEW j \in 1..Len(d)
          PROVE  /\ i < j => d[i].request[1] <= d[j].request[1]
                 /\ i # j => d[i].request # d[j].request
      <4>1. /\ i + 1 \in 1..Len(c) /\ j + 1 \in 1..Len(c) /\ d[i] = c[i + 1] /\ d[j] = c[j + 1]
            /\ i < j => i + 1 < j + 1
            /\ i # j => i + 1 # j + 1
        BY <2>4
      <4>2. QED
        BY <4>1 DEF Ordered
    <3>3. QED
      BY <3>1, <3>2 DEF Ordered
  <2>6. \A i \in 1..Len(d) : d[i].request # <<n, p>>
    BY <2>4
  <2>7. ASSUME NEW e, Holds(c, e), e.request[1] = n PROVE Holds(d, e)
    <3>1. PICK i \in 1..Len(c) : c[i] = e
      BY <2>7 DEF Holds
    <3>2. i # 1
      BY <2>2, <2>7, <3>1
    <3>3. i - 1 \in 1..Len(d) /\ (i - 1) + 1 = i
      BY <2>1, <2>3, <3>2
    <3>4. QED
      BY <2>3, <3>1, <3>3 DEF Holds
  <2>8. QED
    BY <1>2, <2>1, <2>3, <2>5, <2>6, <2>7 DEF Evict, d
<1>3. QED
  BY <1>1, <1>2

-----------------------------------------------------------------------------
LEMMA InitStickyInv == Init => StickyInv
BY EmptySeq DEF Init, StickyInv, QueueInv, TurnsInv, Ordered

(* A step of a conversation that has had no turn, or of none at all.       *)
LEMMA QuietStickyInv ==
  ASSUME StickyInv, QueueInv', TurnsInv', UNCHANGED <<round, cache>>,
         \A p \in Prompts : turns'[p] > 0 => turns[p] > 0 /\ server'[p] = server[p]
  PROVE  StickyInv'
BY DEF StickyInv

(* The executor's sequences are not touched, nor who is blocked.           *)
LEMMA QuietQueueInv ==
  ASSUME TypeOK, QueueInv, UNCHANGED execVars,
         \A p \in Prompts : phase[p] = "blocked" => phase'[p] = "blocked"
  PROVE  QueueInv'
<1>1. /\ \A i \in 1..Len(queue) : queue[i] \in Prompts
      /\ \A i \in 1..Len(items) : items[i] \in Prompts
  BY ElementOfSeq DEF TypeOK
<1>2. QED
  BY <1>1 DEF QueueInv, execVars

(* A turn keeps to the server of the one before.                           *)
LEMMA TurnSticks ==
  ASSUME SharesFit, AwakeInv, StickyInv, NEW p \in Prompts, GenerateTurn(p)
  PROVE  StickyInv' /\ (turns[p] > 0 => server'[p] = server[p])
<1> DEFINE w == WorkerOf(p)
           c == cache[w]
           e == Session(p, round, server'[p])
           stays(d) == \A x : Holds(c, x) /\ x.request[1] = round => Holds(d, x)
<1>1. /\ pc = "wait" /\ phase[p] = "ready" /\ phase' = [phase EXCEPT ![p] = "generating"]
      /\ turns' = [turns EXCEPT ![p] = @ + 1]
      /\ UNCHANGED <<managerVars, execVars>>
  BY DEF GenerateTurn, Move
<1>2. /\ TypeOK /\ w \in Workers /\ round \in Nat /\ c \in Seq(Entry) /\ Ordered(c, w, round)
      /\ turns[p] > 0 => Holds(c, Session(p, round, server[p]))
  BY WorkerOfType DEF AwakeInv, TypeOK, StickyInv
<1>3. \A i \in 1..Len(c) : c[i] \in Entry
  BY <1>2, ElementOfSeq
<1>4. \E d : /\ cache' = [cache EXCEPT ![w] = d]
             /\ Ordered(d, w, round) /\ Holds(d, e) /\ stays(d)
             /\ \E v \in Servers : server' = [server EXCEPT ![p] = v]
             /\ turns[p] > 0 => server'[p] = server[p]
  <2>1. CASE SendToKnown(w, p)
    <3>1. PICK i \in 1..Len(c) :
            /\ c[i].request = <<round, p>>
            /\ server' = [server EXCEPT ![p] = c[i].server]
            /\ cache' = [cache EXCEPT ![w] = Append(RemoveAt(c, i), c[i])]
      BY <2>1 DEF SendToKnown, Request
    <3>2. /\ c[i] = Session(p, round, c[i].server) /\ c[i].server \in Servers
          /\ c[i].request[1] = round
      BY <1>3, <3>1 DEF Entry, Session
    <3>3. server'[p] = c[i].server
      BY <1>2, <3>1 DEF TypeOK
    <3>4. Ordered(Append(RemoveAt(c, i), c[i]), w, round)
          /\ \A x : Holds(c, x) => Holds(Append(RemoveAt(c, i), c[i]), x)
      <4> HIDE DEF c, w
      <4>1. QED
        BY <1>2, <3>2, LookedUp
    <3>5. Holds(c, e)
      BY <3>2, <3>3 DEF Holds
    <3>6. ASSUME turns[p] > 0 PROVE server'[p] = server[p]
      <4>1. PICK j \in 1..Len(c) : c[j] = Session(p, round, server[p])
        BY <1>2, <3>6 DEF Holds
      <4>2. c[j].request = c[i].request
        BY <3>1, <4>1 DEF Session
      <4>3. j = i
        BY <1>2, <4>2 DEF Ordered
      <4>4. QED
        BY <3>3, <4>1, <4>3 DEF Session
    <3> HIDE DEF c, e, w
    <3>7. QED
      BY <3>1, <3>2, <3>4, <3>5, <3>6
  <2>2. CASE SendToRoot(w, p)
    <3>1. PICK v \in Servers :
            /\ server' = [server EXCEPT ![p] = v]
            /\ cache' = [cache EXCEPT ![w] = Append(Evict(c), Session(p, round, v))]
      BY <2>2 DEF SendToRoot, Root, Session, Request
    <3>2. server'[p] = v /\ e = Session(p, round, v)
      BY <1>2, <3>1 DEF TypeOK
    <3>3. \A i \in 1..Len(c) : c[i].request # <<round, p>>
      BY <2>2 DEF SendToRoot, Known, Entries, Request
    <3>4. e \in Entry /\ e.request = <<round, p>> /\ e.request[1] = round /\ e.request[2] = p
      BY <1>2, <3>2 DEF Entry, Session
    <3>5. turns[p] > 0 => FALSE
      BY <1>2, <3>3 DEF Holds, Session
    <3> DEFINE f == Evict(c)
    <3>6. /\ f \in Seq(Entry) /\ Ordered(f, w, round)
          /\ \A i \in 1..Len(f) : f[i].request # <<round, p>>
          /\ \A x : Holds(c, x) /\ x.request[1] = round => Holds(f, x)
      <4>1. WorkerOf(p) = w
        OBVIOUS
      <4> HIDE DEF c, w
      <4>2. QED
        BY <1>2, <3>3, <4>1, RoomIsMade
    <3>7. /\ Ordered(Append(f, e), w, round) /\ Holds(Append(f, e), e)
          /\ \A x : Holds(f, x) => Holds(Append(f, e), x)
      <4>1. WorkerOf(e.request[2]) = w
        BY <3>4
      <4> HIDE DEF f, w, e
      <4>2. QED
        BY <1>2, <3>4, <3>6, <4>1, Remembered
    <3>8. cache' = [cache EXCEPT ![w] = Append(f, e)]
      BY <3>1, <3>2
    <3> HIDE DEF c, e, w, f
    <3>9. QED
      BY <3>1, <3>5, <3>6, <3>7, <3>8
  <2>3. QED
    BY <1>1, <2>1, <2>2 DEF GenerateTurn
<1>5. PICK d : /\ cache' = [cache EXCEPT ![w] = d]
               /\ Ordered(d, w, round) /\ Holds(d, e) /\ stays(d)
               /\ \E v \in Servers : server' = [server EXCEPT ![p] = v]
               /\ turns[p] > 0 => server'[p] = server[p]
  BY <1>4
<1> HIDE DEF e, stays
<1>6. UNCHANGED round
  BY <1>1 DEF managerVars
<1>7. \A x \in Workers : cache'[x] = IF x = w THEN d ELSE cache[x]
  BY <1>2, <1>5 DEF TypeOK
<1>8. \A x \in Workers : Ordered(cache'[x], x, round')
  BY <1>2, <1>5, <1>6, <1>7 DEF StickyInv
<1>9. ASSUME NEW q \in Prompts, turns'[q] > 0
      PROVE  Holds(cache'[WorkerOf(q)], Session(q, round', server'[q]))
  <2>0. WorkerOf(q) \in Workers
    BY WorkerOfType
  <2>1. CASE q = p
    BY <1>2, <1>5, <1>6, <1>7, <2>1 DEF e
  <2>2. CASE q # p
    <3>1. turns[q] > 0 /\ server'[q] = server[q]
      BY <1>1, <1>2, <1>5, <1>9, <2>2 DEF TypeOK
    <3>2. Holds(cache[WorkerOf(q)], Session(q, round, server[q]))
      BY <3>1 DEF StickyInv
    <3>3. Session(q, round, server[q]).request[1] = round
      BY DEF Session
    <3>4. CASE WorkerOf(q) = w
      <4>1. Holds(d, Session(q, round, server[q]))
        BY <1>5, <3>2, <3>3, <3>4 DEF stays
      <4>2. QED
        BY <1>6, <1>7, <2>0, <3>1, <3>4, <4>1
    <3>5. CASE WorkerOf(q) # w
      BY <1>6, <1>7, <2>0, <3>1, <3>2, <3>5
    <3>6. QED
      BY <3>4, <3>5
  <2>3. QED
    BY <2>1, <2>2
<1>10. QueueInv'
  <2>1. \A q \in Prompts : phase[q] = "blocked" => phase'[q] = "blocked"
    BY <1>1, <1>2 DEF TypeOK
  <2>2. QED
    BY <1>1, <1>2, <2>1, QuietQueueInv DEF StickyInv
<1>11. TurnsInv'
  BY <1>1, <1>2 DEF StickyInv, TurnsInv, TypeOK, managerVars
<1>12. QED
  BY <1>5, <1>8, <1>9, <1>10, <1>11 DEF StickyInv

LEMMA ChatStickyInv ==
  ASSUME AwakeInv, StickyInv, NEW p \in Prompts,
         Continue(p) \/ Finished(p) \/ SubmitTask(p) \/ Scored(p)
  PROVE  StickyInv'
<1> USE DEF managerVars, placementVars, Move
<1>0. TypeOK /\ QueueInv /\ TurnsInv
  BY DEF AwakeInv, StickyInv
<1>1. ASSUME UNCHANGED execVars, UNCHANGED <<managerVars, placementVars>>, pc = "wait",
             NEW a \in {"generating", "scoring"}, NEW b, phase[p] = a,
             phase' = [phase EXCEPT ![p] = b],
             \A q \in Prompts : turns'[q] > 0 => turns[q] > 0 /\ server'[q] = server[q],
             turns'[p] > 0 => b = "ready"
      PROVE  StickyInv'
  <2>1. \A q \in Prompts : phase[q] = "blocked" => phase'[q] = "blocked"
    BY <1>0, <1>1 DEF TypeOK
  <2>2. QueueInv'
    BY <1>0, <1>1, <2>1, QuietQueueInv
  <2>3. TurnsInv'
    BY <1>0, <1>1 DEF TurnsInv, TypeOK
  <2>4. QED
    BY <1>1, <2>2, <2>3, QuietStickyInv
<1>2. CASE Continue(p)
  BY <1>1, <1>2 DEF Continue
<1>3. CASE Finished(p)
  <2>1. turns' = [turns EXCEPT ![p] = 0] /\ server' = [server EXCEPT ![p] = NoServer]
    BY <1>3 DEF Finished
  <2>2. \A q \in Prompts : turns'[q] > 0 => q # p /\ turns[q] > 0 /\ server'[q] = server[q]
    BY <1>0, <2>1 DEF TypeOK
  <2>3. QED
    BY <1>1, <1>3, <2>2 DEF Finished
<1>4. CASE Scored(p)
  <2>1. ~(turns'[p] > 0)
    BY <1>0, <1>4 DEF Scored, TurnsInv
  <2>2. QED
    BY <1>1, <1>4, <2>1 DEF Scored
<1>5. CASE SubmitTask(p)
  <2>1. /\ pc = "wait" /\ phase[p] = "pooled" /\ phase' = [phase EXCEPT ![p] = "blocked"]
        /\ queue' = Append(queue, p)
        /\ UNCHANGED <<managerVars, turns, server, placementVars, items>>
    BY <1>5 DEF SubmitTask
  <2>2. /\ Len(queue) \in Nat /\ Len(queue') = Len(queue) + 1 /\ queue'[Len(queue) + 1] = p
        /\ \A i \in 1..Len(queue) : queue'[i] = queue[i] /\ queue[i] \in Prompts
        /\ \A i \in 1..Len(items) : items[i] \in Prompts
    BY <1>0, <2>1, LenProperties, ElementOfSeq, AppendProperties DEF TypeOK
  <2>3. /\ \A i \in 1..Len(queue) : queue[i] # p /\ phase[queue[i]] = "blocked"
        /\ \A i \in 1..Len(items) : items[i] # p /\ phase[items[i]] = "blocked"
    BY <1>0, <2>1 DEF QueueInv
  <2>4. \A q \in Prompts : phase[q] = "blocked" \/ q = p => phase'[q] = "blocked"
    BY <1>0, <2>1 DEF TypeOK
  <2>5. \A i \in 1..Len(queue') : i \in 1..Len(queue) \/ i = Len(queue) + 1
    BY <2>2
  <2>6. /\ \A i \in 1..Len(queue') : phase'[queue'[i]] = "blocked"
        /\ \A i \in 1..Len(items) : phase'[items[i]] = "blocked"
    BY <2>2, <2>3, <2>4, <2>5
  <2>7. \A i, j \in 1..Len(queue') : i # j => queue'[i] # queue'[j]
    BY <1>0, <2>2, <2>3, <2>5 DEF QueueInv
  <2>8. \A i \in 1..Len(queue'), j \in 1..Len(items) : queue'[i] # items[j]
    BY <1>0, <2>2, <2>3, <2>5 DEF QueueInv
  <2>9. QueueInv'
    BY <2>1, <2>6, <2>7, <2>8 DEF QueueInv
  <2>10. TurnsInv'
    BY <1>0, <2>1 DEF TurnsInv, TypeOK
  <2>11. QED
    BY <2>1, <2>9, <2>10, QuietStickyInv
<1>6. QED
  BY <1>2, <1>3, <1>4, <1>5

LEMMA ExecutorStickyInv ==
  ASSUME AwakeInv, StickyInv, Executor
  PROVE  StickyInv'
<1> USE DEF managerVars, chatVars, placementVars
<1>0. TypeOK /\ QueueInv /\ TurnsInv
  BY DEF AwakeInv, StickyInv
<1>1. ASSUME TakeItem PROVE StickyInv'
  <2>1. /\ queue # << >> /\ items' = Append(items, Head(queue)) /\ queue' = Tail(queue)
        /\ UNCHANGED <<pc, round, awake, phase, turns, server, cache>>
    BY <1>1 DEF TakeItem
  <2>2. /\ Len(queue) \in Nat /\ Len(queue') = Len(queue) - 1 /\ Head(queue) = queue[1]
        /\ \A i \in 1..Len(queue') : queue'[i] = queue[i + 1]
        /\ Len(queue) >= 1
    BY <1>0, <2>1, LenProperties, HeadTailProperties, EmptySeq DEF TypeOK
  <2>3. /\ Len(items) \in Nat /\ Len(items') = Len(items) + 1
        /\ items'[Len(items) + 1] = queue[1]
        /\ \A i \in 1..Len(items) : items'[i] = items[i]
    <3>1. Head(queue) \in Prompts
      BY <1>0, <2>1, HeadTailProperties DEF TypeOK
    <3>2. QED
      BY <1>0, <2>1, <2>2, <3>1, LenProperties, AppendProperties DEF TypeOK
  <2>4. \A i \in 1..Len(queue') : i + 1 \in 1..Len(queue) /\ i + 1 # 1
    BY <2>2
  <2>5. \A i \in 1..Len(items') : i \in 1..Len(items) \/ i = Len(items) + 1
    BY <2>3
  <2>6. 1 \in 1..Len(queue)
    BY <2>2
  <2>7. /\ \A i \in 1..Len(queue') : phase[queue'[i]] = "blocked"
        /\ \A i \in 1..Len(items') : phase[items'[i]] = "blocked"
    <3>1. ASSUME NEW i \in 1..Len(queue') PROVE phase[queue'[i]] = "blocked"
      BY <1>0, <2>2, <2>4 DEF QueueInv
    <3>2. ASSUME NEW i \in 1..Len(items') PROVE phase[items'[i]] = "blocked"
      <4>1. CASE i \in 1..Len(items)
        BY <1>0, <2>3, <4>1 DEF QueueInv
      <4>2. CASE i = Len(items) + 1
        BY <1>0, <2>3, <2>6, <4>2 DEF QueueInv
      <4>3. QED
        BY <2>5, <4>1, <4>2
    <3>3. QED
      BY <3>1, <3>2
  <2>8. ASSUME NEW i \in 1..Len(queue'), NEW j \in 1..Len(queue'), i # j
        PROVE  queue'[i] # queue'[j]
    <3>1. i + 1 # j + 1
      BY <2>8
    <3>2. QED
      BY <1>0, <2>2, <2>4, <3>1 DEF QueueInv
  <2>9. \A i \in 1..Len(queue'), j \in 1..Len(items') : queue'[i] # items'[j]
    BY <1>0, <2>2, <2>3, <2>4, <2>5, <2>6 DEF QueueInv
  <2>10. QueueInv'
    BY <2>1, <2>7, <2>8, <2>9 DEF QueueInv
  <2>11. TurnsInv'
    BY <1>0, <2>1 DEF TurnsInv
  <2>12. QED
    BY <2>1, <2>10, <2>11, QuietStickyInv
<1>2. CASE GetFirst \/ GetMore \/ Fill
  BY <1>1, <1>2 DEF GetFirst, GetMore, Fill
<1>3. CASE Empty
  <2>1. QueueInv' /\ TurnsInv'
    BY <1>0, <1>3 DEF Empty, QueueInv, TurnsInv
  <2>2. QED
    BY <1>3, <2>1, QuietStickyInv DEF Empty
<1>4. ASSUME NEW result, Finish(result) PROVE StickyInv'
  <2>1. /\ pc = "wait" /\ items' = << >>
        /\ phase' = [q \in Prompts |-> IF q \in Batch THEN result ELSE phase[q]]
        /\ UNCHANGED <<pc, round, awake, turns, server, cache, queue>>
    BY <1>4 DEF Finish
  <2>2. \A q \in Batch : phase[q] = "blocked" /\ \A i \in 1..Len(queue) : queue[i] # q
    BY <1>0 DEF Batch, QueueInv
  <2>3. \A i \in 1..Len(queue) : queue[i] \in Prompts
    BY <1>0, ElementOfSeq DEF TypeOK
  <2>4. \A i \in 1..Len(queue) : phase'[queue[i]] = "blocked"
    BY <1>0, <2>1, <2>2, <2>3 DEF QueueInv
  <2>5. QueueInv'
    BY <1>0, <2>1, <2>4, EmptySeq DEF QueueInv
  <2>6. TurnsInv'
    BY <1>0, <2>1, <2>2 DEF TurnsInv
  <2>7. QED
    BY <2>1, <2>5, <2>6, QuietStickyInv
<1>5. QED
  BY <1>2, <1>3, <1>4 DEF Executor, Compute, ComputeRaises

LEMMA ManagerStickyInv ==
  ASSUME AwakeInv, StickyInv, Manager
  PROVE  StickyInv'
<1> USE DEF chatVars, placementVars, Goto
<1>0. TypeOK /\ QueueInv /\ TurnsInv
  BY DEF AwakeInv, StickyInv
<1>1. ASSUME UNCHANGED <<round, chatVars, placementVars, execVars>>, TurnsInv'
      PROVE  StickyInv'
  <2>1. QueueInv'
    BY <1>0, <1>1, QuietQueueInv
  <2>2. QED
    BY <1>1, <2>1, QuietStickyInv
<1>2. CASE Call
  <2>1. /\ pc = "idle" /\ pc' \in {"wake_up", "failed"} /\ round' = round + 1
        /\ UNCHANGED <<phase, turns, server, cache, execVars>>
    BY <1>2 DEF Call
  <2>2. round \in Nat /\ \A q \in Prompts : phase[q] \in {"none", "done"} /\ ~(turns[q] > 0)
    BY <1>0, <2>1 DEF TypeOK, TurnsInv
  <2>3. ASSUME NEW w \in Workers PROVE Ordered(cache[w], w, round + 1)
    <3>1. \A i \in 1..Len(cache[w]) : cache[w][i].request[1] \in Nat
      <4>1. \A i \in 1..Len(cache[w]) : cache[w][i] \in Entry
        BY <1>0, ElementOfSeq DEF TypeOK
      <4>2. QED
        BY <4>1 DEF Entry
    <3>2. Ordered(cache[w], w, round)
      BY DEF StickyInv
    <3>3. \A i \in 1..Len(cache[w]) : cache[w][i].request[1] <= round + 1
      BY <2>2, <3>1, <3>2 DEF Ordered
    <3>4. QED
      BY <3>2, <3>3 DEF Ordered
  <2>4. QueueInv'
    BY <1>0, <2>1, QuietQueueInv
  <2>5. TurnsInv'
    BY <2>1, <2>2 DEF TurnsInv
  <2>6. QED
    BY <2>1, <2>2, <2>3, <2>4, <2>5 DEF StickyInv
<1>3. CASE Dispatch
  <2>1. /\ pc = "wake_up" /\ pc' = "wait" /\ phase' = [q \in Prompts |-> "ready"]
        /\ UNCHANGED <<round, turns, server, cache, queue, items>>
    BY <1>3 DEF Dispatch, execVars
  <2>2. \A q \in Prompts : phase[q] # "blocked" /\ ~(turns[q] > 0)
    BY <1>0, <2>1 DEF TurnsInv
  <2>3. /\ \A i \in 1..Len(queue) : queue[i] \in Prompts
        /\ \A i \in 1..Len(items) : items[i] \in Prompts
    BY <1>0, ElementOfSeq DEF TypeOK
  <2>4. (\A i \in 1..Len(queue) : FALSE) /\ (\A i \in 1..Len(items) : FALSE)
    BY <1>0, <2>2, <2>3 DEF QueueInv
  <2>5. QueueInv' /\ TurnsInv'
    BY <2>1, <2>2, <2>4 DEF QueueInv, TurnsInv
  <2>6. QED
    BY <2>1, <2>5, QuietStickyInv
<1>4. CASE Gathered
  BY <1>0, <1>1, <1>4 DEF Gathered, TurnsInv
<1>5. CASE Raises \/ Return \/ \E v \in Servers : WakeUp(v) \/ Sleep(v)
  BY <1>0, <1>1, <1>5 DEF Raises, Return, WakeUp, Sleep, TurnsInv
<1>6. QED
  BY <1>2, <1>3, <1>4, <1>5 DEF Manager

(* No other step counts a turn.                                            *)
LEMMA OnlyTurnsCount ==
  ASSUME TypeOK, [Next]_vars, NEW q \in Prompts, turns'[q] = turns[q] + 1
  PROVE  GenerateTurn(q)
<1>0. turns \in [Prompts -> Nat] /\ turns[q] # turns[q] + 1 /\ 0 # turns[q] + 1
  BY DEF TypeOK
<1>1. turns' # turns
  BY <1>0
<1>2. ~Manager /\ ~Executor /\ ~UNCHANGED vars
  BY <1>1 DEF Manager, Call, Dispatch, Gathered, Raises, Return, WakeUp, Sleep, Executor,
      GetFirst, GetMore, Empty, Fill, Compute, ComputeRaises, Finish, TakeItem, vars, chatVars
<1>3. PICK p \in Prompts : Conversation(p)
  BY <1>2 DEF Next
<1>4. ~Continue(p) /\ ~SubmitTask(p) /\ ~Scored(p)
  BY <1>1 DEF Continue, SubmitTask, Scored
<1>5. ~Finished(p)
  BY <1>0 DEF Finished
<1>6. GenerateTurn(p)
  BY <1>3, <1>4, <1>5 DEF Conversation
<1>7. p = q
  <2>1. turns' = [turns EXCEPT ![p] = @ + 1]
    BY <1>6 DEF GenerateTurn
  <2>2. QED
    BY <1>0, <2>1
<1>8. QED
  BY <1>6, <1>7

(* Sticky: a conversation stays on its server for all its turns, for any    *)
(* cache that holds an entry for each prompt of a worker's share. Entries   *)
(* of earlier rounds are never looked up again, but they are in the cache;  *)
(* they are the older ones, and Evict takes them first.                    *)
THEOREM SessionsStick ==
  ASSUME SharesFit
  PROVE  Spec => Sticky
<1> DEFINE Stays == \A p \in Prompts :
                      turns[p] > 0 /\ turns'[p] = turns[p] + 1 => server'[p] = server[p]
<1>1. ASSUME AwakeInv, StickyInv, [Next]_vars PROVE StickyInv' /\ Stays
  <2>1. StickyInv'
    <3>1. CASE UNCHANGED vars
      BY <1>1, <3>1 DEF vars, managerVars, chatVars, placementVars, execVars, StickyInv,
                        QueueInv, TurnsInv
    <3>2. QED
      BY <1>1, <3>1, TurnSticks, ChatStickyInv, ExecutorStickyInv, ManagerStickyInv
      DEF Next, Conversation
  <2>2. Stays
    BY <1>1, OnlyTurnsCount, TurnSticks DEF AwakeInv
  <2>3. QED
    BY <2>1, <2>2
<1>2. AwakeInv /\ StickyInv /\ [Next]_vars => StickyInv' /\ [Stays]_vars
  BY <1>1
<1>3. QED
  BY <1>2, InitStickyInv, AwakeInvariant, PTL DEF Spec, Sticky

-----------------------------------------------------------------------------
(* A call of generate_sequences goes on, or it is out of threads.           *)

(* No bound on a batch, as the loop has it, or one of whole micro-batches. *)
WholeBatches == MaxBatch % MicroBatch = 0

(* What of a call can go on: a conversation by itself, or with a thread     *)
(* that is free; the executor, with what it has or what is queued; or the  *)
(* manager, with all the answers or the first error.                       *)
CallGoesOn ==
  pc = "wait" =>
    \/ \E p \in Prompts : phase[p] \in {"ready", "generating", "scoring"}
    \/ \E p \in Prompts : /\ phase[p] = "pooled"
                          /\ Cardinality(BusyThreads(WorkerOf(p))) < Threads
    \/ exec \in {"get_nowait", "run"} \/ queue # << >>
    \/ \A p \in Prompts : phase[p] = "done"
    \/ \E p \in Prompts : phase[p] = "raised"

Blocked == {p \in Prompts : phase[p] = "blocked"}
Share(w) == {p \in Prompts : WorkerOf(p) = w}

(* The executor holds every blocked sample and waits for the rest of a      *)
(* micro-batch. The rest is there, but each worker that has one more sample *)
(* has all its threads blocked on the executor: it was dealt more samples  *)
(* than it has threads.                                                    *)
OutOfThreads ==
  /\ exec = "fill" /\ ~Even(items) /\ queue = << >> /\ Batch = Blocked
  /\ \E p \in Prompts : phase[p] = "pooled"
  /\ \A p \in Prompts :
       phase[p] = "pooled" =>
         /\ BusyThreads(WorkerOf(p)) \subseteq Blocked
         /\ Cardinality(BusyThreads(WorkerOf(p))) >= Threads
         /\ Cardinality(Share(WorkerOf(p))) > Threads

Judged == {p \in Prompts : phase[p] \in {"scoring", "done"}}
Queued == {queue[i] : i \in 1..Len(queue)}

(* Everyone who is blocked is in the executor, once.                       *)
ExecutorHoldsBlocked ==
  /\ Queued \cup Batch = Blocked /\ Queued \cap Batch = {}
  /\ \A i, j \in 1..Len(queue) : queue[i] = queue[j] => i = j
  /\ \A i, j \in 1..Len(items) : items[i] = items[j] => i = j

(* The executor only waits for more with less than whole micro-batches.    *)
BatchInv ==
  /\ exec = "get" <=> items = << >>
  /\ exec = "fill" => ~Even(items)
  /\ exec = "run" => Even(items)
  /\ exec \in {"get_nowait", "fill"} => MaxBatch \in {0, 1} \/ Len(items) < MaxBatch

(* It has judged whole micro-batches of this call, which is of whole ones. *)
JudgedInv ==
  /\ pc \in {"wake_up", "wait"} => NumPrompts % MicroBatch = 0
  /\ pc \in {"idle", "wake_up", "sleep"} => \A p \in Prompts : phase[p] \in {"none", "done"}
  /\ pc = "wait" => \A p \in Prompts : phase[p] # "none"
  /\ pc = "wait" /\ (\A p \in Prompts : phase[p] # "raised")
       => Cardinality(Judged) % MicroBatch = 0

ExecInv == TypeOK /\ ExecutorHoldsBlocked /\ BatchInv /\ JudgedInv

-----------------------------------------------------------------------------
(* Whole micro-batches, and the members of a sequence that has each once.   *)
LEMMA Multiples ==
  ASSUME NEW m \in Nat \ {0}, NEW c \in Int
  PROVE  (m * c) % m = 0
<1> DEFINE q == (m * c) \div m
           r == (m * c) % m
<1>1. m * c \in Int /\ q \in Int /\ r \in 0..(m - 1) /\ m * c = m * q + r
  OBVIOUS
<1> HIDE DEF q, r
<1>2. ~(q >= c + 1)
  <2> SUFFICES ASSUME q >= c + 1 PROVE FALSE
    OBVIOUS
  <2>1. m * q >= m * (c + 1)
    BY ONLY <1>1, m \in Nat \ {0}, c \in Int, q >= c + 1
  <2>2. m * (c + 1) = m * c + m
    OBVIOUS
  <2> QED BY <1>1, <2>1, <2>2
<1>3. ~(q <= c - 1)
  <2> SUFFICES ASSUME q <= c - 1 PROVE FALSE
    OBVIOUS
  <2>1. m * q <= m * (c - 1)
    BY ONLY <1>1, m \in Nat \ {0}, c \in Int, q <= c - 1
  <2>2. m * (c - 1) = m * c - m
    OBVIOUS
  <2> QED BY <1>1, <2>1, <2>2
<1>4. q = c
  BY <1>1, <1>2, <1>3
<1>5. r = 0
  BY <1>1, <1>4
<1> QED BY <1>5 DEF r

LEMMA WholeSums ==
  ASSUME NEW a \in Nat, NEW b \in Nat, a % MicroBatch = 0
  PROVE  (a + b) % MicroBatch = 0 <=> b % MicroBatch = 0
<1> DEFINE k == a \div MicroBatch
           l == b \div MicroBatch
           n == (a + b) \div MicroBatch
<1>1. MicroBatch \in Nat \ {0}
  BY AgentLoopAssumption
<1>2. k \in Int /\ l \in Int /\ n \in Int /\ a = MicroBatch * k
  BY <1>1
<1>3. b % MicroBatch = 0 => b = MicroBatch * l
  BY <1>1
<1>4. (a + b) % MicroBatch = 0 => a + b = MicroBatch * n
  BY <1>1
<1> HIDE DEF k, l, n
<1>5. ASSUME b % MicroBatch = 0 PROVE (a + b) % MicroBatch = 0
  <2>1. a + b = MicroBatch * (k + l) /\ k + l \in Int
    BY <1>1, <1>2, <1>3, <1>5
  <2> QED BY <1>1, <2>1, Multiples
<1>6. ASSUME (a + b) % MicroBatch = 0 PROVE b % MicroBatch = 0
  <2>1. b = MicroBatch * (n - k) /\ n - k \in Int
    BY <1>1, <1>2, <1>4, <1>6
  <2> QED BY <1>1, <2>1, Multiples
<1> QED BY <1>5, <1>6

LEMMA WholeIfBounded ==
  ASSUME WholeBatches, NEW n \in Nat, n >= 1, n = MaxBatch \/ MaxBatch = 1
  PROVE  n % MicroBatch = 0
<1>1. MicroBatch \in Nat \ {0} /\ MaxBatch \in Nat
  BY AgentLoopAssumption
<1>2. CASE n = MaxBatch
  BY <1>2 DEF WholeBatches
<1>3. CASE MaxBatch = 1
  <2>1. MicroBatch = 1
    BY <1>1, <1>3 DEF WholeBatches
  <2> QED BY <2>1
<1> QED BY <1>2, <1>3

LEMMA MembersOnce ==
  ASSUME NEW s \in Seq(Prompts), \A i, j \in 1..Len(s) : s[i] = s[j] => i = j,
         NEW S, S = {s[i] : i \in 1..Len(s)}
  PROVE  S \subseteq Prompts /\ IsFiniteSet(S) /\ Cardinality(S) = Len(s)
<1>0. Len(s) \in Nat /\ s \in [1..Len(s) -> S] /\ S \subseteq Prompts
  OBVIOUS
<1>1. s \in Surjection(1..Len(s), S) /\ s \in Injection(1..Len(s), S)
  <2>1. \A v \in S : \E i \in 1..Len(s) : s[i] = v
    OBVIOUS
  <2> QED BY <1>0, <2>1 DEF Surjection, Injection, IsInjective
<1>2. IsFiniteSet(1..Len(s)) /\ Cardinality(1..Len(s)) = Len(s)
  <2>1. Len(s) \in Nat /\ 1 \in Int /\ Len(s) \in Int /\ (1 > Len(s) => Len(s) = 0)
    BY <1>0
  <2>2. /\ IsFiniteSet(1..Len(s))
        /\ Cardinality(1..Len(s)) = IF 1 > Len(s) THEN 0 ELSE Len(s) - 1 + 1
    BY ONLY <2>1, FS_Interval
  <2> QED BY ONLY <2>1, <2>2
<1> QED BY <1>0, <1>1, <1>2, FS_Surjection

LEMMA PromptsFinite ==
  ASSUME NEW S \in SUBSET Prompts
  PROVE  IsFiniteSet(S) /\ Cardinality(S) \in Nat
<1>1. NumPrompts \in Nat
  BY AgentLoopAssumption
<1>2. IsFiniteSet(0..(NumPrompts - 1))
  BY <1>1, FS_Interval
<1>3. IsFiniteSet(S)
  BY <1>2, FS_Subset DEF Prompts
<1> QED BY <1>3, FS_CardinalityType

LEMMA PromptsSize == IsFiniteSet(Prompts) /\ Cardinality(Prompts) = NumPrompts
<1>1. NumPrompts \in Nat \ {0}
  BY AgentLoopAssumption
<1> QED BY <1>1, FS_Interval DEF Prompts

-----------------------------------------------------------------------------
(* Every step keeps the account of the executor.                           *)
LEMMA ExecInit == Init => ExecInv
<1> SUFFICES ASSUME Init PROVE ExecInv
  OBVIOUS
<1>1. TypeOK
  BY InitAwakeInv DEF AwakeInv
<1>2. queue = << >> /\ items = << >> /\ Len(queue) = 0 /\ Len(items) = 0
  BY DEF Init
<1>3. Queued = {} /\ Batch = {} /\ Blocked = {}
  BY <1>2 DEF Init, Queued, Batch, Blocked
<1> QED BY <1>1, <1>2, <1>3 DEF Init, ExecInv, ExecutorHoldsBlocked, BatchInv, JudgedInv

(* A step of a conversation that is none of the executor's business.       *)
LEMMA ChatExecInv ==
  ASSUME ExecInv, TypeOK', NEW p \in Prompts,
         GenerateTurn(p) \/ Continue(p) \/ Finished(p) \/ Scored(p)
  PROVE  ExecInv'
<1>1. PICK a, b : /\ phase[p] = a /\ phase' = [phase EXCEPT ![p] = b]
                  /\ \/ a = "ready" /\ b = "generating"
                     \/ a = "generating" /\ b \in {"ready", "pooled"}
                     \/ a = "scoring" /\ b = "done"
  BY DEF GenerateTurn, Continue, Finished, Scored, Move
<1>2. pc = "wait" /\ pc' = "wait" /\ UNCHANGED execVars
  BY DEF GenerateTurn, Continue, Finished, Scored, Move, managerVars
<1>3. phase \in [Prompts -> Phases]
  BY DEF ExecInv, TypeOK
<1>4. /\ Blocked' = Blocked /\ Judged' = Judged
      /\ \A q \in Prompts : phase'[q] = "none" => phase[q] = "none"
      /\ (\A q \in Prompts : phase'[q] # "raised") => \A q \in Prompts : phase[q] # "raised"
  BY <1>1, <1>3 DEF Blocked, Judged
<1>5. Queued' = Queued /\ Batch' = Batch
  BY <1>2 DEF execVars, Queued, Batch
<1>6. ExecutorHoldsBlocked'
  BY <1>2, <1>4, <1>5 DEF ExecInv, ExecutorHoldsBlocked, execVars
<1>7. BatchInv'
  BY <1>2 DEF ExecInv, BatchInv, execVars, Even
<1>8. JudgedInv'
  BY <1>2, <1>4 DEF ExecInv, JudgedInv
<1> QED BY <1>6, <1>7, <1>8 DEF ExecInv

LEMMA SubmitExecInv ==
  ASSUME ExecInv, TypeOK', NEW p \in Prompts, SubmitTask(p)
  PROVE  ExecInv'
<1>1. /\ pc = "wait" /\ pc' = "wait" /\ UNCHANGED <<items, exec>>
      /\ phase[p] = "pooled" /\ phase' = [phase EXCEPT ![p] = "blocked"]
      /\ queue' = Append(queue, p)
  BY DEF SubmitTask, Move, managerVars
<1>2. phase \in [Prompts -> Phases] /\ queue \in Seq(Prompts) /\ ExecutorHoldsBlocked
  BY DEF ExecInv, TypeOK
<1>3. /\ Blocked' = Blocked \cup {p} /\ p \notin Blocked /\ Judged' = Judged
      /\ \A q \in Prompts : phase'[q] = "none" => phase[q] = "none"
      /\ (\A q \in Prompts : phase'[q] # "raised") => \A q \in Prompts : phase[q] # "raised"
  BY <1>1, <1>2 DEF Blocked, Judged
<1>4. /\ Len(queue) \in Nat /\ Len(queue') = Len(queue) + 1 /\ queue'[Len(queue) + 1] = p
      /\ \A i \in 1..Len(queue) : queue'[i] = queue[i]
  BY <1>1, <1>2, AppendProperties
<1>5. \A i \in 1..Len(queue') : i \in 1..Len(queue) \/ i = Len(queue) + 1
  BY <1>4
<1>6. \A i \in 1..Len(queue) : i \in 1..Len(queue') /\ queue[i] \in Queued
  BY <1>4 DEF Queued
<1>7. Queued' = Queued \cup {p}
  <2>1. Queued' \subseteq Queued \cup {p}
    BY <1>4, <1>5, <1>6 DEF Queued
  <2>2. Queued \subseteq Queued'
    BY <1>4, <1>6 DEF Queued
  <2>3. p \in Queued'
    <3>1. Len(queue) + 1 \in 1..Len(queue')
      BY <1>4
    <3> QED BY <1>4, <3>1 DEF Queued
  <2> QED BY <2>1, <2>2, <2>3
<1>8. Batch' = Batch
  BY <1>1 DEF Batch
<1>9. p \notin Queued /\ p \notin Batch
  BY <1>2, <1>3 DEF ExecutorHoldsBlocked
<1>10. ASSUME NEW i \in 1..Len(queue'), NEW j \in 1..Len(queue'), queue'[i] = queue'[j]
       PROVE  i = j
  <2>1. i \in 1..Len(queue) /\ j \in 1..Len(queue) => queue[i] = queue[j]
    BY <1>4, <1>10
  <2>2. ~(i \in 1..Len(queue) /\ j = Len(queue) + 1)
    BY <1>4, <1>6, <1>9, <1>10
  <2>3. ~(j \in 1..Len(queue) /\ i = Len(queue) + 1)
    BY <1>4, <1>6, <1>9, <1>10
  <2> QED BY <1>2, <1>5, <2>1, <2>2, <2>3 DEF ExecutorHoldsBlocked
<1>11. ExecutorHoldsBlocked'
  BY <1>1, <1>2, <1>3, <1>7, <1>8, <1>9, <1>10 DEF ExecutorHoldsBlocked
<1>12. BatchInv'
  BY <1>1 DEF ExecInv, BatchInv, Even
<1>13. JudgedInv'
  BY <1>1, <1>3 DEF ExecInv, JudgedInv
<1> QED BY <1>11, <1>12, <1>13 DEF ExecInv

(* The executor takes what is queued first.                                *)
LEMMA TakesFirst ==
  ASSUME TypeOK, ExecutorHoldsBlocked, TakeItem
  PROVE  /\ ExecutorHoldsBlocked' /\ UNCHANGED <<pc, phase>>
         /\ Len(items) \in Nat /\ Len(items') = Len(items) + 1
<1>1. /\ queue # << >> /\ items' = Append(items, Head(queue)) /\ queue' = Tail(queue)
      /\ UNCHANGED <<pc, phase>>
  BY DEF TakeItem, managerVars, chatVars
<1>2. queue \in Seq(Prompts) /\ items \in Seq(Prompts)
  BY DEF TypeOK
<1>3. /\ Len(queue) \in Nat /\ Len(queue) >= 1 /\ Len(queue') = Len(queue) - 1
      /\ Head(queue) = queue[1] /\ Head(queue) \in Prompts
      /\ \A i \in 1..Len(queue') : queue'[i] = queue[i + 1]
  BY <1>1, <1>2, LenProperties, HeadTailProperties, EmptySeq
<1>4. /\ Len(items) \in Nat /\ Len(items') = Len(items) + 1
      /\ items'[Len(items) + 1] = queue[1]
      /\ \A i \in 1..Len(items) : items'[i] = items[i]
  BY <1>1, <1>2, <1>3, AppendProperties
<1>5. \A i \in 1..Len(queue') : i + 1 \in 1..Len(queue) /\ i + 1 # 1
  BY <1>3
<1>6. \A i \in 1..Len(queue) : i # 1 => i - 1 \in 1..Len(queue') /\ queue'[i - 1] = queue[i]
  <2> SUFFICES ASSUME NEW i \in 1..Len(queue), i # 1
               PROVE  i - 1 \in 1..Len(queue') /\ queue'[i - 1] = queue[i]
    OBVIOUS
  <2>1. i - 1 \in 1..Len(queue') /\ (i - 1) + 1 = i
    BY <1>3
  <2> QED BY <1>3, <2>1
<1>7. \A i \in 1..Len(items') : i \in 1..Len(items) \/ i = Len(items) + 1
  BY <1>4
<1>8. 1 \in 1..Len(queue) /\ Len(items) + 1 \in 1..Len(items')
      /\ \A i \in 1..Len(items) : i \in 1..Len(items')
  BY <1>3, <1>4
<1>9. queue[1] \in Queued /\ queue[1] \notin Queued'
  <2>1. \A i \in 1..Len(queue') : queue'[i] # queue[1]
    BY <1>3, <1>5, <1>8 DEF ExecutorHoldsBlocked
  <2> QED BY <1>8, <2>1 DEF Queued
<1>10. Queued = Queued' \cup {queue[1]}
  <2>1. Queued \subseteq Queued' \cup {queue[1]}
    BY <1>6 DEF Queued
  <2>2. Queued' \subseteq Queued
    BY <1>3, <1>5 DEF Queued
  <2> QED BY <1>9, <2>1, <2>2
<1>11. Batch' = Batch \cup {queue[1]}
  <2>1. Batch' \subseteq Batch \cup {queue[1]}
    BY <1>4, <1>7 DEF Batch
  <2>2. Batch \subseteq Batch'
    BY <1>4, <1>8 DEF Batch
  <2>3. queue[1] \in Batch'
    BY <1>4, <1>8 DEF Batch
  <2> QED BY <2>1, <2>2, <2>3
<1>12. Blocked' = Blocked
  BY <1>1 DEF Blocked
<1>13. ASSUME NEW i \in 1..Len(queue'), NEW j \in 1..Len(queue'), queue'[i] = queue'[j]
       PROVE  i = j
  <2>1. queue[i + 1] = queue[j + 1]
    BY <1>3, <1>13
  <2>2. i + 1 = j + 1
    BY <1>5, <2>1 DEF ExecutorHoldsBlocked
  <2> QED BY <2>2
<1>14. \A i \in 1..Len(items) : items[i] # queue[1]
  BY <1>9 DEF ExecutorHoldsBlocked, Batch
<1>15. \A i, j \in 1..Len(items') : items'[i] = items'[j] => i = j
  BY <1>4, <1>7, <1>14 DEF ExecutorHoldsBlocked
<1>16. ExecutorHoldsBlocked'
  BY <1>9, <1>10, <1>11, <1>12, <1>13, <1>15 DEF ExecutorHoldsBlocked
<1> QED BY <1>1, <1>4, <1>16

LEMMA ExecutorExecInv ==
  ASSUME ExecInv, TypeOK', WholeBatches, Executor
  PROVE  ExecInv'
<1>0. TypeOK /\ ExecutorHoldsBlocked /\ BatchInv /\ JudgedInv
  BY DEF ExecInv
<1>1. Len(items) \in Nat /\ (Len(items) = 0 <=> items = << >>)
  BY <1>0, LenProperties, EmptySeq DEF TypeOK
<1>2. ASSUME TakeItem, BatchInv' PROVE ExecInv'
  <2>1. ExecutorHoldsBlocked' /\ UNCHANGED <<pc, phase>>
    BY <1>0, <1>2, TakesFirst
  <2>2. JudgedInv'
    BY <1>0, <2>1 DEF JudgedInv, Judged
  <2> QED BY <1>2, <2>1, <2>2 DEF ExecInv
<1>3. ASSUME TakeItem
      PROVE  /\ Len(items') = Len(items) + 1 /\ items' # << >>
             /\ ~Full(items') => MaxBatch \in {0, 1} \/ Len(items') < MaxBatch
             /\ Full(items') /\ (MaxBatch \in {0, 1} \/ Len(items) < MaxBatch) => Even(items')
  <2>1. Len(items') = Len(items) + 1
    BY <1>0, <1>3, TakesFirst
  <2>2. MaxBatch \in Nat
    BY AgentLoopAssumption
  <2>3. items' # << >>
    BY <1>1, <2>1
  <2>4. ~Full(items') => MaxBatch \in {0, 1} \/ Len(items') < MaxBatch
    BY <1>1, <2>1, <2>2 DEF Full
  <2>5. ASSUME Full(items'), MaxBatch \in {0, 1} \/ Len(items) < MaxBatch
        PROVE  Even(items')
    <3>1. Len(items') \in Nat /\ Len(items') >= 1 /\ (Len(items') = MaxBatch \/ MaxBatch = 1)
      BY <1>1, <2>1, <2>2, <2>5 DEF Full
    <3> QED BY <3>1, WholeIfBounded DEF Even
  <2> QED BY <2>1, <2>3, <2>4, <2>5
<1>4. CASE GetFirst
  <2>1. TakeItem /\ exec = "get" /\ exec' = "get_nowait"
    BY <1>4 DEF GetFirst
  <2>2. Len(items') = 1 /\ items' # << >>
    BY <1>0, <1>1, <1>3, <2>1 DEF BatchInv
  <2>3. MaxBatch \in Nat
    BY AgentLoopAssumption
  <2>4. BatchInv'
    BY <2>1, <2>2, <2>3 DEF BatchInv
  <2> QED BY <1>2, <2>1, <2>4
<1>5. CASE GetMore
  <2>1. /\ TakeItem /\ exec = "get_nowait"
        /\ exec' = IF Full(items') THEN "run" ELSE "get_nowait"
    BY <1>5 DEF GetMore
  <2>2. MaxBatch \in {0, 1} \/ Len(items) < MaxBatch
    BY <1>0, <2>1 DEF BatchInv
  <2>3. BatchInv'
    BY <1>3, <2>1, <2>2 DEF BatchInv
  <2> QED BY <1>2, <2>1, <2>3
<1>6. CASE Fill
  <2>1. /\ TakeItem /\ exec = "fill"
        /\ exec' = IF Full(items') \/ Even(items') THEN "run" ELSE "fill"
    BY <1>6 DEF Fill
  <2>2. MaxBatch \in {0, 1} \/ Len(items) < MaxBatch
    BY <1>0, <2>1 DEF BatchInv
  <2>3. BatchInv'
    BY <1>3, <2>1, <2>2 DEF BatchInv
  <2> QED BY <1>2, <2>1, <2>3
<1>7. CASE Empty
  <2>1. /\ exec = "get_nowait" /\ exec' = IF Even(items) THEN "run" ELSE "fill"
        /\ UNCHANGED <<pc, phase, queue, items>>
    BY <1>7 DEF Empty, managerVars, chatVars
  <2>2. BatchInv'
    BY <1>0, <2>1 DEF BatchInv, Even
  <2>3. ExecutorHoldsBlocked'
    <3>1. Queued' = Queued /\ Batch' = Batch /\ Blocked' = Blocked
      BY <2>1 DEF Queued, Batch, Blocked
    <3> QED BY <1>0, <2>1, <3>1 DEF ExecutorHoldsBlocked
  <2>4. JudgedInv'
    BY <1>0, <2>1 DEF JudgedInv, Judged
  <2> QED BY <2>2, <2>3, <2>4 DEF ExecInv
<1>8. ASSUME NEW result \in {"scoring", "raised"}, Finish(result) PROVE ExecInv'
  <2>1. /\ pc = "wait" /\ exec = "run" /\ items' = << >> /\ exec' = "get"
        /\ phase' = [p \in Prompts |-> IF p \in Batch THEN result ELSE phase[p]]
        /\ UNCHANGED <<pc, queue>>
    BY <1>8 DEF Finish, managerVars
  <2>2. phase \in [Prompts -> Phases]
    BY <1>0 DEF TypeOK
  <2>3. Even(items) /\ items # << >>
    BY <1>0, <2>1 DEF BatchInv
  <2>4. Batch \subseteq Prompts /\ IsFiniteSet(Batch) /\ Cardinality(Batch) = Len(items)
    BY <1>0, MembersOnce DEF TypeOK, ExecutorHoldsBlocked, Batch
  <2>5. Batch \subseteq Blocked /\ Batch \cap Judged = {}
    BY <1>0 DEF ExecutorHoldsBlocked, Blocked, Judged
  <2>6. Len(items') = 0
    BY <2>1
  <2>7. Queued' = Queued /\ Batch' = {}
    BY <2>1, <2>6 DEF Queued, Batch
  <2>8. Blocked' = Blocked \ Batch
    BY <2>1, <2>2, <2>5 DEF Blocked
  <2>9. ExecutorHoldsBlocked'
    BY <1>0, <2>1, <2>6, <2>7, <2>8 DEF ExecutorHoldsBlocked
  <2>10. BatchInv'
    BY <2>1 DEF BatchInv
  <2>11. JudgedInv'
    <3>1. \A p \in Prompts : phase'[p] = "none" => phase[p] = "none"
      BY <1>8, <2>1
    <3>2. CASE result = "raised"
      <4>1. PICK p \in Prompts : p \in Batch
        <5>1. 1 \in 1..Len(items)
          BY <1>1, <2>3
        <5> QED BY <2>4, <5>1 DEF Batch
      <4>2. phase'[p] = "raised"
        BY <2>1, <3>2, <4>1
      <4> QED BY <1>0, <2>1, <3>1, <4>2 DEF JudgedInv
    <3>3. CASE result = "scoring"
      <4>1. Judged' = Judged \cup Batch
        BY <2>1, <2>4, <3>3 DEF Judged
      <4>2. \A p \in Prompts : p \notin Batch => phase'[p] = phase[p]
        BY <2>1
      <4>3. (\A p \in Prompts : phase'[p] # "raised") => \A p \in Prompts : phase[p] # "raised"
        BY <2>5, <4>2 DEF Blocked
      <4>4. IsFiniteSet(Judged) /\ Cardinality(Judged) \in Nat
        BY PromptsFinite DEF Judged
      <4>5. Cardinality(Judged') = Cardinality(Judged) + Len(items)
        <5>1. Cardinality(Judged') = Cardinality(Judged) + Cardinality(Batch) - Cardinality({})
          BY <2>4, <2>5, <4>1, <4>4, FS_Union
        <5> QED BY <1>1, <2>4, <4>4, <5>1, FS_EmptySet
      <4>6. Cardinality(Judged) % MicroBatch = 0 => Cardinality(Judged') % MicroBatch = 0
        BY <1>1, <2>3, <4>4, <4>5, WholeSums DEF Even
      <4> QED BY <1>0, <2>1, <3>1, <4>3, <4>6 DEF JudgedInv
    <3> QED BY <1>8, <3>2, <3>3
  <2> QED BY <2>9, <2>10, <2>11 DEF ExecInv
<1> QED BY <1>4, <1>5, <1>6, <1>7, <1>8 DEF Executor, Compute, ComputeRaises

LEMMA ManagerExecInv ==
  ASSUME ExecInv, TypeOK', Manager
  PROVE  ExecInv'
<1>0. TypeOK /\ ExecutorHoldsBlocked /\ BatchInv /\ JudgedInv
  BY DEF ExecInv
<1>1. UNCHANGED execVars
  BY DEF Manager, Call, Dispatch, Gathered, Raises, Return, WakeUp, Sleep
<1>2. BatchInv' /\ Queued' = Queued /\ Batch' = Batch
  BY <1>0, <1>1 DEF execVars, BatchInv, Even, Queued, Batch
<1>3. ASSUME UNCHANGED phase, JudgedInv' PROVE ExecInv'
  <2>1. ExecutorHoldsBlocked'
    BY <1>0, <1>1, <1>2, <1>3 DEF ExecutorHoldsBlocked, Blocked, execVars
  <2> QED BY <1>2, <1>3, <2>1 DEF ExecInv
<1>4. CASE Call
  BY <1>0, <1>3, <1>4 DEF Call, Goto, chatVars, JudgedInv
<1>5. CASE \E v \in Servers : WakeUp(v) \/ Sleep(v)
  BY <1>0, <1>3, <1>5 DEF WakeUp, Sleep, chatVars, JudgedInv
<1>6. CASE Gathered \/ Raises \/ Return
  BY <1>0, <1>3, <1>6 DEF Gathered, Raises, Return, Goto, chatVars, JudgedInv
<1>7. CASE Dispatch
  <2>1. /\ pc = "wake_up" /\ pc' = "wait" /\ phase' = [p \in Prompts |-> "ready"]
    BY <1>7 DEF Dispatch, Goto
  <2>2. Blocked = {} /\ Blocked' = {} /\ Judged' = {}
    BY <1>0, <2>1 DEF JudgedInv, Blocked, Judged
  <2>3. ExecutorHoldsBlocked'
    BY <1>0, <1>1, <1>2, <2>2 DEF ExecutorHoldsBlocked, execVars
  <2>4. Cardinality(Judged') % MicroBatch = 0
    <3>1. Cardinality({}) = 0 /\ 0 % MicroBatch = 0
      BY FS_EmptySet, AgentLoopAssumption
    <3> QED BY <2>2, <3>1
  <2>5. JudgedInv'
    BY <1>0, <2>1, <2>4 DEF JudgedInv
  <2> QED BY <1>2, <2>3, <2>5 DEF ExecInv
<1> QED BY <1>4, <1>5, <1>6, <1>7 DEF Manager

(* Where nothing can go on, the executor holds what is left of the call, but *)
(* for what is pooled; and the call is of whole micro-batches.             *)
LEMMA OnlyThreadsAreMissing ==
  ASSUME ExecInv
  PROVE  CallGoesOn \/ OutOfThreads
<1>0. TypeOK /\ ExecutorHoldsBlocked /\ BatchInv /\ JudgedInv
  BY DEF ExecInv
<1> SUFFICES ASSUME pc = "wait",
                    \A p \in Prompts : phase[p] \notin {"ready", "generating", "scoring", "raised"},
                    exec \notin {"get_nowait", "run"}, queue = << >>,
                    \A p \in Prompts : phase[p] = "pooled" =>
                      ~(Cardinality(BusyThreads(WorkerOf(p))) < Threads)
             PROVE  (\A p \in Prompts : phase[p] = "done") \/ OutOfThreads
  BY DEF CallGoesOn
<1>1. \A p \in Prompts : phase[p] \in {"pooled", "blocked", "done"}
  BY <1>0 DEF TypeOK, Phases, JudgedInv
<1>a. exec \in {"get", "fill"} /\ Len(queue) = 0 /\ Threads \in Nat \ {0}
  BY <1>0, AgentLoopAssumption DEF TypeOK
<1>b. Batch = Blocked
  <2>1. Queued = {}
    BY <1>a DEF Queued
  <2> QED BY <1>0, <2>1 DEF ExecutorHoldsBlocked
<1>c. \A w \in Workers : BusyThreads(w) \subseteq Blocked
  BY DEF BusyThreads, Blocked
<1>2. CASE \E p \in Prompts : phase[p] = "pooled"
  <2>1. ASSUME NEW p \in Prompts, phase[p] = "pooled"
        PROVE  /\ BusyThreads(WorkerOf(p)) \subseteq Blocked
               /\ Cardinality(BusyThreads(WorkerOf(p))) >= Threads
               /\ Cardinality(Share(WorkerOf(p))) > Threads
    <3> DEFINE w == WorkerOf(p)
    <3>1. w \in Workers
      BY WorkerOfType
    <3>2. IsFiniteSet(Share(w)) /\ Cardinality(Share(w)) \in Nat
      BY PromptsFinite DEF Share
    <3>3. BusyThreads(w) \subseteq Share(w) /\ p \in Share(w) /\ p \notin BusyThreads(w)
      BY <2>1 DEF BusyThreads, Share
    <3>4. ~(Cardinality(BusyThreads(w)) < Threads) /\ BusyThreads(w) \subseteq Blocked
      BY <1>c, <2>1, <3>1
    <3> HIDE DEF w
    <3>5. /\ Cardinality(BusyThreads(w)) <= Cardinality(Share(w))
          /\ Cardinality(Share(w)) = Cardinality(BusyThreads(w)) => Share(w) = BusyThreads(w)
      BY <3>2, <3>3, FS_Subset
    <3>6. Cardinality(BusyThreads(w)) \in Nat
      BY <3>2, <3>3, FS_Subset, FS_CardinalityType
    <3>7. Cardinality(BusyThreads(w)) < Cardinality(Share(w))
      BY <3>2, <3>3, <3>5, <3>6
    <3>8. Cardinality(BusyThreads(w)) >= Threads /\ Cardinality(Share(w)) > Threads
      BY <1>a, <3>2, <3>4, <3>6, <3>7
    <3> QED BY <3>4, <3>8 DEF w
  <2>2. exec = "fill"
    <3>1. SUFFICES ASSUME exec = "get" PROVE FALSE
      BY <1>a
    <3>2. Len(items) = 0
      BY <1>0, <3>1 DEF BatchInv
    <3>3. Blocked = {}
      BY <1>b, <3>2 DEF Batch
    <3>4. PICK p \in Prompts : phase[p] = "pooled"
      BY <1>2
    <3>5. BusyThreads(WorkerOf(p)) = {} /\ Cardinality({}) = 0
      BY <2>1, <3>3, <3>4, FS_EmptySet
    <3>6. Cardinality(BusyThreads(WorkerOf(p))) >= Threads
      BY <2>1, <3>4
    <3> QED BY <1>a, <3>5, <3>6
  <2>3. ~Even(items)
    BY <1>0, <2>2 DEF BatchInv
  <2> QED BY <1>2, <1>b, <2>1, <2>2, <2>3 DEF OutOfThreads
<1>3. CASE \A p \in Prompts : phase[p] # "pooled"
  <2>2. Batch = Blocked
    BY <1>b
  <2>3. CASE exec = "get"
    <3>1. Len(items) = 0
      BY <1>0, <2>3 DEF BatchInv
    <3>2. Blocked = {}
      BY <2>2, <3>1 DEF Batch
    <3> QED BY <1>1, <1>3, <3>2 DEF Blocked
  <2>4. CASE exec = "fill"
    <3>1. Prompts = Judged \cup Batch /\ Judged \cap Batch = {}
      BY <1>1, <1>3, <2>2 DEF Judged, Blocked
    <3>2. /\ IsFiniteSet(Judged) /\ Cardinality(Judged) \in Nat
          /\ IsFiniteSet(Batch) /\ Cardinality(Batch) = Len(items) /\ Len(items) \in Nat
      <4>1. IsFiniteSet(Judged) /\ Cardinality(Judged) \in Nat
        BY PromptsFinite DEF Judged
      <4>2. IsFiniteSet(Batch) /\ Cardinality(Batch) = Len(items)
        BY <1>0, MembersOnce DEF TypeOK, ExecutorHoldsBlocked, Batch
      <4>3. Len(items) \in Nat
        BY <1>0, LenProperties DEF TypeOK
      <4> QED BY <4>1, <4>2, <4>3
    <3>3. NumPrompts = Cardinality(Judged) + Len(items)
      <4>1. Cardinality(Prompts) = Cardinality(Judged) + Cardinality(Batch) - Cardinality({})
        BY ONLY <3>1, <3>2, FS_Union
      <4> QED BY <3>2, <4>1, PromptsSize, FS_EmptySet
    <3>4. Cardinality(Judged) % MicroBatch = 0 /\ NumPrompts % MicroBatch = 0
      BY <1>0 DEF JudgedInv
    <3>5. Even(items)
      BY <3>2, <3>3, <3>4, WholeSums DEF Even
    <3> QED BY <1>0, <2>4, <3>5 DEF BatchInv
  <2> QED BY <1>a, <2>3, <2>4
<1> QED BY <1>2, <1>3

(* The servers, the threads and the executor only ever come to wait for     *)
(* each other in one way, whatever the threads of a reward worker and the  *)
(* samples it is dealt: OutOfThreads, which the run agent_loop_threads      *)
(* meets.                                                                  *)
THEOREM StuckOnlyForThreads ==
  ASSUME WholeBatches
  PROVE  Spec => [](CallGoesOn \/ OutOfThreads)
<1>1. ASSUME ExecInv, TypeOK', [Next]_vars PROVE ExecInv'
  <2>1. CASE UNCHANGED vars
    <3>1. UNCHANGED <<pc, phase, queue, items, exec>>
      BY <2>1 DEF vars, managerVars, chatVars, execVars
    <3>2. Queued' = Queued /\ Batch' = Batch /\ Blocked' = Blocked /\ Judged' = Judged
      BY <3>1 DEF Queued, Batch, Blocked, Judged
    <3>3. ExecutorHoldsBlocked'
      BY <1>1, <3>1, <3>2 DEF ExecInv, ExecutorHoldsBlocked
    <3>4. BatchInv'
      BY <1>1, <3>1 DEF ExecInv, BatchInv, Even
    <3>5. JudgedInv'
      BY <1>1, <3>1, <3>2 DEF ExecInv, JudgedInv
    <3> QED BY <1>1, <3>3, <3>4, <3>5 DEF ExecInv
  <2> QED BY <1>1, <2>1, ChatExecInv, SubmitExecInv, ExecutorExecInv, ManagerExecInv
          DEF Next, Conversation
<1>2. ExecInv => CallGoesOn \/ OutOfThreads
  BY OnlyThreadsAreMissing
<1> QED BY <1>1, <1>2, ExecInit, TypeCorrect, PTL DEF Spec
=============================================================================
