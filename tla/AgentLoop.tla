------------------------------- MODULE AgentLoop -------------------------------
(***************************************************************************)
(* Generating a batch with agent loops: AgentLoopManager.generate_sequences*)
(* wakes the inference servers, splits the prompts over the workers and    *)
(* waits; every prompt is a conversation of its own, whose turns its       *)
(* worker's AsyncLLMServerManager places on a server; a finished           *)
(* conversation is scored by a thread of the worker's RewardManagerWorker, *)
(* which blocks on the BatchExecutor in front of the reward model; then    *)
(* the servers sleep again.                                                *)
(***************************************************************************)
EXTENDS Integers, FiniteSets, SequencesExt

CONSTANTS
  NumPrompts,   \* len(prompts)
  NumWorkers,   \* rollout.agent.num_workers
  Servers,      \* the inference servers
  MaxTurns,     \* BOUND: generations in one conversation
  CacheSize,    \* max_cache_size of the server manager
  Threads,      \* threads of a reward worker's default executor
  MicroBatch,   \* rm_wg.world_size
  MaxBatch,     \* max_batch_size of the executor, 0 for None
  RmMayFail,    \* compute_rm_score may raise
  MaxRounds     \* BOUND: calls of generate_sequences

Prompts == 0..(NumPrompts - 1)
Workers == 0..(NumWorkers - 1)

(* DataProto.chunk: equal shares, in order. *)
WorkerOf(p) == p \div (NumPrompts \div NumWorkers)

NoServer == "none"   \* no turn yet

ASSUME AgentLoopAssumption ==
  /\ NumPrompts \in Nat \ {0} /\ NumWorkers \in Nat \ {0}
  /\ NumPrompts % NumWorkers = 0
  /\ Servers # {} /\ IsFiniteSet(Servers) /\ NoServer \notin Servers
  /\ MaxTurns \in Nat \ {0} /\ CacheSize \in Nat \ {0}
  /\ Threads \in Nat \ {0} /\ MicroBatch \in Nat \ {0}
  /\ MaxBatch \in Nat /\ RmMayFail \in BOOLEAN /\ MaxRounds \in Nat

VARIABLES
  pc,       \* where the manager is in generate_sequences
  round,    \* how often it was called
  awake,    \* the servers that are not asleep
  phase,    \* where each prompt's conversation is
  turns,    \* generations it has had
  server,   \* the server its last turn was sent to
  load,     \* weighted_serveres of each worker
  cache,    \* request_id_to_server of each worker, the latest use last
  queue,    \* the executor's queue
  items,    \* what its worker thread has taken from it
  exec      \* where that thread is

managerVars == <<pc, round, awake>>
chatVars == <<phase, turns, server>>
placementVars == <<load, cache>>
execVars == <<queue, items, exec>>
vars == <<managerVars, chatVars, placementVars, execVars>>

Phases == {"none", "ready", "generating", "pooled", "blocked", "scoring",
           "raised", "done"}

Goto(from, to) == pc = from /\ pc' = to

Init ==
  /\ pc = "idle"
  /\ round = 0
  /\ awake = {}
  /\ phase = [p \in Prompts |-> "none"]
  /\ turns = [p \in Prompts |-> 0]
  /\ server = [p \in Prompts |-> NoServer]
  /\ load = [w \in Workers |-> [v \in Servers |-> 0]]
  /\ cache = [w \in Workers |-> << >>]
  /\ queue = << >> /\ items = << >>
  /\ exec = "get"

-----------------------------------------------------------------------------
(* AgentLoopManager.generate_sequences *)

Call ==
  /\ round < MaxRounds
  /\ Goto("idle", IF NumPrompts % MicroBatch = 0 THEN "wake_up" ELSE "failed")
  /\ round' = round + 1
  /\ UNCHANGED <<awake, chatVars, placementVars, execVars>>

WakeUp(v) ==
  /\ pc = "wake_up"
  /\ v \notin awake
  /\ awake' = awake \cup {v}
  /\ UNCHANGED <<pc, round, chatVars, placementVars, execVars>>

(* Mutant of Dispatch: the first server that is awake will do.             *)
DispatchEarly ==
  /\ awake # {}
  /\ Goto("wake_up", "wait")
  /\ phase' = [p \in Prompts |-> "ready"]
  /\ UNCHANGED <<round, awake, turns, server, placementVars, execVars>>

(* Every replica has answered; the workers start a task for each prompt.   *)
Dispatch ==
  /\ awake = Servers
  /\ Goto("wake_up", "wait")
  /\ phase' = [p \in Prompts |-> "ready"]
  /\ UNCHANGED <<round, awake, turns, server, placementVars, execVars>>

Gathered ==
  /\ \A p \in Prompts : phase[p] = "done"
  /\ Goto("wait", "sleep")
  /\ UNCHANGED <<round, awake, chatVars, placementVars, execVars>>

(* asyncio.gather passes on the first exception, and the driver dies of it; *)
(* the servers are left awake.                                             *)
Raises ==
  /\ \E p \in Prompts : phase[p] = "raised"
  /\ Goto("wait", "failed")
  /\ UNCHANGED <<round, awake, chatVars, placementVars, execVars>>

Sleep(v) ==
  /\ pc = "sleep"
  /\ v \in awake
  /\ awake' = awake \ {v}
  /\ UNCHANGED <<pc, round, chatVars, placementVars, execVars>>

Return ==
  /\ awake = {}
  /\ Goto("sleep", "idle")
  /\ UNCHANGED <<round, awake, chatVars, placementVars, execVars>>

-----------------------------------------------------------------------------
(* AsyncLLMServerManager._choose_server *)

(* A conversation draws a request id of its own in every round.            *)
Request(p) == <<round, p>>

Entries(w) == {cache[w][i] : i \in 1..Len(cache[w])}
Known(w, p) == \E e \in Entries(w) : e.request = Request(p)

(* The root of the heap: which of the least used servers is a matter of    *)
(* their hashes.                                                           *)
AnyRoot(w) == Servers   \* mutant: the heap is not kept in order
Root(w) == {v \in Servers : \A u \in Servers : load[w][v] <= load[w][u]}

(* Mutant of Evict: the latest use goes.                                   *)
EvictLatest(c) == IF Len(c) < CacheSize THEN c ELSE SubSeq(c, 1, Len(c) - 1)

(* The least recently used entry makes room. *)
Evict(c) == IF Len(c) < CacheSize THEN c ELSE Tail(c)

(* A lookup makes the entry the latest use. *)
SendToKnown(w, p) ==
  \E i \in 1..Len(cache[w]) :
    /\ cache[w][i].request = Request(p)
    /\ server' = [server EXCEPT ![p] = cache[w][i].server]
    /\ cache' = [cache EXCEPT ![w] = Append(RemoveAt(@, i), @[i])]
    /\ UNCHANGED load

SendToRoot(w, p) ==
  /\ ~Known(w, p)
  /\ \E v \in Root(w) :
       /\ server' = [server EXCEPT ![p] = v]
       /\ load' = [load EXCEPT ![w][v] = @ + 1]
       /\ cache' = [cache EXCEPT ![w] =
                      Append(Evict(@), [request |-> Request(p), server |-> v])]

-----------------------------------------------------------------------------
(* One conversation: AgentLoopWorker._run_agent_loop *)

Move(p, from, to) ==
  /\ pc = "wait"
  /\ phase[p] = from
  /\ phase' = [phase EXCEPT ![p] = to]

GenerateTurn(p) ==
  /\ Move(p, "ready", "generating")
  /\ SendToKnown(WorkerOf(p), p) \/ SendToRoot(WorkerOf(p), p)
  /\ turns' = [turns EXCEPT ![p] = @ + 1]
  /\ UNCHANGED <<managerVars, execVars>>

(* The answer calls a tool or a user, and the next turn follows; or it is   *)
(* the last one, what the conversation kept is gone, and compute_score      *)
(* queues up for a thread.                                                 *)
Continue(p) ==
  /\ turns[p] < MaxTurns
  /\ Move(p, "generating", "ready")
  /\ UNCHANGED <<managerVars, turns, server, placementVars, execVars>>

Finished(p) ==
  /\ Move(p, "generating", "pooled")
  /\ turns' = [turns EXCEPT ![p] = 0]
  /\ server' = [server EXCEPT ![p] = NoServer]
  /\ UNCHANGED <<managerVars, placementVars, execVars>>

BusyThreads(w) ==
  {p \in Prompts : WorkerOf(p) = w /\ phase[p] \in {"blocked", "scoring"}}

(* reward_wrapper in a thread: it blocks on submit_task. *)
SubmitTask(p) ==
  /\ Cardinality(BusyThreads(WorkerOf(p))) < Threads
  /\ Move(p, "pooled", "blocked")
  /\ queue' = Append(queue, p)
  /\ UNCHANGED <<managerVars, turns, server, placementVars, items, exec>>

(* The reward manager has the model's score; the thread is free again.     *)
Scored(p) ==
  /\ Move(p, "scoring", "done")
  /\ UNCHANGED <<managerVars, turns, server, placementVars, execVars>>

Conversation(p) ==
  GenerateTurn(p) \/ Continue(p) \/ Finished(p) \/ SubmitTask(p) \/ Scored(p)

-----------------------------------------------------------------------------
(* BatchExecutor._worker_loop *)

Full(batch) == MaxBatch > 0 /\ Len(batch) >= MaxBatch
Even(batch) == Len(batch) % MicroBatch = 0

TakeItem ==
  /\ pc = "wait"
  /\ queue # << >>
  /\ items' = Append(items, Head(queue))
  /\ queue' = Tail(queue)
  /\ UNCHANGED <<managerVars, chatVars, placementVars>>

(* Block until there is one, take what else there is, and then block again *)
(* for what is missing to a whole number of micro batches.                 *)
GetFirst ==
  /\ exec = "get"
  /\ TakeItem
  /\ exec' = "get_nowait"

GetMore ==
  /\ exec = "get_nowait"
  /\ TakeItem
  /\ exec' = IF Full(items') THEN "run" ELSE "get_nowait"

Empty ==
  /\ pc = "wait"
  /\ exec = "get_nowait" /\ queue = << >>
  /\ exec' = IF Even(items) THEN "run" ELSE "fill"
  /\ UNCHANGED <<managerVars, chatVars, placementVars, queue, items>>

Fill ==
  /\ exec = "fill"
  /\ TakeItem
  /\ exec' = IF Full(items') \/ Even(items') THEN "run" ELSE "fill"

Batch == {items[i] : i \in 1..Len(items)}

Finish(result) ==
  /\ pc = "wait"
  /\ exec = "run"
  /\ phase' = [p \in Prompts |-> IF p \in Batch THEN result ELSE phase[p]]
  /\ items' = << >>
  /\ exec' = "get"
  /\ UNCHANGED <<managerVars, turns, server, placementVars, queue>>

(* Mutant of Compute: a result for one micro batch, zipped with strict=False. *)
ComputeShort ==
  /\ pc = "wait"
  /\ exec = "run"
  /\ phase' = [p \in Prompts |->
                 IF \E i \in 1..MicroBatch : items[i] = p THEN "scoring" ELSE phase[p]]
  /\ items' = << >>
  /\ exec' = "get"
  /\ UNCHANGED <<managerVars, turns, server, placementVars, queue>>

Compute == Finish("scoring")
ComputeRaises == RmMayFail /\ Finish("raised")

Executor ==
  GetFirst \/ GetMore \/ Empty \/ Fill \/ Compute \/ ComputeRaises

-----------------------------------------------------------------------------
Manager ==
  \/ Call \/ Dispatch \/ Gathered \/ Raises \/ Return
  \/ \E v \in Servers : WakeUp(v) \/ Sleep(v)

Next == Manager \/ Executor \/ \E p \in Prompts : Conversation(p)

Spec == Init /\ [][Next]_vars

(* Servers answer, threads and tasks that can run do, and the executor's   *)
(* thread and the manager go on.                                           *)
Fairness ==
  /\ WF_vars(Manager)
  /\ WF_vars(Executor)
  /\ \A p \in Prompts : WF_vars(Conversation(p))

FairSpec == Spec /\ Fairness

-----------------------------------------------------------------------------
(* Properties *)

Entry == [request : Nat \X Prompts, server : Servers]

(* The variables keep their types. *)
TypeOK ==
  /\ pc \in {"idle", "wake_up", "wait", "sleep", "failed"}
  /\ round \in Nat
  /\ awake \subseteq Servers
  /\ phase \in [Prompts -> Phases]
  /\ turns \in [Prompts -> Nat]
  /\ server \in [Prompts -> Servers \cup {NoServer}]
  /\ load \in [Workers -> [Servers -> Nat]]
  /\ cache \in [Workers -> Seq(Entry)]
  /\ queue \in Seq(Prompts) /\ items \in Seq(Prompts)
  /\ exec \in {"get", "get_nowait", "fill", "run"}

(* "Least requests load balancing", agent_loop.py: no server of a worker    *)
(* ever has two conversations more than another.                            *)
Balanced ==
  \A w \in Workers : \A u, v \in Servers : load[w][u] - load[w][v] <= 1

(* "Sticky session: send multi-turn chat completions to same server",       *)
(* agent_loop.py: other conversations never push this one out of the cache. *)
Sticky ==
  [][\A p \in Prompts :
       turns[p] > 0 /\ turns'[p] = turns[p] + 1 => server'[p] = server[p]]_vars

(* No server is asked for tokens while it sleeps, and none is put to sleep  *)
(* with a conversation on it.                                               *)
GeneratesAwake ==
  \A p \in Prompts : phase[p] = "generating" => server[p] \in awake

(* The servers, the threads and the executor never wait on each other for   *)
(* good: a call of generate_sequences returns or raises.                    *)
Answers == pc = "wake_up" ~> pc \in {"idle", "failed"}
=============================================================================
