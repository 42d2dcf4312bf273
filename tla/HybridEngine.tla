----------------------------- MODULE HybridEngine -----------------------------
(***************************************************************************)
(* The hybrid engine of a worker (ActorRolloutRefWorker): every rank of a  *)
(* replica holds a shard of the actor and a part of the rollout engine,    *)
(* and the two share the GPU, the process and its random stream.           *)
(* rollout_mode gathers the actor's weights, hands them to the engine and  *)
(* makes room for its KV cache; trainer_mode puts the engine to sleep.     *)
(* Around them, the calls of the driver: load_checkpoint, generation,      *)
(* compute_log_prob, compute_ref_log_prob, update_actor, save_checkpoint.  *)
(***************************************************************************)
EXTENDS Integers, FiniteSets

CONSTANTS
  Ranks,      \* the workers of one replica: a tensor-parallel group
  Settings,   \* the configurations a job may have, see Setting
  MaxSteps    \* BOUND: training steps

Setting == [async: BOOLEAN,     \* rollout.mode = "async": agent loops and servers
            free: BOOLEAN,      \* rollout.free_cache_engine
            lora: BOOLEAN,      \* model.lora_rank > 0
            level: {1, 2},      \* sleep_level: 2 discards the engine's weights
            offload: BOOLEAN,   \* fsdp_config.param_offload, optimizer_offload
            resume: BOOLEAN]    \* the driver finds a checkpoint

(* docs/advance/ppo_lora.rst requires load_format=safetensors with LoRA;   *)
(* the engine then starts from the base model, otherwise from random data. *)
ASSUME HybridAssumption ==
  /\ Ranks # {} /\ IsFiniteSet(Ranks)
  /\ Settings \subseteq Setting
  /\ MaxSteps \in Nat \ {0}

Dummy == -1      \* weights no actor ever had
Discarded == -2  \* what a sleep of level 2 leaves
Base == 0        \* the base model, the actor's policy before the first update
Restored == 1    \* the policy of the checkpoint
Policies == 0..(MaxSteps + 1)

VARIABLES
  cfg,        \* the job's configuration
  call,       \* the call the driver has made, "fit" between two
  next,       \* the call it makes next
  step,       \* updates made since the start
  pc,         \* where each rank is in that call
  actor,      \* the policy of each rank's shard of the actor
  onGpu,      \* which of the actor's parameters and optimizer states are there
  resident,   \* which of the engine's weights and KV cache are there
  weights,    \* the policy of the engine's weights (with LoRA the base model's)
  adapter,    \* with LoRA, the policy of the engine's adapter
  prefix,     \* the policies whose KV blocks the engine's prefix cache holds
  synced,     \* base_sync_done
  current,    \* the random stream of the process: whose numbers come next
  trainRng,   \* torch_random_states
  genRng,     \* gen_random_states
  drawn,      \* how many numbers training and generation have used
  batch       \* the policies that sampled and that scored the batch

modelVars == <<actor, onGpu>>
engineVars == <<resident, weights, adapter, synced>>
rngVars == <<current, trainRng, genRng, drawn>>
driverVars == <<cfg, call, next, step>>
vars == <<driverVars, pc, modelVars, engineVars, prefix, rngVars, batch>>

Trained == {"params", "optim"}
Engine == {"weights", "kv"}
Calls == {"load", "generate", "log_prob", "ref", "update", "save"}
Pcs == {"ready", "gather", "offload", "resume", "base", "weights", "kv", "rollout",
        "release", "sleep", "compute", "unload", "done"}

Stream(owner, n) == [owner |-> owner, at |-> n]
Streams == [owner: {"train", "gen"}, at: Nat]
Draw(stream) == Stream(stream.owner, stream.at + 1)

(* What a rank's engine samples with: with LoRA the adapter on the base    *)
(* model, but a server sends its requests without naming an adapter.       *)
Sampling(r) ==
  CASE ~cfg.lora -> weights[r]
    [] cfg.lora /\ cfg.async -> weights[r]
    [] OTHER -> IF weights[r] = Base THEN adapter[r] ELSE Discarded

(* In server mode without free_cache_engine no rank ever leaves rollout    *)
(* mode, and none enters it again.                                         *)
Switches == cfg.free \/ ~cfg.async

(* _build_rollout leaves the engine awake and the stream it seeded aside;  *)
(* trainer_mode follows at once, or when AgentLoopManager calls sleep.     *)
Init ==
  /\ cfg \in Settings
  /\ call = "fit"
  /\ next = IF cfg.resume THEN "load" ELSE "generate"
  /\ step = 0
  /\ pc = [r \in Ranks |-> "ready"]
  /\ actor = [r \in Ranks |-> Base]
  /\ onGpu = [r \in Ranks |-> IF cfg.offload THEN {} ELSE Trained]
  /\ resident = [r \in Ranks |-> IF cfg.free THEN {} ELSE Engine]
  /\ weights = [r \in Ranks |-> IF cfg.free /\ cfg.level = 2 THEN Discarded
                                ELSE IF cfg.lora THEN Base ELSE Dummy]
  /\ adapter = [r \in Ranks |-> Discarded]
  /\ prefix = {}
  /\ synced = [r \in Ranks |-> cfg.lora]
  /\ current = [r \in Ranks |-> Stream("train", 0)]
  /\ trainRng = [r \in Ranks |-> Stream("train", 0)]
  /\ genRng = [r \in Ranks |-> IF Switches THEN Stream("train", 0)
                               ELSE Stream("gen", 0)]
  /\ drawn = [train |-> 0, gen |-> 0]
  /\ batch = [sampled |-> {}, scored |-> {}]

Advance(r, from, to) == pc[r] = from /\ pc' = [pc EXCEPT ![r] = to]

(* A collective of the group: every rank has come to it.                   *)
Together(from, to) ==
  /\ \A r \in Ranks : pc[r] = from
  /\ pc' = [r \in Ranks |-> to]

-----------------------------------------------------------------------------
(* The driver *)

Call ==
  /\ call = "fit" /\ next \in Calls
  /\ call' = next
  /\ pc' = [r \in Ranks |->
              CASE next = "generate" /\ Switches -> "gather"
                [] next = "generate" /\ ~Switches -> "rollout"
                [] OTHER -> "compute"]
  /\ onGpu' = [r \in Ranks |->
                 CASE next = "update" -> Trained
                   [] next = "ref" /\ ~cfg.lora -> onGpu[r]
                   [] next = "generate" /\ ~Switches -> onGpu[r]
                   [] OTHER -> onGpu[r] \cup {"params"}]
  /\ UNCHANGED <<cfg, next, step, actor, engineVars, prefix, rngVars, batch>>

(* is_last_step *)
LastStep == step >= MaxSteps

(* ray.get of every rank's answer; the order of the calls is fit's. A save *)
(* may follow an update or not, as save_freq says.                         *)
Return ==
  /\ \A r \in Ranks : pc[r] = "done"
  /\ call' = "fit"
  /\ pc' = [r \in Ranks |-> "ready"]
  /\ \/ call \in {"load", "save"} /\ next' = IF LastStep THEN "stop" ELSE "generate"
     \/ call = "generate" /\ next' = "log_prob"
     \/ call = "log_prob" /\ next' \in {"ref", "update"}
     \/ call = "ref" /\ next' = "update"
     \/ call = "update" /\ next' \in {"save", IF LastStep THEN "stop" ELSE "generate"}
  /\ UNCHANGED <<cfg, step, modelVars, engineVars, prefix, rngVars, batch>>

Finished ==
  /\ next = "stop" /\ call = "fit"
  /\ UNCHANGED vars

-----------------------------------------------------------------------------
(* ActorRolloutRefWorker.rollout_mode *)

(* state_dict or collect_lora_params gathers the shards of all ranks; with *)
(* sleep_level 2 the base model is collected as well.                      *)
Gather ==
  /\ Together("gather", "offload")
  /\ UNCHANGED <<driverVars, modelVars, engineVars, prefix, rngVars, batch>>

Offload(r) ==
  /\ Advance(r, "offload", "resume")
  /\ onGpu' = [onGpu EXCEPT ![r] = IF cfg.offload THEN @ \ {"params"} ELSE @]
  /\ UNCHANGED <<driverVars, actor, engineVars, prefix, rngVars, batch>>

NeedsBase == cfg.lora /\ cfg.level = 2

ResumeWeights(r) ==
  /\ Advance(r, "resume", IF NeedsBase THEN "base" ELSE "weights")
  /\ resident' = [resident EXCEPT ![r] = IF cfg.free THEN @ \cup {"weights"} ELSE @]
  /\ UNCHANGED <<driverVars, modelVars, weights, adapter, synced, prefix, rngVars, batch>>

(* update_weights(base_sync_done=False), a full_tensor per parameter.      *)
UpdateBase ==
  /\ Together("base", "weights")
  /\ weights' = [r \in Ranks |-> Base]
  /\ UNCHANGED <<driverVars, modelVars, resident, adapter, synced, prefix, rngVars, batch>>

(* update_weights: a new adapter, or every parameter.                      *)
UpdateWeights ==
  /\ Together("weights", "kv")
  /\ IF cfg.lora /\ \A r \in Ranks : synced[r]
     THEN adapter' = actor /\ UNCHANGED weights
     ELSE /\ weights' = IF cfg.lora THEN [r \in Ranks |-> Base] ELSE actor
          /\ UNCHANGED adapter
  /\ UNCHANGED <<driverVars, modelVars, resident, synced, prefix, rngVars, batch>>

ResumeKv(r) ==
  /\ Advance(r, "kv", "rollout")
  /\ resident' = [resident EXCEPT ![r] = IF cfg.free THEN @ \cup {"kv"} ELSE @]
  /\ synced' = [synced EXCEPT ![r] = TRUE]
  /\ trainRng' = [trainRng EXCEPT ![r] = current[r]]
  /\ current' = [current EXCEPT ![r] = genRng[r]]
  /\ UNCHANGED <<driverVars, modelVars, weights, adapter, prefix, genRng, drawn, batch>>

-----------------------------------------------------------------------------
(* The engine *)

(* The tensor-parallel ranks sample the batch together, drawing from the   *)
(* process's stream. Only the server keeps a prefix cache; its blocks were *)
(* computed with the weights of that moment.                               *)
Generate ==
  /\ Together("rollout", CASE ~Switches -> "done"
                           [] cfg.async /\ cfg.free -> "release"
                           [] OTHER -> "sleep")
  /\ batch' = [sampled |-> prefix \cup {Sampling(r) : r \in Ranks}, scored |-> {}]
  /\ prefix' = IF cfg.async THEN prefix \cup {Sampling(r) : r \in Ranks} ELSE prefix
  /\ current' = [r \in Ranks |-> Draw(current[r])]
  /\ drawn' = [train |-> drawn.train, gen |-> drawn.gen + 1]
  /\ UNCHANGED <<driverVars, modelVars, engineVars, trainRng, genRng>>

(* Mutant of ResetPrefixCache: the server sends its workers to sleep at once. *)
ResetPrefixCacheNot ==
  /\ Together("release", "sleep")
  /\ UNCHANGED <<driverVars, modelVars, engineVars, prefix, rngVars, batch>>

(* vLLMHttpServer.sleep: node 0 resets the cache before any worker sleeps. *)
(* In sync mode the cache is off and release has nothing to reset.         *)
ResetPrefixCache ==
  /\ Together("release", "sleep")
  /\ prefix' = {}
  /\ UNCHANGED <<driverVars, modelVars, engineVars, rngVars, batch>>

(* ActorRolloutRefWorker.trainer_mode *)
Asleep(old) == IF cfg.level = 2 THEN Discarded ELSE old

(* Mutant of TrainerMode: the generator's stream is not put aside.         *)
TrainerModeInStream(r) ==
  /\ Advance(r, "sleep", "done")
  /\ IF cfg.free
     THEN /\ resident' = [resident EXCEPT ![r] = {}]
          /\ weights' = [weights EXCEPT ![r] = Asleep(@)]
          /\ adapter' = [adapter EXCEPT ![r] = Asleep(@)]
     ELSE UNCHANGED <<resident, weights, adapter>>
  /\ current' = [current EXCEPT ![r] = trainRng[r]]
  /\ UNCHANGED <<driverVars, modelVars, synced, prefix, trainRng, genRng, drawn, batch>>

TrainerMode(r) ==
  /\ Advance(r, "sleep", "done")
  /\ IF cfg.free
     THEN /\ resident' = [resident EXCEPT ![r] = {}]
          /\ weights' = [weights EXCEPT ![r] = Asleep(@)]
          /\ adapter' = [adapter EXCEPT ![r] = Asleep(@)]
     ELSE UNCHANGED <<resident, weights, adapter>>
  /\ genRng' = [genRng EXCEPT ![r] = current[r]]
  /\ current' = [current EXCEPT ![r] = trainRng[r]]
  /\ UNCHANGED <<driverVars, modelVars, synced, prefix, trainRng, drawn, batch>>

-----------------------------------------------------------------------------
(* The calls on the actor: FSDP's forward and backward passes and the      *)
(* checkpoint manager's barriers take all ranks.                           *)

(* compute_log_prob, in eval mode: nothing is drawn.                       *)
LogProb ==
  /\ call = "log_prob" /\ Together("compute", "unload")
  /\ batch' = [sampled |-> batch.sampled, scored |-> {actor[r] : r \in Ranks}]
  /\ UNCHANGED <<driverVars, modelVars, engineVars, prefix, rngVars>>

(* compute_ref_log_prob: with LoRA the actor with its adapter disabled.    *)
RefLogProb ==
  /\ call = "ref" /\ Together("compute", "unload")
  /\ UNCHANGED <<driverVars, modelVars, engineVars, prefix, rngVars, batch>>

(* update_policy: the dropout draws from the stream.                       *)
Update ==
  /\ call = "update" /\ Together("compute", "unload")
  /\ actor' = [r \in Ranks |-> actor[r] + 1]
  /\ step' = step + 1
  /\ current' = [r \in Ranks |-> Draw(current[r])]
  /\ drawn' = [train |-> drawn.train + 1, gen |-> drawn.gen]
  /\ UNCHANGED <<cfg, call, next, onGpu, engineVars, prefix, trainRng, genRng, batch>>

(* load_checkpoint: the shards, the optimizer's states and the stream.     *)
Load ==
  /\ call = "load" /\ Together("compute", "unload")
  /\ actor' = [r \in Ranks |-> Restored]
  /\ onGpu' = [r \in Ranks |-> onGpu[r] \cup {"optim"}]
  /\ current' = [r \in Ranks |-> Stream("train", 1)]
  /\ drawn' = [train |-> 1, gen |-> drawn.gen]
  /\ UNCHANGED <<driverVars, engineVars, prefix, trainRng, genRng, batch>>

(* save_checkpoint; with LoRA the adapter is gathered once more.           *)
Save ==
  /\ call = "save" /\ Together("compute", "unload")
  /\ UNCHANGED <<driverVars, modelVars, engineVars, prefix, rngVars, batch>>

(* Mutant of Unload: load_checkpoint leaves the optimizer's states.        *)
UnloadParams(r) ==
  /\ Advance(r, "unload", "done")
  /\ onGpu' = [onGpu EXCEPT ![r] = IF cfg.offload THEN @ \ {"params"} ELSE @]
  /\ UNCHANGED <<driverVars, actor, engineVars, prefix, rngVars, batch>>

Unload(r) ==
  /\ Advance(r, "unload", "done")
  /\ onGpu' = [onGpu EXCEPT ![r] =
                 CASE ~cfg.offload -> @
                   [] cfg.offload /\ call \in {"load", "update"} -> {}
                   [] OTHER -> @ \ {"params"}]
  /\ UNCHANGED <<driverVars, actor, engineVars, prefix, rngVars, batch>>

RolloutStep == Gather \/ UpdateBase \/ UpdateWeights \/ Generate \/ ResetPrefixCache
ActorStep == LogProb \/ RefLogProb \/ Update \/ Load \/ Save
RankStep(r) ==
  Offload(r) \/ ResumeWeights(r) \/ ResumeKv(r) \/ TrainerMode(r) \/ Unload(r)

Next ==
  \/ Call \/ Return \/ Finished
  \/ RolloutStep \/ ActorStep
  \/ \E r \in Ranks : RankStep(r)

Spec == Init /\ [][Next]_vars

-----------------------------------------------------------------------------
(* Properties *)

(* Type invariant. *)
TypeOK ==
  /\ cfg \in Settings
  /\ call \in Calls \cup {"fit"} /\ next \in Calls \cup {"stop"}
  /\ step \in 0..MaxSteps
  /\ pc \in [Ranks -> Pcs]
  /\ actor \in [Ranks -> Policies]
  /\ onGpu \in [Ranks -> SUBSET Trained]
  /\ resident \in [Ranks -> SUBSET Engine]
  /\ weights \in [Ranks -> Policies \cup {Dummy, Discarded}]
  /\ adapter \in [Ranks -> Policies \cup {Dummy, Discarded}]
  /\ prefix \subseteq Policies \cup {Dummy, Discarded}
  /\ synced \in [Ranks -> BOOLEAN]
  /\ current \in [Ranks -> Streams]
  /\ trainRng \in [Ranks -> Streams]
  /\ genRng \in [Ranks -> Streams]
  /\ drawn \in [train: Nat, gen: Nat]
  /\ batch \in [sampled: SUBSET (Policies \cup {Dummy, Discarded}),
                scored: SUBSET Policies]

(* The batch that update_actor is called with was sampled with the very    *)
(* parameters the actor holds, by every rank's engine and with no KV block *)
(* of an older policy, and scored with them too: the engine's weights, the *)
(* LoRA base and adapter and the prefix cache are renewed on every way to  *)
(* rollout mode, whatever a sleep of level 1 or 2 left behind.             *)
OnPolicyBatch ==
  call = "update" /\ (\A r \in Ranks : pc[r] = "compute")
    => \A r \in Ranks : /\ batch.sampled = {actor[r]}
                        /\ batch.scored = {actor[r]}

(* With offloading, the KV cache and the actor's parameters or optimizer   *)
(* states are never on the GPU together, whatever call was interleaved.    *)
RoomForCache ==
  cfg.offload /\ cfg.free =>
    \A r \in Ranks : resident[r] # {} => onGpu[r] = {}

(* Whatever generation draws, training goes on with the number after the   *)
(* last it used, across a resume as well; and no generation begins where   *)
(* an earlier one did.                                                     *)
StreamsContinue ==
  Switches =>
    \A r \in Ranks :
      IF call = "generate" /\ pc[r] \in {"rollout", "release", "sleep"}
      THEN trainRng[r] = Stream("train", drawn.train)
           /\ current[r].at = drawn.gen
      ELSE call # "generate" => current[r] = Stream("train", drawn.train)
=============================================================================
