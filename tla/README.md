# Formal models of the verl2 training system

TLA+ models of the control of `src/verl2` (a reinforcement-learning trainer for
language models, a fork of verl), TLC configurations that check them on small
instances, and TLAPS proofs that hold for every value of the constants. Paths
below are relative to `src/verl2` (and to `src/verl2/verl` in the tables).

Contents: [the system](#the-system), [the modules](#the-modules),
[the runs](#the-runs), [fairness](#fairness), [the proofs](#the-proofs),
[findings](#findings), [what is taken from outside](#what-is-taken-from-outside),
[what is not modelled](#what-is-not-modelled), [plan](#plan).

## The system

A training job is one driver process that owns groups of worker processes, one
per GPU. The driver draws a batch from a dataloader, calls the workers (rollout,
log-probabilities, rewards, the actor's update), and every `save_freq` steps has
them write a checkpoint. Supervised fine-tuning (SFT) runs the same loop without
a driver, in every rank of a `torchrun` job. A job dies as a whole (any Ray
actor's death makes the driver's `ray.get` raise; `torchrun` takes all ranks
down), and what it continues from is the checkpoint directory.

| Component | State | Operations | Talks to |
|---|---|---|---|
| FSDP checkpoint manager (`utils/checkpoint/fsdp_checkpoint_manager.py`, `checkpoint_manager.py`) | files of each folder, `previous_saved_paths` (memory) | `save_checkpoint` (rotate, mkdir, barrier, shards, barrier, gathered model, barrier, append), `load_checkpoint`, `find_latest_ckpt_path` | other ranks (barriers), the disk |
| PPO driver (`trainer/ppo/ray_trainer.py`) | `global_steps`, dataloader position, tracker file, `data.pt` | `fit`, `_save_checkpoint`, `_load_checkpoint`, `_balance_batch`, profiling switches | worker groups by blocking calls |
| FSDP SFT trainer (`trainer/fsdp_sft_trainer.py`) | `global_step`, `resume_global_step`, epoch, dataloader position | `fit`, `save_checkpoint`, `load_checkpoint` | ranks by collectives |
| Engine SFT trainer, `CheckpointHandler` (`trainer/sft_trainer.py`, `utils/checkpoint/checkpoint_handler.py`) | the same, and one data file per data-parallel rank | `fit`, `save_checkpoint`, `load_checkpoint` | the engine, the ranks |
| Agent loop (`experimental/agent_loop`) | server heap, sticky sessions, executor queue, futures | `_choose_server`, `generate`, `submit_task`, `_worker_loop`, `compute_score`, `wake_up`, `sleep` | inference servers, reward model |
| One-step-off policy (`recipe/one_step_off_policy`) | the batch in flight, weight versions of two groups | `_async_gen_next_batch`, `sync_rollout_weights`, `fit` | actor group, rollout group, reward task |
| Hybrid engine (`workers/fsdp_workers.py`, vLLM rollout and server) | the actor's shards and where they are, the engine's weights, adapter and KV cache, the prefix cache, two random streams | `rollout_mode`, `trainer_mode`, `wake_up`, `sleep`, and the driver's calls around them | the inference engine |
| Worker groups (`single_controller`) | dp rank and collect flag of every worker | dispatch, execute, collect | Ray |
| Batches (`protocol.py`, `utils/seqlen_balancing.py`) | none between calls | chunk, split, concat, repeat, reorder; balanced partitions, micro-batches | everyone |
| Reward managers (`workers/reward_manager`), reward server (`src/rmserver.py`) | retries, segments of a response | `entropy_segmentation`, `compute_for_rollout`, `process_request` | remote models |
| Tools (`tools/`) | tool instances, threads of a pool, the permits of a limiter shared by all pools | `create`, `execute`, `release`, `acquire` | remote services |
| Rollout requests (`workers/rollout/schemas.py`, `sglang_rollout`) | per request: state, tokens, loss mask, tools held | multi-turn generation, abort, `finalize`, padding | engine, tools, simulated user |

### What is hard, and what makes each part correct

* **Checkpoint manager.** Ranks write side by side and meet only at barriers;
  rank 0 removes old folders *before* the new one is written; a crash can fall
  between any two file operations; the list rotation works from is lost in a
  restart. Correct when no step of a save endangers the folder a restart would
  read, the barriers cannot block for good, and disk use stays bounded.
* **PPO driver.** Actor, critic, dataloader and tracker are saved one after the
  other and read back together; the step counter, the epoch loop and the
  dataloader's position are three separate accounts of progress. Correct when
  the tracked folder is always whole, all ranks train on one state, step *g*
  trains on the *g*-th batch, and a job that returns has saved its last step.
* **SFT trainers.** No driver: rank 0 alone publishes. The same properties, and
  that the number in the tracker agrees with the batches behind the model.
* **One-step-off pipeline.** Two groups, a broadcast both must reach, a batch
  generated on weights that an update is about to replace, validation queued
  behind generation, rewards computed while the driver reorders the batch.
  Correct when the policy is never more than one step off, also after a resume,
  and nobody waits for a broadcast the other never comes to.
* **Agent loop.** Conversations, threads, an executor that blocks until a
  micro-batch is full, servers that sleep. Correct when a conversation stays on
  its server, load is even, the reward model gets whole micro-batches, no turn
  reaches a sleeping server, and every call returns or raises.
* **A conversation with tools.** Tokens, masks, log probabilities and images grow
  in steps, several searches run at once in a pool, and a permit is taken by one
  call and given back by another that nobody waits for. Correct when what is
  handed on belongs together, the permits are always accounted for, and every
  conversation ends with nothing held.
* **A request of the SGLang rollout.** Once enough requests are over, the others
  are cancelled wherever they are. Correct when a row is exactly a prefix of the
  conversation it stands for, turn by turn, tools are released, and the batch is
  built.
* **The hybrid engine.** One GPU and one random generator serve two programs in
  turn; what has to be sent to the engine depends on LoRA, sleep level and
  history. Correct when an update trains on a batch of its own policy, the cache
  and the trainer never share the GPU, and each random stream is drawn in order.
* **A training step.** Rows are repeated, dealt out to differently grouped ranks,
  balanced, cut into micro-batches and put back, several times over. Correct when
  every column keeps fitting the responses and the work is even and complete.

## The modules

Modules that end in `_proofs` hold theorems, modules that start with `MC` give
constants their values for TLC, and `ResumePoint` is the abstract specification
two trainers are shown to implement. `DataProto`, `SeqlenBalancing` and
`NaiveRewardManager` are functions, which `PPOStep` composes. Operators marked *mutant* in the modules are
plausible bugs next to the definition they would replace; each property is known
to fail under at least one of them.

### FSDPCheckpointManager

One worker group's `save_checkpoint`. `shard[s][r]` is what folder
`global_step_s` holds for rank *r* (its three files as one value, `Torn` from the
first open to the last close), `dirs` the folders that exist, `saved` is rank
0's `previous_saved_paths`, `doomed` what `rmtree` still has to remove,
`phase[r]` where rank *r* is. One action per statement that touches the disk or
waits: `Rotate` (lines 204-214; the slice arithmetic of `keep_start`),
`RemoveFile`/`RemoveDir`/`RemoveFails` (`rmtree(ignore_errors=True)`, one file at
a time), `Mkdir`, `EnterBarrier`, `BeginWrite`/`EndWrite`, `DumpBarrier`,
`SaveHf`, `HfBarrier`, `Return`. `Exit` is the end of the processes: memory is
lost, the disk stays. `LoadYields` and `LoadRaises` say what `load_checkpoint` can
meet; files of two different saves load without complaint. The module has no
`Next`: trainers conjoin its actions with theirs, as the calls do.

### RayPPOTrainer

The driver, with one manager instance for the actor (`A`) and one for the critic
(`C`). `pc` walks through `fit` and `_save_checkpoint`: actor, critic, `data.pt`,
tracker. `OpenTracker` and `WriteTracker` are two steps because
`open(path, "w")` truncates first. `Start` is `_load_checkpoint` in the modes
`auto`, `disable` and `resume_path`; `globalSteps` is set to the resumed step
plus one, as `fit` does. `actor[r]` is who computed rank *r*'s state and at which
step, which is enough to tell two models apart. What happens to the data inside
a step is `PPOStep`. In this fork validation and the
critic's update are commented out of `fit`, and so are they here. `Crash` can
happen at every step of a job that is up.

### FSDPSFTTrainer, SFTTrainer

The two SFT loops. `Train` is one collective step of all ranks. In
`FSDPSFTTrainer` a folder is itself the manager's `local_path`, so that rotation
removes `data.pt` with the shards, and rank 0 renames a finished tracker file
into place (`WriteTmpTracker`, `RenameTracker`). `SFTTrainer` has one dataloader
and one data file per rank, an additional barrier in the engine
(`EngineBarrier`), no barrier between the ranks' data files and the rename, and a
resumed step that is dropped. `StartEpoch` is the quotient the epoch loop starts
from, which need not agree with the dataloader; `resumed` keeps the step it was
taken from. The engine's trainer extends `FSDPSFTTrainer` and shares its constants,
its variables and the steps in which the two agree; what differs has a name of its
own (`EngineTrain`, `RankEndEpoch`, `RankTailStep`, ..., `EngineNext`, `EngineSpec`).

### ResumePoint

What checkpointing promises, without files: there is a running job and one point
a restart would continue from; a restart continues from it; only publishing the
job's own state replaces it. A trainer that overwrites its tracker may withdraw
the old point just before (`MayWithdraw`), one that renames may not. The
refinement mapping takes `point` to the *contents* of the folder the tracker names
(shards, position), so that a torn, removed or mixed folder is `Unreadable` or a
state no job was in, and any step that produces one is a violation.

### OneStepOffRayTrainer

Driver, actor group, rollout group and reward task. `actorQ` and `rolloutQ` are
the calls a group still has to take, in the order they were made. `CallSync` is
`sync_rollout_weights`: both groups are called, and `Launch` waits for the
rollout group's answer. `WeightSync` is the broadcast, which needs both. `Draw` and
`DrawNothing` are `_async_gen_next_batch` up to the sync, including the
`except Exception` that makes an error look like the end of the data. `actor`,
`rollout`, `current.weights` and `measured` count the updates behind the weights
in each place, which is what "off-policy by one step" is about. `order` is the
permutation `_balance_batch` makes, `rewards` the row each reward was computed for;
`opts` are the two settings that matter to these, in any combination.
`point` is the published checkpoint: the inherited `_save_checkpoint` is one step
here because `RayPPOTrainer` has its inside and implements `ResumePoint`.

### AgentLoop

`AgentLoopManager.generate_sequences` with its workers' server managers, the
reward workers and the batch executor. `phase[p]` is where prompt *p*'s
conversation is: waiting for a turn, generating, done and queued for a thread
(`pooled`), in a thread that waits for the executor (`blocked`), with the reward
model's answer (`scoring`), `raised` or `done`. `load[w]` are the counts of the heap
in `AsyncLLMServerManager`, `cache[w]` its LRU cache, the latest use last. A
request id is `<<round, prompt>>`, as every conversation draws a fresh one in every
round; entries of earlier rounds stay in the cache. `exec` is where the
executor's thread is: `get`, `get_nowait`, `fill` (the inner `while`), `run`. The
path with a reward model in its own resource pool is modelled (`rm_executor` is
set). The counts in the heap are never decreased by the code, so that "least
requests" means round-robin over conversations; `Balanced` is stated for that.
`Root` is a server `_choose_server` may find in front, one of least load: ties go by
hash. That the list stays a heap when its first entry is counted up in place and then
replaced by itself is `heapq.heapreplace`'s work, and is not modelled.

### ToolAgentLoop

`AgentLoop` sees a conversation from outside, as turns; this module is its inside.
`conv[c]` is the `AgentData` of a conversation with the state of its loop (`run`,
lines 114-180): `Begin` is `_handle_pending_state`, `Generate`
`_handle_generating_state` with its three tests, `ProcessTools`
`_handle_processing_tools_state` once all calls of the turn have answered,
`Interact` `_handle_interacting_state`. A token is the kind of message it belongs
to. `call[<<c, i>>]` is the *i*-th tool call of the turn: it gets an instance
(`StartCall`), a thread of the pool (`TakeThread`), a permit (`Acquire`), searches
(`SearchEnds`, or `SearchFails` and is retried), and gives instance and permit
back. The limiter is an actor with an `acquire` group of one thread, so that
`acquires` is a queue with a blocked head, and a `release` group; `releases` are the
calls under way to it. The permits are those of the tool that was initialised
first, because the actor is named.

### SGLangRollout

`req[r]` is an `AsyncRolloutRequest` and the await its task is suspended in (`at`);
an action goes from the answer of one awaited call to the next call, because a task
runs alone in between. `AskEngine` contains the tests of the loop's head,
`EngineReplies` the parsing of an answer, `Finalize` and `Truncate` the cuts at the
response's and the model's length. `CancelOthers` and `Padding` are the end of a
batch that over-samples; in validation all tasks are gathered (`GatherAll`). `Build`
makes the rows, `BuildFails` says when it raises.

A token is the kind of message it belongs to, `gen` the generation prompt and
`close` a token that ends a reply. With `skip_tokenizer_init`, the default
(`rollout.yaml:266`), a reply is appended as the engine `Sampled` it, with the
stop token if there was one; without it, and for a reply whose tool calls were
parsed out of it, the text is put through the chat template again (`Retokenized`),
which closes it with two tokens. What tools return when they are made is appended
like any answer (`CreateTools`). `use_inference_chat_template` is `False`: tokens
are those of the conversation turn by turn (`TurnByTurn`). No claim is made that the
template applied to the whole conversation would give the same: the documentation
says that it may not, for Qwen3 and QwQ (`rollout.yaml:176-180`, `multiturn.rst:210`
and `306`), and a sampled reply lacks the newline that the template puts behind it.

### HybridEngine

The ranks of one replica, each with a shard of the actor (`actor`, `onGpu`) and a
part of the engine (`weights`, `adapter`, `resident`). `Gather`, `Offload`,
`ResumeWeights`, `UpdateBase`, `UpdateWeights`, `ResumeKv` are `rollout_mode` in its
order, `TrainerMode` is `trainer_mode`, with `ResetPrefixCache` before it in server
mode. Collectives take all ranks (`Together`), everything else a rank does alone.
`weights = Dummy` is what `load_format=dummy` leaves, `Discarded` what a sleep of
level 2 leaves. `current`, `trainRng` and `genRng` name a stream and how many
numbers were drawn from it. The driver's calls come in the order of `fit`.

### PPOStep, DataProto, SeqlenBalancing, NaiveRewardManager

A batch is a function from keys to columns, and a value computed for a row is named
by that row (prompt, sample): putting rows together wrongly shows as a value next to
a response it was not computed from. `Part` is what a rank is given by the dispatch
over its mesh (`Group`: tensor parallel in the rollout, sequence parallel in
training), `out[r]` what it returns, in any order, `Collected` what the driver
concatenates. `Computed` and `Update` cut the rows into fixed or dynamic
micro-batches, `Update` in each of its `ppo_epochs` passes; `trained` records them, pass
by pass. (`dp_critic.py` has the same loop; the critic's update is commented out of `fit`.) `SeqlenBalancing` is Karmarkar-Karp as the
code has it, with its tie-breaks, over states of ordered groups. `sorted` and the
heap are insertions (`PutIn`, `Arrangement`), and loops are recursive functions over
the number of rounds, so that the module can be proved about. `Segment` applies
`EntropySegmentation` to every row, for every set of anchors that `topk` could give.
`SettingsAssumption` is what the meshes, `chunk` and the balancing assert of a
configuration: ranks in equal groups, equal numbers of rows.
`retries` is `retry_count` of the one row that has no answer yet; a second row that
also fails would only let the job stay in `reward` longer.
`truth` is the driver's own list beside the batch. `prev`, `curr` and `profiling`
are the profiling flags and the starts less stops of the profilers.

## The runs

Every run uses the smallest instance in which its hazards can occur. Two ranks
are enough for one rank to be ahead of another at any barrier and for a folder to
hold shards of two saves. Two kept folders are the least for which rotation may
remove one and keep another. Three starts allow a crash, a resume, a second crash
inside the resumed run's save, and a resume of that.

| Run | Instance | Shows |
|---|---|---|
| `ppo_resume` | 2 ranks, critic, gathered model (second barrier), keep 2, save every step and early before an expiring instance, 3 steps, epochs of 2, 3 starts in mode `auto`; 93 thousand states | `TypeOK`, `TrackedIsWhole`, `FinishedIsSaved`, the refinement `ImplementsResumePoint`, liveness `FinishesOrTrackerLost` |
| `sft_resume` | keep 2, gathered model, saves at 2, 4, ..., 18 in six epochs of 3 (two of them at the end of an epoch that is not the last), 3 starts, removal does not fail; 161 thousand states | `ShortOnlyFromEpochEnd`, `QuotaPerStart`, `ImplementsResumePoint`, with a tracker that is renamed: no start ever fails, and the job `Ends` |
| `engine_sft` | save every step, 3 steps, epochs of 2, 3 starts; 133 thousand states | `PublishedIsCurrent` at every rename, `FirstRunKeepsShards` |
| `one_step_off` | 2 rows, 7 steps, epochs of 4, tests and saves every 2, critic warm-up, data errors, early rewards and balancing in all four combinations, 3 starts; 12 thousand states | `TypeOK`, `AtMostOneStepOff`, `MeasuresRecentModel`, `SkipsOnePerResume`, `StoppedIsSaved`, `RewardsFollowRows`, liveness `Stops` |
| `agent_loop` | 4 prompts, 2 workers, 2 servers, 2 turns, cache of 2, micro-batches of 2, a reward model that may raise, 2 rounds; 250 thousand states | `Balanced`, `Sticky`, `GeneratesAwake`, liveness `Answers` |
| `tool_agent` | 2 conversations, up to 2 calls at once of 3 parsed, 2 threads, 1 permit, 2 tries, response of 3 tokens, three settings (images and tools; simulated user; SGLang with few turns); 140 thousand states | `TypeOK`, `OutputAligned`, `RefusedOnlyForUsers`, `ImagesHaveTokens`, `RateRespected`, liveness `EndsQuietly` |
| `sglang_rollout` | 2 requests, one with tools, which may answer when they are made, one with a simulated user, one answer enough, training and validation, with and without log probabilities, replies as sampled and tokenised again, calls that raise; 240 thousand states | `TypeOK`, `RowsAreConversations`, `EnoughAnswered`, `ToolsReleased`, liveness `BatchEnds` |
| `hybrid_engine` | 2 ranks, 3 steps, every configuration that switches modes, from a start and a resume; 5 thousand states | `OnPolicyBatch`, `RoomForCache`, `StreamsContinue` |
| `ppo_step` | 6 rows of lengths 2, 4, 7 on 2 ranks; 4 rows on 4 ranks in groups of 2, in every combination of groups, micro-batches and balancing; `ppo_epochs` 1 and 2; 3 steps with any set of profiled steps; 60 thousand states | `AlignedColumns`, `EvenWork`, `SegmentsPartition`, `StepsProfiled` |
| `agent_loop_threads`, `hybrid_kept_cache`, `ppo_truth` | the smallest instance of each | a counterexample each: see [Findings](#findings) |

`BOUND` and `bound` mark constants that only bound the exploration: `MaxRuns`
(starts of the job, hence crashes), `MaxStep` (the last step number), `MaxSteps`,
`MaxTurns`, `MaxRounds`, `MaxReply`, `MaxAnswer`, `MaxToolTokens`. A resume always
leaves `MaxStep` room for the steps it can reach, so that the bound never hides a
state. `CHECK_DEADLOCK FALSE` is set where jobs end: finished, failed for good, or
at the last allowed start. That nothing else stops is what the liveness
properties say; the modules without such ends have a `Finished` or `Terminated`
step and are checked for deadlock.

Where the code goes wrong in one case only, the property names that case and says
what happens in it, and the run contains it: a passing run then shows that the case
occurs in no other way, and a model without it would fail. `ShortOnlyFromEpochEnd`
says that an SFT job that ends has saved its last step *unless* its last start
resumed at the end of an epoch, and that it is then exactly one epoch short.
`RewardsFollowRows` says that a row has another row's reward *if and only if* rewards
are launched early, batches are balanced, and the row was moved.
`RowsAreConversations` says that prompt and response together are the conversation *if
and only if* it starts with a reply.

`sft_resume` saves nine times, because `QuotaPerStart` needs three starts that have
each filled their quota before it can tell one folder too many. Removal cannot fail
there, since a folder that could not be removed is rightly still on the disk; it may
fail in `ppo_resume` and `engine_sft`, and the SFT job's other theorems hold either way.

In `agent_loop` each worker's cache holds exactly its conversations of one round.
`Sticky` therefore relies on the eviction order: entries of the round before must
go first. In the code the cache holds 10000 entries, more than the prompts a
worker has at a time.

In `tool_agent` one permit for two threads makes the limiter's queue matter, two
tries let a search be retried, and with three tokens of response every one of the
length tests is hit from below, exactly and from above. In `sglang_rollout` the
response holds 5 tokens and the model 8, so that either limit can be the one that
cuts. In `ppo_step` the lengths are unequal enough for Karmarkar-Karp to differ
from dealing rows out in order, and six rows in micro-batches of at most 8 tokens
give permutations that are not their own inverse, which `AlignedColumns` needs to
tell `ReverseIdx` from the map itself.

`EvenWork` has three parts: dp ranks differ in tokens by at most the widest gap
among `world_size` rows that are neighbours in length (times the sequence-parallel
size, because `_balance_batch` makes as many partitions as there are ranks); in
each of the `ppo_epochs` passes of an update every row is in exactly one micro-batch; and no micro-batch is empty or exceeds the allowed
tokens by a whole row. The comment at `utils/seqlen_balancing.py:265` ("max sum of
attention_mask per micro-batch") promises more than the code gives: three rows of 5
with 8 allowed make two micro-batches, one of 10.

## Fairness

Weak fairness throughout, of whole processes: the driver, each rank, each
barrier, the groups, the executor's thread, each conversation. It says that a
process that can go on does, a collective completes once all ranks have entered
it, an inference server answers, and whoever runs the job restarts it when it is
down. Crashes are bounded by `MaxRuns` and have no fairness. No fairness is asked
of a particular choice inside a process: whether a reward model raises, a
removal fails, or a conversation takes another turn is open. The executor's
steps have one fairness condition together, because the executor is one thread;
so has the manager. In `tool_agent` every conversation, every tool call and the two
groups of the limiter have one each: a search ends, well or badly, because the HTTP
request has a timeout. In `sglang_rollout` it is each request's task and the task
that collects them: the engine, the tools and the simulated user answer or raise.
`hybrid_engine` and `ppo_step` check safety only.

Liveness is checked without a state constraint and without symmetry.

## The proofs

All proofs are checked by TLAPS to the last leaf. Assumptions are the named
`ASSUME`s of each module (`TrainerAssumption`, `SFTAssumption`,
`OneStepOffAssumption`, `AgentLoopAssumption`, `HybridAssumption`, and in the two
conversation modules `LengthAssumption`, `BoundAssumption` and their like), which
TLC evaluates in the runs. Where a theorem needs more, it says so in an `ASSUME`
of its own, named below.

**Checkpoints of the PPO job** (`RayPPOTrainer_proofs`), for any number of ranks, steps, epochs and starts. The theorems are stated under
`SafeConfiguration`: starts use mode `auto` and more than one folder is kept
(`0` stands for no limit), because without it they are false. Under it

* `TypeCorrect`: `Spec => []TypeOK`,
* `TrackedAlwaysWhole`: `Spec => []TrackedIsWhole`,
* `AlwaysOneModel`: `Spec => []OneModel`, all actor ranks train on one state; the
  runs see this through the refinement,
* `RefinesResumePoint`: `Spec => ImplementsResumePoint`, the job implements
  `ResumePoint`.

`TrackedIsWhole` alone is not inductive: it says nothing of what a save in
progress is about to remove or overwrite. The invariant `IInv` adds that (a) the
tracker is behind the step being saved, so that writes never touch the tracked
folder (`TrackerBehind`); (b) rank 0 remembers steps in increasing order, and
the tracked one can only be the *last* of them, so that a rotation that keeps at
least one never dooms it (`ActorMemory`, `CriticMemory`, and `SaveInv` inside a
save); (c) what is finished of the folder in the making is uniform by the time
the driver goes on (`FolderSoFar`, from the ranks' phases and the barriers); (d)
all actor ranks hold one state (`ActorWhole`). The manager's share is
`ActorRankSafe` and `ActorBarrierSafe`, `CriticRankSafe` and `CriticBarrierSafe`: no
step of any rank inside a save touches the tracked folder or breaks `SaveInv`. The
trainers hold the manager as named instances (`A`, `C`, `M`), and the
prover does not carry a lemma through an instance, so each is stated where it is used.

For the refinement, `StepRefines` goes through the steps: the point they leave is
the old one, except that opening the tracker withdraws it and writing the tracker
publishes the folder in the making. That this folder holds the state of the
*running* job, and the position behind its step, is the one fact `IInv` does not
have; `FolderIsTheJobs` adds it (`PInv`).

* `FinishedAlwaysSaved`: `Spec => []FinishedIsSaved`, under `RunsToTheEnd` besides: saving
  is on (`SaveFreq > 0`), and the epochs have at least as many batches as the job has
  steps. Without the first nothing is published; without the second `fit` returns
  from its loop before the last step, which is what the code does too.
  `CountInv` says that a job has never gone through more batches, over all epochs, than
  it has done steps, and that no folder resumes further ahead: so it cannot run out
  of epochs before its last step, and that step saves.

**Checkpoints of the SFT job** (`FSDPSFTTrainer_proofs`), for any number of ranks
and starts. `SafeConfiguration` is that more than one folder is kept and that the
number of steps is the default, epochs times their length. With fewer, a job
that is started again after its last save trains past the end and republishes, as
the list of weaknesses below says. Under it `RefinesResumePoint`,
`TrackedAlwaysWhole`, `AlwaysOneModel` and `TypeCorrect` hold.

The manager's share is `TrainerRankSafe` and `TrainerBarrierSafe`. What differs is the end of a save: rank 0
publishes while other ranks have yet to come out of the manager. The
invariant therefore guards the tracked folder only up to the rename
(`Guarded`); afterwards the tracked folder is the one of this save, and it stays
whole because the ranks pass the last dump barrier together (`DumpTogether`), so
that whoever is still inside only has its list to append to. `OneModel` also ties
`globalStep` to the batches behind the state, as the tracker's number is the
folder's name and what a restart counts from.

* `ShortOnlyThen`: `Spec => []ShortOnlyFromEpochEnd`, for every `SaveFreq`. `CountInv` keeps
  the step equal to the epochs behind it times their length plus the position in this
  one, across every restart, or to that less one epoch for as long as a start that resumed at
  the end of an epoch is running (`Skipped`): its epoch loop is one ahead of the
  dataloader, once and for good. What such a job trained behind its last save,
  `NoneMissed` says, was never due to be saved.

* `QuotaKept`: `Spec => []QuotaPerStart`, under `QuotaConfiguration`: besides
  `SafeConfiguration` some folders are kept, and `rmtree` removes what it is asked to.
  Rank 0 never knows of more than its quota (`RoomMade`, `KnownSize`), and what it does not know
  of is from an earlier start, which left at most its own quota (`OldBound`). The
  difficulty is the saves that crashes cut short: each leaves a folder that no
  list names, and it would seem that these add up, one for every start. They do not, because
  a start repeats the steps since the tracked one, and the first it saves is the very
  step whose save was cut short: `BeyondIsNext` says that a folder above the tracked
  step can only be the next one to be saved, hence there is one at most (`OneBeyond`).

**The engine-based SFT job** (the last part of `FSDPSFTTrainer_proofs`, which extends
`SFTTrainer`, and through it `FSDPSFTTrainer`):

* `EngineTypeCorrect`: `EngineSpec => []EngineTypeOK`,
* `EnginePublishesCurrent`: `EngineSpec => PublishedIsCurrent`, in every run, resumed or not,
  for every quota of folders,
* `FirstRunSafe`: `EngineSpec => []FirstRunKeepsShards`, if more than one folder is kept.

This trainer counts from zero in every run, so that neither the trainers'
`TrackedIsWhole` nor an order of the folders by age holds. Two invariants take
their place. `EngineInv` holds in every run: it bounds the batches behind a state by
the runs so far instead of the step, and says that once the managers have
returned the folder of this step is whole, and stays so until the last rank has
left the handler (`EngineInTail`). `FirstRunInv` is what is true up to the first resume, when the order
of the folders is still that of the steps. It uses `EngineRankSafe` and
`EngineBarrierSafe` with the tracked folder as the one to protect;
with `MaxKeep = 1` rotation dooms that folder.

**Saves do not block** (`NoSaveHangs` in `RayPPOTrainer_proofs` and in `FSDPSFTTrainer_proofs`,
`NoEngineSaveHangs`), in every configuration. `save_checkpoint` waits for all ranks before
its first shard, after the last, and after the gathered model, and its caller for every rank's
return; rank 0 does more than the others between these: it rotates, and it writes the model in
Hugging Face's form. `Abreast` says how far apart
the ranks' phases can be, with rank 0 alone having work between two of the waits; hence
some rank has something to do or all have come to the same wait
(`NobodyWaitsInVain`). `AbreastInv` says it at each point of the trainer; in the engine's trainer the handler
that follows the manager, with a barrier at its end, belongs to it (`InTail`).

**The pipeline** (`OneStepOffRayTrainer_proofs`), for any number of rows, steps,
epochs, starts and all settings:

* `TypeCorrect`, which bounds the queues of calls,
* `OneStepOff`: `Spec => []AtMostOneStepOff`,
* `MeasuresRecent`: `Spec => []MeasuresRecentModel`,
* `RewardsAligned`: `Spec => []RewardsFollowRows`, an equivalence: which rows are
  given the reward of another response, under all settings,
* `SkipsAtMostOne`: `Spec => []SkipsOnePerResume`,
* `StoppedAlwaysSaved`: `Spec => []StoppedIsSaved`.

The inductive invariant lists which calls can be under way at each point of
`fit` (`ActorCalls`, `RolloutCalls`), which batch is where (`BatchInv`), and how
far the rollout group is behind the actor in each phase of a step
(`RolloutLag`): equal after the sync, one behind after the update, at most two
at a step that launched nothing. A generated batch carries the rollout group's
weights until the next sync (`FutureWeights`), so `CurrentLag` follows when it is
taken. `Progress` bounds the step counter by the starts so far, which makes the
types of the weights inductive.

For the batches a resume skips, `DataInv` counts modulo the epoch: the batches drawn
are those trained on, the one in flight, and up to one per resume
(`Ahead(x, n)`: *x* is congruent to a number from 0 to *n*). What a save stores of the
dataloader is ahead of the step by the batch in flight, which the next start never
sees again: hence one, and only one, for each resume. `SavedInv` says at each point
of a step how far the last save is behind it.

* `NobodyHangs`: `Spec => []NobodyWaitsInVain`. The weight sync is a broadcast between two
  groups that each work on calls of their own, in order; it is under way for both or
  for neither, which follows from the calls at each point of `fit` (`ActorCalls`, `RolloutCalls`).
  Whoever reads a future reads one that is answered or being worked on, and a batch
  whose rewards are waited for has been generated (`TakenInv`).

**Generation** (`AgentLoop_proofs`), for any number of prompts, workers, servers,
threads, turns and rounds:

* `TypeCorrect`: `Spec => []TypeOK`,
* `LoadBalanced`: `Spec => []Balanced`,
* `AlwaysAwake`: `Spec => []GeneratesAwake`,
* `SessionsStick`: `SharesFit => (Spec => Sticky)`, where `SharesFit` says that the
  cache has an entry for each prompt of a worker's share,
* `StuckOnlyForThreads`: `Spec => [](CallGoesOn \/ OutOfThreads)`, under `WholeBatches`: the
  bound on a batch of the executor, if there is one, is of whole micro-batches, which
  holds in the code, as no caller passes `max_batch_size` (`MaxBatch = 0`). Nothing is
  assumed of the number of threads. `OutOfThreads` is the one way in which servers, threads and
  executor come to wait for each other: the executor holds every blocked sample
  and lacks some of a micro-batch, the queue is empty, and each worker with a
  sample left has all its threads blocked on the executor and was dealt more samples than it
  has threads. It does occur: `agent_loop_threads` ends in it, the deadlock that
  Findings describes. With a thread for every sample of a share it cannot.

For `SessionsStick`, `StickyInv` says that a conversation with a turn behind it is in its
worker's cache, with its server, and that the cache is ordered: entries of this
round behind those of earlier ones. A full cache that does not know a
conversation of this round must then begin with an older entry
(`OldestIsOlder`, by counting: otherwise the cache would name more prompts than
the share has), and that is the one `Evict` takes (`RoomIsMade`). That the executor
only ever ends a conversation once, `QueueInv`, keeps its phases in order.

For `StuckOnlyForThreads`, `ExecInv` is the account of the executor: a prompt whose thread
is blocked is in the queue or in the batch, once (`ExecutorHoldsBlocked`); the executor only waits
for more with less than whole micro-batches in hand (`BatchInv`); what it has judged are whole ones,
and so is the call (`JudgedInv`, from the assertion at the head of the call). An executor that
waits with an empty queue therefore waits for a prompt that is yet to come
(`OnlyThreadsAreMissing`): it is generating, or has a thread to come with, or all threads of its
worker are in the executor's hands.

**A conversation with tools** (`ToolAgentLoop_proofs`), for any number of
conversations, calls, threads, permits and tries, for all lengths and settings:

* `RateIsRespected`: `Spec => []RateRespected`. The invariant `LimiterInv` is a
  balance: free permits, searches and releases under way add up to the limit,
  whoever retries, fails or is not waited for,
* `OutputIsAligned`, `ImagesKeepTheirTokens`, `ToolsLeaveRoom`: from `ConvsInv`, which
  says for every state of the loop what the lengths of the response, its mask, its
  log probabilities and the images have in common,
* `TypeCorrect`: `Spec => []TypeOK`; that every waiting call is in the limiter's queue
  (`AllQueued`), once, needs the balance,
* `NobodyStarves`: `Spec => []SomethingGoesOn`. Threads of the pool wait for permits
  that other threads give back; by the balance a permit is free, under
  way, or with a search, which ends by itself,
* `QuietAtTheEnd`: `Spec => []NothingLeftBehind`, the safety half of the liveness property
  `EndsQuietly`: when the last conversation is over every instance is released and every
  permit is back or on its way, also after calls whose answers nobody waited for.

**A request of the SGLang rollout** (`SGLangRollout_proofs`), for any number of
requests, all lengths and settings: `TypeCorrect`, `ToolsAreReleased` and
`EnoughReturned`, from what can be in a request at each of its awaits (`GoodInv`)
and from what a batch knows of its requests in each phase (`BatchInv`).

* `RowsRenderConversations`: `Spec => []RowsAreConversations`, without a hypothesis, for
  replies as sampled and tokenised again, and tools that answer when they are made. A
  request grows its token list piece by piece, in six places of the code, with a
  generation prompt that is put down at one await and taken up at another
  (`Said`, `Asked`); `ConverseInv` says that at every await the list is the
  conversation turn by turn, and that the loss mask is one exactly on what
  the model wrote. The tokens behind the length of the prompt are then the conversation's,
  and `PromptPrefix` says what the prompt that was set aside has to do with those before.
  `TurnByTurn` is a function defined by recursion on the
  conversation. The library's induction theorems cannot be used, as they take
  an operator; the proof takes the *set* of the lengths up to which a fact
  fails instead, and its least member (`WellFoundedInduction`, which does
  not take one). The function is local to its definition and cannot be cited;
  `Renders(g, ms, n)` restates it as a predicate on `g`.

* `BatchNeverStuck`: `Spec => []BatchGoesOn`. A batch that waits has a task whose call is
  to be answered or an outcome it has not taken, whatever share it waits for and
  whichever tasks were cancelled, and a request at the engine has room for a token.

**The hybrid engine** (`HybridEngine_proofs`), for any number of ranks and steps
and any set of configurations:

* `TypeCorrect`: `Spec => []TypeOK`,
* `OnPolicy`: `Spec => [](Supported => OnPolicyBatch)`; `Supported` excludes servers
  that never sleep, where it is false (`hybrid_kept_cache`), and LoRA behind a server,
* `Room`: `Spec => []RoomForCache`,
* `StreamsKept`: `Spec => []StreamsContinue`,
* `RanksAlwaysMeet`: `Spec => []RanksMeet`: whoever waits in a collective waits for ranks
  that are on their way to it. `SectionInv` keeps all ranks in one section of the
  call, between the same two collectives, whichever steps the
  configuration lets them skip.

The inductive invariant places the ranks within a call (`CallInv`: which phases
exist side by side, since a collective lets no rank past it alone), says what the
engine holds in each of those phases (`EngineInv`), which policies the batch
and the prefix cache can name (`PolicyInv`), what is on the GPU per phase
(`RoomInv`), and which stream is current and which is put aside (`StreamInv`).

**The dataflow of a step** (`PPOStep_proofs`), for any number of prompts, responses and
ranks, all groups, sizes, lengths and steps, under `SettingsAssumption`,
`PPOAssumption` and `BranchAssumption`:

* `ColumnsAligned`: `Spec => []AlignedColumns`,
* `SegmentsCoverResponse`: `Spec => []SegmentsPartition`,
* `StepsAreProfiled`: `Spec => []StepsProfiled`,
* `WorkIsEven`: `Spec => []EvenWork`.

Whatever a balancing decides, it only has to deal out every row once, and
putting back what was dealt out restores the order. `PartitionsList` and
`MicroBatchesList` say the first of Karmarkar and Karp: the insertions list what they
are given (`Lists`: every member, each once), a merge of two states deals out the rows of both
(`Holds`, `Deals`), and each round leaves one state fewer in the queue, until there
is one (`Queue`). `ReversedOrder` says the second. For parts of fixed size it is
`ChunksJoin` and `SplitJoins`. `ColumnsAligned` then needs only that a rank that has
returned has returned its part of the column, in order (`OutInv`), and that the
responses list the rows (`BatchInv`).

`EvenWork` needs more of the balancing: how far apart the sums of its groups can be.
The states of the differencing are taken with what bounds them. Without equal sizes
no group of a state exceeds another by more than a row (`CloseStates`), which makes
every micro-batch non-empty and keeps it within a row of the room. With equal sizes,
all groups of a state have as many rows as each other, and their sums lie within the
widest gap *G* of the blocks of `world_size` neighbours in length (`EvenStates`): it
holds of the first states, which are those blocks (`FirstStatesEven`), and a merge,
which puts the largest of one state with the smallest of the other, keeps it
(`PairEven`). `Kth` names the order of lengths without sorting them, so that *G* does
not depend on the order the balancing leaves behind (`KthReordered`). Put next to each
other the partitions are even blocks (`PartSums`), a dp rank is given a whole number of
them (`LoadBetween`), and `BalancedLoads` adds up. Over the steps, `BalanceInv` says
that the rows stay as they were dealt out, and `TrainInv` that what a rank has trained on
once it has returned is its part, row by row, in good micro-batches.

`SegmentsPartition` is not about one action but about three loops in a row: the
cuts are far enough apart and below the end (`Spaced`), and each segment put down goes on
where the last one ended (`Chain`). `ProfileInv` adds to `StepsProfiled` what holds between two
steps: a profile runs on if and only if it is continuous and both are to be
profiled.

The loops are recursive functions that are local to their definitions. `Walk`
restates such a function, `WalkExists` shows that it is there and `Stays` that what each round preserves
holds at the end; both rest on the least member of the set of rounds at which it
fails, as the library's induction theorems take an operator.

*Only model-checked*: liveness (`FinishesOrTrackerLost`, `Ends`, `Stops`,
`Answers`, `EndsQuietly`, `BatchEnds`), which is out of this prover's reach. What is proved
of it, for all constants, is that nobody waits in vain: `NoSaveHangs`,
`NoEngineSaveHangs`, `NobodyHangs`, `StuckOnlyForThreads`, `NobodyStarves`, `RanksAlwaysMeet` and `BatchNeverStuck`. As
`ENABLED` is out of reach as well, these are predicates on states, each
alternative taken from the guard of an action. That there is always somebody who can go on does
not say that everybody gets there; that part, under fairness, is left to TLC.

## Findings

Each has a run that exhibits it.

1. `agent_loop_threads`: with more samples per reward worker than threads in the
   default pool (`min(32, cpus + 4)`), the executor can block for a request that
   is queued behind threads blocked on the executor
   (`experimental/agent_loop/agent_loop.py:303` and `367`).
2. `hybrid_kept_cache`: in server mode the weights are synced only by `wake_up`, and
   `wake_up` is called only with `free_cache_engine`
   (`experimental/agent_loop/agent_loop.py:849`). With `free_cache_engine=False` the
   servers sample every batch with the weights they started with, by default
   random ones.
3. `ppo_truth`: the list of ground truths keeps the order it had before
   `_balance_batch` (`trainer/ppo/ray_trainer.py:1027`, `1106`, `1150`): an answer is
   judged by the truth of another prompt. With several responses to a prompt the
   list is wrong without balancing too, because it is tiled and the batch is
   interleaved.

Weaknesses met while modelling that have no run of their own; those that name a
property are part of a passing run, inside the property:

* With `max_actor_ckpt_to_keep=1` the tracked folder is removed before the next
  is written (`utils/checkpoint/fsdp_checkpoint_manager.py:213`), so that a crash
  in a save leaves nothing to resume: set `MaxActorKeep = 1` in `ppo_resume.cfg`
  and `TrackedIsWhole` fails.
* The PPO tracker is truncated and then written (`trainer/ppo/ray_trainer.py:831`;
  the comment at 827 says "for atomic usage"); a crash in between leaves an empty
  file, and `int("")` raises in every later start in mode `auto`.
  `FinishesOrTrackerLost` names this as the one way a job can fail. The SFT
  trainers rename.
* `trainer/fsdp_sft_trainer.py:875`: resumed from a checkpoint taken at the end of an
  epoch, the epoch loop starts at the next epoch while the restored dataloader
  still has to end the one before; one epoch is lost and the job returns without
  its final save, where the comment at 865 says that the dataloader "will automatically resume
  from where it left off". `ShortOnlyFromEpochEnd` states it, with what is lost:
  take the case out of it and `sft_resume` fails.
* `trainer/sft_trainer.py:75` drops the step that `load_checkpoint` returns; a
  resumed job counts from zero and overwrites the folders of the first run.
* `recipe/one_step_off_policy/ray_trainer.py:494` and `508`: with
  `launch_reward_fn_async` and `balance_batch`, rewards come in the order of the
  generation and rows in the balanced order, so that every row the balancing moved is
  trained with the reward of another response (`RewardsFollowRows`). The comment at
  489-491 expects the new order to matter to advantages and mini-batches only.
* A job started with `resume_mode=disable` in a used directory overwrites the
  tracked folder shard by shard; a crash in that save leaves two models in one
  folder, which mode `auto` then loads. The proofs' `SafeConfiguration` and the
  run exclude that mode.
* `checkpoint_handler.py:103` renames the tracker without waiting for the data
  files of the other data-parallel ranks; after a crash there, a rank resumes the
  model and restarts its data.
* `utils/checkpoint/megatron_checkpoint_manager.py:553`: with `async_save` the request
  that `dist_checkpointing.save` returns gets a finalize function and is dropped;
  nothing in the repository schedules it, so that no model is written, while the
  driver publishes the folder (`trainer/ppo/ray_trainer.py:831`). The backend is not
  modelled; this is from reading it.
* Rotation forgets the folders of earlier starts (`checkpoint_manager.py:59` begins
  with an empty list), so that a job that is started *n* times may keep *n* times
  `max_ckpt_to_keep` folders, where `sft_trainer.yaml:66` calls the number the
  "maximum number of checkpoints to keep". `QuotaPerStart` is the bound that holds:
  one quota for each start, and the folder of the save that is going on.
* A job started again after its last save trains one more step.
* One-step-off: each resume skips the batch that was in flight when the
  dataloader's position was saved (`SkipsOnePerResume` bounds it by one per
  resume); with the default `total_training_steps` such a job therefore runs out
  of data one step short and returns without its last save (`StoppedIsSaved`
  bounds the loss by one save interval); an error in drawing a batch ends the
  loop in the same way (line 319); the last validation measures weights two
  updates old, and `val_before_train` after a resume measures the pretrained
  weights, because `init_workers` syncs before `_load_checkpoint`.
* `ToolAgentLoop`: the messages of a turn's tools are appended once per answer
  (`tool_agent_loop.py:295` is inside the loop), so `messages` holds them several
  times, though the tokens do not; answers dropped for their length leave their
  images behind (309 against 350); a user's answer is not tested for its length, so
  that the next generation may be refused by vLLM (`RefusedOnlyForUsers`); SGLang
  asked for log probabilities with no room left raises
  (`async_sglang_server.py:221`); interactions are never finalized. Of several
  search tools the first one's rate limit holds for all.
* `SGLangRollout`: when tools answer as they are made (`multiturn.rst:66-75`), their
  message takes the generation prompt out of `input_ids`
  (`schemas.py:465-474`, `541-549`, from `sglang_rollout.py:1079-1081`), but `prompt_ids` has been set aside with
  it (`initialize_request`), and the response is what follows as many tokens as
  `prompt_ids` has. The row therefore has a generation prompt that no reply follows in
  place of the first tokens of the tools' message (`RowsAreConversations`, second part).
* `SGLangRollout`: an aborted request never releases its tools (`ToolsReleased`), and
  with `calculate_log_probs` it makes the batch fail (`EnoughAnswered`); at
  `sglang_rollout.py:1237` `len(req.response_ids)` is 1, the batch dimension, so that
  only the last log probability of a row is kept.
* Hybrid engine: the seed given to the generation's stream (`fsdp_workers.py:599`)
  is overwritten by the first `trainer_mode` (739), which puts the trainer's stream
  in its place; with LoRA and `load_format=dummy` the first `rollout_mode` sends only
  the base weights; a vLLM server with LoRA is never asked for the adapter.
* `trainer/ppo/ray_trainer.py:1215` uses `reward_extra_infos_dict`, which no path
  defines. A profile is not stopped at the end of the job when the step after the
  last one is among the named steps and `profile_continuous_steps` is set.
* `naive.py`: a process reward request is given up after ten tries, and ends the
  job; the docstring of `entropy_segmentation` asks for anchors `min_gap` away from
  both edges, the code keeps only the left one; with several turns the segments
  cover as many positions as there are model tokens, not their positions.

## What is taken from outside

* `torch.distributed.barrier`: all ranks leave after all have entered.
* `shutil.rmtree`: files one by one, then the folder; with errors ignored it may
  leave any of them.
* `os.rename` within a directory is atomic; `open(path, "w")` truncates.
* Ray runs an actor's calls in the order one caller made them; a dead actor makes
  the driver's `ray.get` raise; `torchrun` stops all ranks when one dies. The
  methods of a concurrency group with one thread run one at a time.
* `StatefulDataLoader`: a state saved after *n* batches of a pass resumes with
  batch *n + 1* of that pass; saved after the last batch, the next pass is empty.
* `cachetools.LRUCache` and `heapq` behave as documented; a thread pool runs as
  many tasks as it has threads.
* vLLM: a sleep of level 1 keeps the weights, level 2 discards them; a prefix cache
  holds what it computed until it is reset; the tensor-parallel ranks draw the same
  numbers when their generators agree.
* `asyncio`: a cancelled task stops at its await; between two awaits a task runs
  alone.
* A chat template applied to one message behind the base conversation gives the tokens of
  that message, the same wherever the message stands, and a reply's start with the
  generation prompt.
* `SFTTrainer` with a sequence-parallel size of one: every rank is a
  data-parallel rank.

## What is not modelled

Tensor arithmetic (losses, advantages, optimizer steps, model code, weight
conversion), the text of prompts and responses, the copy of checkpoints to HDFS,
the clock behind `should_save_ckpt_esi` (its answer is a free choice), logging and
metrics, dataset preparation, and the scripts around finished checkpoints. A rank
that hangs without dying is not modelled either: a crash takes the job down.

These are most of the lines of `verl`: `core_algos.py`, `kernels.py`, the models and
their mergers, `megatron_*` (a second backend behind the interface of the FSDP
workers), and the recipes `prime`, `dapo`, `sppo`, `entropy`, `spin` (variants of the
PPO loop with another loss, and with the validation that `ray_trainer.py` has
commented out). They hold either no state between calls or the same control over
again.

Of the modelled components, the rows of `PROJECT.json` say what each leaves out.

## Plan

Left to do, in this order:

1. `ToolAgentLoop` in place of the bare turns of `AgentLoop`, on one conversation
   per worker.
2. The Megatron checkpoint manager, in which every rank rotates its own list: the
   same abstract `ResumePoint`, with and without `async_save`.
3. `spin_trainer` as an instance of `PPOStep` with two actors.
