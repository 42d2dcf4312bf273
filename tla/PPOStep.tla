-------------------------------- MODULE PPOStep --------------------------------
(***************************************************************************)
(* The dataflow of RayPPOTrainer.fit: in every step the rows of a batch go *)
(* to the ranks of the worker groups and come back several times, in       *)
(* parts, in micro-batches and in another order; the reward manager reads  *)
(* them next to a list of the driver's own; profiles start and stop around *)
(* the step. A value computed for a row is named by the row it was         *)
(* computed from: prompt p, sample s, so that rows put together wrongly    *)
(* show.                                                                   *)
(***************************************************************************)
EXTENDS Integers, Sequences, FiniteSets, DataProto, SeqlenBalancing, NaiveRewardManager

CONSTANTS
  Settings,        \* configurations, records of the fields below
  Lengths,         \* Lengths[c]: response lengths met with configuration c
  PromptTokens,    \* tokens of a prompt
  RewardRetries    \* max_retries of NaiveRewardManager.process_request

\* prompts, n        rows of the dataloader, responses to each
\* world, tp, sp     ranks; tensor parallel in rollout, Ulysses in training
\* mini, micro       ppo_mini_batch_size after normalisation, rows of a micro-batch
\* epochs            ppo_epochs, the passes of an update over its rows
\* dynamic, tokens   use_dynamic_bsz, max_token_len of a rank
\* balance, ref, critic, warmup   balance_batch, use_reference_policy, use_critic,
\*                   critic_warmup
\* profile, continuous            global_profiler.steps, profile_continuous_steps
\* start, total      the first step after a start or resume, total_training_steps

VARIABLES
  cfg,      \* the configuration
  pc,       \* where the driver is
  step,     \* global_steps
  lens,     \* how long the answer to each row of the batch will be
  batch,    \* columns of the batch on the driver: key -> one value per row
  truth,    \* groundtruth, the list beside the batch
  judged,   \* rows done in the loop of compute_for_rollout
  segments, \* segments of the row just cut
  retries,  \* retry_count
  out,      \* what each rank has returned from the call in progress
  trained,  \* by dp rank and epoch of the update, the micro-batches of backward passes
  prev, curr, \* prev_step_profile, curr_step_profile
  profiling \* starts less stops of the profilers

vars == <<cfg, pc, step, lens, batch, truth, judged, segments, retries, out, trained,
          prev, curr, profiling>>

ASSUME PPOAssumption == PromptTokens \in Nat \ {0} /\ RewardRetries \in Nat \ {0}

(* What the meshes of a worker, chunk and the balancing assert: the ranks  *)
(* are in equal groups, and each gets the same number of rows.             *)
ASSUME SettingsAssumption ==
  \A c \in Settings :
    /\ {c.prompts, c.n, c.world, c.tp, c.sp, c.mini, c.micro, c.epochs, c.tokens}
         \subseteq Nat \ {0}
    /\ {c.warmup, c.start, c.total} \subseteq Nat
    /\ {c.dynamic, c.balance, c.ref, c.critic, c.continuous} \subseteq BOOLEAN
    /\ c.world % c.tp = 0 /\ (c.prompts * c.n) % (c.world \div c.tp) = 0
    /\ c.world % c.sp = 0 /\ (c.prompts * c.n) % (c.world \div c.sp) = 0
    /\ c.balance => (c.prompts * c.n) % c.world = 0
    /\ Lengths[c] \subseteq Nat \ {0}

Ranks == 0..(cfg.world - 1)
Rows == (1..cfg.prompts) \X (1..cfg.n)
Pending == << >>                              \* a rank that has not returned

(* How many neighbouring ranks work on the same rows in a call.            *)
Group(call) == IF call = "generate" THEN cfg.tp ELSE cfg.sp

(* The calls of a step after the generation, in the order of fit.          *)
AfterCall(call) ==
  CASE call = "log_prob" /\ cfg.ref -> "ref"
    [] call \in {"log_prob", "ref"} -> "reward"
    [] call = "reward" /\ cfg.critic -> "values"
    [] call \in {"reward", "values"} /\ cfg.warmup <= step -> "update"
    [] OTHER -> "stop_profile"

Init ==
  /\ cfg \in Settings
  /\ pc = "start_profile"
  /\ step = cfg.start
  /\ lens = << >>
  /\ batch = << >>
  /\ truth = << >>
  /\ judged = 0
  /\ segments = << >>
  /\ retries = 0
  /\ out = [r \in Ranks |-> Pending]
  /\ trained = << >>
  /\ prev = FALSE
  /\ curr = (step \in cfg.profile)
  /\ profiling = 0

(* A batch of the dataloader; truth is tiled over the repeats, and the rows *)
(* for the generation are the prompts repeated in place. The lengths stand *)
(* for what the model will answer to each sample.                          *)
Fetch ==
  /\ pc = "start_profile"
  /\ profiling' = profiling + (IF IF cfg.continuous THEN ~prev /\ curr ELSE curr THEN 1 ELSE 0)
  /\ lens' \in [Rows -> Lengths[cfg]]
  /\ LET prompts == [p \in 1..cfg.prompts |-> p]
     IN  /\ truth' = Tiled(prompts, cfg.n)
         /\ batch' = [prompt |-> Interleaved(prompts, cfg.n)]
  /\ trained' = [d \in 0..(cfg.world \div cfg.sp - 1) |-> << >>]
  /\ pc' = "generate"
  /\ UNCHANGED <<cfg, step, judged, segments, retries, out, prev, curr>>

-----------------------------------------------------------------------------
(* The part of the batch rank r gets in a call: the chunk of its dp rank.  *)
Part(rows, call, r) == Chunk(rows, cfg.world \div Group(call), r \div Group(call))

(* attention_mask summed over each of the given rows.                      *)
Tokens(rows) == [i \in DOMAIN rows |-> PromptTokens + lens[rows[i]]]

(* rearrange_micro_batches of what each rank holds: all have as many       *)
(* micro-batches as the one that needs most (an all_reduce they all        *)
(* enter), cut from the rows at hand.                                      *)
Room == cfg.tokens * cfg.sp
Dynamic(held, r) ==
  MicroBatches(Tokens(held[r]),
               Max({MicroBatchesNeeded(Tokens(held[k]), Room) : k \in Ranks}))

(* compute_log_prob and compute_values: the values of a part, micro-batch  *)
(* by micro-batch, put back into the order of the rows.                    *)
Computed(held, r) ==
  IF ~cfg.dynamic THEN Concatenated(Split(held[r], cfg.micro))
  ELSE LET idx == Concatenated(Dynamic(held, r))
       IN  Reordered(Reordered(held[r], idx), ReverseIdx(idx))

(* A rank generates: sample s of a prompt is its s-th copy in the batch.   *)
Generate(r) ==
  /\ pc = "generate" /\ out[r] = Pending
  /\ LET copies == [i \in DOMAIN batch.prompt |->
                      <<batch.prompt[i], Cardinality({j \in 1..i : batch.prompt[j] = batch.prompt[i]})>>]
     IN  out' = [out EXCEPT ![r] = Part(copies, "generate", r)]
  /\ UNCHANGED <<cfg, pc, step, lens, batch, truth, judged, segments, retries, trained,
                 prev, curr, profiling>>

(* A rank evaluates the actor, the reference or the critic.                *)
Forward(r) ==
  /\ pc \in {"log_prob", "ref", "values"} /\ out[r] = Pending
  /\ LET held == [k \in Ranks |-> Part(batch.response, pc, k)]
     IN  out' = [out EXCEPT ![r] = Computed(held, r)]
  /\ UNCHANGED <<cfg, pc, step, lens, batch, truth, judged, segments, retries, trained,
                 prev, curr, profiling>>

(* update_policy: ppo_epochs times over the same mini-batches in order,    *)
(* each cut into micro-batches again; the ranks of a sequence-parallel     *)
(* group share the rows, and its first stands for it in trained. The       *)
(* result has no rows.                                                     *)
Update(r) ==
  /\ pc = "update" /\ out[r] = Pending
  /\ LET minis(k) == Split(Part(batch.response, "update", k), cfg.mini)
         Micro(m) == IF cfg.dynamic
                     THEN LET held == [k \in Ranks |-> minis(k)[m]]
                          IN  [b \in DOMAIN Dynamic(held, r) |-> Reordered(held[r], Dynamic(held, r)[b])]
                     ELSE Split(minis(r)[m], cfg.micro)
     IN  trained' = IF r % cfg.sp # 0 THEN trained
                    ELSE [trained EXCEPT ![r \div cfg.sp] =
                            [e \in 1..cfg.epochs |-> FlattenSeq([m \in DOMAIN minis(r) |-> Micro(m)])]]
  /\ out' = [out EXCEPT ![r] = <<"metrics">>]
  /\ UNCHANGED <<cfg, pc, step, lens, batch, truth, judged, segments, retries,
                 prev, curr, profiling>>

(* The driver has waited for all ranks: the results of the first rank of   *)
(* each group, in the order of the ranks, are one column.                  *)
Returned == \A r \in Ranks : out[r] # Pending
Collected(call) == Concatenated([d \in 1..(cfg.world \div Group(call)) |-> out[(d - 1) * Group(call)]])
NoneOut == [r \in Ranks |-> Pending]

(* batch.repeat and union with the generated rows.                         *)
UnionGenerated ==
  /\ pc = "generate" /\ Returned
  /\ LET prompts == [p \in 1..cfg.prompts |-> p]
     IN  batch' = [prompt |-> Interleaved(prompts, cfg.n), response |-> Collected("generate")]
  /\ pc' = IF cfg.balance THEN "balance" ELSE "log_prob"
  /\ out' = NoneOut
  /\ UNCHANGED <<cfg, step, lens, truth, judged, segments, retries, trained, prev, curr,
                 profiling>>

(* _balance_batch: as many partitions as ranks, of equal size.             *)
Balance ==
  /\ pc = "balance"
  /\ LET idx == Concatenated(Partitions(Tokens(batch.response), cfg.world, TRUE))
     IN  batch' = [key \in DOMAIN batch |-> Reordered(batch[key], idx)]
  /\ pc' = "log_prob"
  /\ UNCHANGED <<cfg, step, lens, truth, judged, segments, retries, out, trained, prev,
                 curr, profiling>>

(* union of a column the ranks have computed.                              *)
UnionComputed ==
  /\ pc \in {"log_prob", "ref", "values"} /\ Returned
  /\ batch' = [key \in DOMAIN batch \cup {pc} |->
                 IF key = pc THEN Collected(pc) ELSE batch[key]]
  /\ pc' = AfterCall(pc)
  /\ out' = NoneOut
  /\ UNCHANGED <<cfg, step, lens, truth, judged, segments, retries, trained, prev, curr,
                 profiling>>

AfterUpdate ==
  /\ pc = "update" /\ Returned
  /\ pc' = AfterCall(pc)
  /\ out' = NoneOut
  /\ UNCHANGED <<cfg, step, lens, batch, truth, judged, segments, retries, trained, prev,
                 curr, profiling>>

-----------------------------------------------------------------------------
(* compute_for_rollout cuts the rows one after the other, at whatever      *)
(* tokens had the highest entropy.                                         *)
Segment ==
  /\ pc = "reward" /\ judged < Len(batch.response)
  /\ LET length == lens[batch.response[judged + 1]]
     IN  IF length < MaxBranches + 1
         THEN segments' = EntropySegmentation(<< >>, length)
         ELSE \E anchors \in Anchors(length) : segments' = EntropySegmentation(anchors, length)
  /\ judged' = judged + 1
  /\ UNCHANGED <<cfg, pc, step, lens, batch, truth, retries, out, trained, prev, curr,
                 profiling>>

(* The process reward model does not answer for a row, and is asked again  *)
(* until the retries are used up: one row that fails ends the job.         *)
RewardRetried ==
  /\ pc = "reward" /\ judged = Len(batch.response)
  /\ retries' = retries + 1
  /\ pc' = IF retries' < RewardRetries THEN "reward" ELSE "failed"
  /\ UNCHANGED <<cfg, step, lens, batch, truth, judged, segments, out, trained, prev, curr,
                 profiling>>

(* Each row has its own reward and the truth at its place of the list.     *)
Judge ==
  /\ pc = "reward" /\ judged = Len(batch.response)
  /\ batch' = [key \in DOMAIN batch \cup {"advantages", "judged_by"} |->
                 CASE key = "advantages" -> batch.response
                   [] key = "judged_by"  -> truth
                   [] OTHER -> batch[key]]
  /\ retries' = 0
  /\ pc' = AfterCall(pc)
  /\ UNCHANGED <<cfg, step, lens, truth, judged, segments, out, trained, prev, curr, profiling>>

-----------------------------------------------------------------------------
(* Mutant of StopProfile: whether the last step was profiled is forgotten. *)
StopProfileAgain ==
  /\ pc = "stop_profile"
  /\ LET next == step + 1 \in cfg.profile
     IN  /\ profiling' = profiling - (IF IF cfg.continuous THEN curr /\ ~next ELSE curr THEN 1 ELSE 0)
         /\ curr' = next
  /\ pc' = IF step >= cfg.total THEN "done" ELSE "start_profile"
  /\ step' = IF step >= cfg.total THEN step ELSE step + 1
  /\ lens' = << >> /\ batch' = << >> /\ truth' = << >> /\ segments' = << >> /\ trained' = << >>
  /\ judged' = 0
  /\ UNCHANGED <<cfg, retries, out, prev>>

(* The end of a step and of its locals; after the last no step is begun.   *)
StopProfile ==
  /\ pc = "stop_profile"
  /\ LET next == step + 1 \in cfg.profile
     IN  /\ profiling' = profiling - (IF IF cfg.continuous THEN curr /\ ~next ELSE curr THEN 1 ELSE 0)
         /\ prev' = curr
         /\ curr' = next
  /\ pc' = IF step >= cfg.total THEN "done" ELSE "start_profile"
  /\ step' = IF step >= cfg.total THEN step ELSE step + 1
  /\ lens' = << >> /\ batch' = << >> /\ truth' = << >> /\ segments' = << >> /\ trained' = << >>
  /\ judged' = 0
  /\ UNCHANGED <<cfg, retries, out>>

RankStep(r) == Generate(r) \/ Forward(r) \/ Update(r)

DriverStep ==
  \/ Fetch \/ UnionGenerated \/ Balance \/ UnionComputed \/ AfterUpdate
  \/ Segment \/ RewardRetried \/ Judge \/ StopProfile

Terminated == pc \in {"done", "failed"} /\ UNCHANGED vars

Next == DriverStep \/ (\E r \in Ranks : RankStep(r)) \/ Terminated

Spec == Init /\ [][Next]_vars

-----------------------------------------------------------------------------
(* Whatever the ranks, their groups and the micro-batches did to the order *)
(* of the rows, every column of the batch has in every row what belongs to *)
(* the response there, all responses are in it, and a response is next to  *)
(* its own prompt.                                                         *)
AlignedColumns ==
  "response" \in DOMAIN batch =>
    /\ Len(batch.response) = Cardinality(Rows)
    /\ ToSet(batch.response) = Rows
    /\ \A i \in DOMAIN batch.response : batch.prompt[i] = batch.response[i][1]
    /\ \A key \in DOMAIN batch \cap {"log_prob", "ref", "values", "advantages"} :
         batch[key] = batch.response

(* _balance_batch: "such that each dp rank gets similar total tokens". No  *)
(* two ranks differ by more than two rows that are neighbours, as many     *)
(* apart as there are ranks, in the order of length; with Ulysses a dp     *)
(* rank is several ranks.                                                  *)
Load(d) == SumOver([i \in 1..(Len(batch.response) \div (cfg.world \div cfg.sp)) |-> i],
                   Tokens(Part(batch.response, "log_prob", d * cfg.sp)))
Kth(numbers, k) ==                            \* the k-th in ascending order
  Min({x \in ToSet(numbers) : Cardinality({i \in DOMAIN numbers : numbers[i] <= x}) >= k})
Gap == LET tokens == Tokens(batch.response)
       IN  Max({Kth(tokens, k * cfg.world) - Kth(tokens, (k - 1) * cfg.world + 1) :
                  k \in 1..(Len(tokens) \div cfg.world)})
RanksBalanced ==
  cfg.balance /\ "log_prob" \in DOMAIN batch =>
    \A d, e \in 0..(cfg.world \div cfg.sp - 1) : Load(d) - Load(e) <= cfg.sp * Gap

(* An update makes as many passes over the rows of a dp rank as ppo_epochs *)
(* says, and each takes every row in exactly one micro-batch. No           *)
(* micro-batch is empty, which would stop the job on one rank only, and    *)
(* with use_dynamic_bsz none exceeds the tokens allowed by a whole row:    *)
(* max_token_len itself, "max sum of attention_mask per micro-batch", is   *)
(* not kept, as the partitions are balanced and not bounded.               *)
Updated == pc = "stop_profile" /\ cfg.warmup <= step
TrainedOnce ==
  Updated => \A d \in DOMAIN trained :
    /\ DOMAIN trained[d] = 1..cfg.epochs
    /\ \A e \in 1..cfg.epochs :
         LET rows == Concatenated(trained[d][e])
             part == Part(batch.response, "update", d * cfg.sp)
         IN  Len(rows) = Len(part) /\ ToSet(rows) = ToSet(part)
MicroBatchesBounded ==
  Updated => \A d \in DOMAIN trained : \A e \in DOMAIN trained[d] : \A b \in DOMAIN trained[d][e] :
    LET tokens == Tokens(trained[d][e][b])
    IN  /\ tokens # << >>
        /\ cfg.dynamic => SumOver([i \in DOMAIN tokens |-> i], tokens)
                            < Room + Max({tokens[i] : i \in DOMAIN tokens})

(* The work is dealt out evenly and completely.                            *)
EvenWork == RanksBalanced /\ TrainedOnce /\ MicroBatchesBounded

(* entropy_segmentation: its segments cover the response from the first    *)
(* token to the last, each begins where the one before ends, and no        *)
(* segment but the last is shorter than min_gap.                           *)
SegmentsPartition ==
  segments # << >> =>
    LET last == Len(segments)
    IN  /\ segments[1][1] = 0
        /\ segments[last][2] = lens[batch.response[judged]]
        /\ \A k \in 1..last : segments[k][1] < segments[k][2]
        /\ \A k \in 1..(last - 1) : /\ segments[k][2] = segments[k + 1][1]
                                    /\ segments[k][2] - segments[k][1] >= MinGap

(* Within a step the profilers run, once, if and only if global_profiler   *)
(* names the step: no double start, no stop that was not started, and no   *)
(* profile that runs on, also after a resume.                              *)
StepsProfiled ==
  pc \notin {"start_profile", "done", "failed"} =>
    profiling = IF step \in cfg.profile THEN 1 ELSE 0

(* compute_for_rollout is handed input_ids and groundtruth as lists of the *)
(* same rows: every answer is compared with the truth of its own prompt.   *)
JudgedByOwnTruth ==
  "judged_by" \in DOMAIN batch =>
    \A i \in DOMAIN batch.response : batch.judged_by[i] = batch.response[i][1]
=============================================================================
