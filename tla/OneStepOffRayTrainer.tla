------------------------- MODULE OneStepOffRayTrainer -------------------------
(***************************************************************************)
(* The one-step-off-policy pipeline: while the actor group trains on a     *)
(* batch, the rollout group generates the next one, on weights it was sent *)
(* before that training.                                                   *)
(*                                                                         *)
(* The driver, the actor group, the rollout group and the reward task run  *)
(* side by side.  A group takes its calls in the order the driver made     *)
(* them; the weight sync is a broadcast that both groups have to reach.    *)
(* The inherited _save_checkpoint is one step here: RayPPOTrainer has its  *)
(* inside, and implements the ResumePoint that `point` stands for.         *)
(***************************************************************************)
EXTENDS Integers, Sequences

CONSTANTS
  NumRows,       \* responses in a batch
  Options,       \* the settings a start may have: balance, asyncReward
  ValFirst,      \* trainer.val_before_train, with a validation reward
  TestFreq,      \* trainer.test_freq
  SaveFreq,      \* trainer.save_freq
  TotalSteps,    \* total_training_steps
  TotalEpochs,   \* trainer.total_epochs
  EpochLen,      \* len(train_dataloader)
  CriticWarmup,  \* trainer.critic_warmup
  DataMayFail,   \* drawing a batch may raise
  MaxRuns        \* BOUND: how often the job is started

Rows == 1..NumRows
Orders == {p \in [Rows -> Rows] : \A i, j \in Rows : p[i] = p[j] => i = j}
AsGenerated == [i \in Rows |-> i]

MaxStep == TotalSteps + MaxRuns
Weights == 0..MaxStep   \* the number of actor updates behind them

(* No batch, no result yet. *)
None == [pos |-> 0, weights |-> 0, state |-> "none", scored |-> FALSE]

ASSUME OneStepOffAssumption ==
  /\ NumRows \in Nat \ {0}
  /\ Options \subseteq [balance : BOOLEAN, asyncReward : BOOLEAN]
  /\ ValFirst \in BOOLEAN /\ DataMayFail \in BOOLEAN
  /\ TestFreq \in Int /\ SaveFreq \in Int /\ CriticWarmup \in Int
  /\ TotalSteps \in Nat \ {0} /\ TotalEpochs \in Nat \ {0}
  /\ EpochLen \in Nat \ {0} /\ MaxRuns \in Nat

VARIABLES
  pc,           \* where the driver is in fit
  run,          \* which start of the job this is
  opts,         \* this start's settings
  globalSteps,  \* global_steps
  pos, epoch,   \* the continuous iterator over the dataloader
  future,       \* batch_data_future: the batch in flight
  current,      \* the batch of this step
  order,        \* which generated row each row of the batch is
  rewards,      \* the generated row that each row's reward was computed for
  actorQ,       \* calls the actor group still has to take
  rolloutQ,     \* calls the rollout group still has to take
  actor,        \* the actor's weights
  rollout,      \* the rollout group's weights
  measured,     \* the weights the last validation ran on
  point         \* on disk: what a restart would continue from

dataVars == <<pos, epoch>>
batchVars == <<future, current, order, rewards>>
queueVars == <<actorQ, rolloutQ>>
weightVars == <<actor, rollout, measured>>
jobVars == <<run, opts, globalSteps, point>>
vars == <<pc, jobVars, dataVars, batchVars, queueVars, weightVars>>

Nothing == [done |-> 0, pos |-> 0, weights |-> 0]

Goto(from, to) == pc = from /\ pc' = to

Init ==
  /\ pc = "down"
  /\ run = 0
  /\ opts \in Options
  /\ globalSteps = 0
  /\ pos = 0 /\ epoch = 0
  /\ future = None /\ current = None
  /\ order = AsGenerated /\ rewards = AsGenerated
  /\ actorQ = << >> /\ rolloutQ = << >>
  /\ actor = 0 /\ rollout = 0 /\ measured = 0
  /\ point = Nothing

-----------------------------------------------------------------------------
(* Starting: init_workers sends the pretrained weights to the rollout      *)
(* group, and then fit loads the checkpoint into the actor.                *)

(* Mutant of Start: the dataloader starts over.                            *)
StartData ==
  /\ Goto("down", IF ValFirst THEN "validate_first" ELSE "draw")
  /\ run < MaxRuns
  /\ run' = run + 1
  /\ opts' \in Options
  /\ rollout' = 0
  /\ actor' = point.weights
  /\ pos' = 0
  /\ epoch' = 0
  /\ globalSteps' = point.done + 1
  /\ UNCHANGED <<batchVars, queueVars, measured, point>>

Start ==
  /\ Goto("down", IF ValFirst THEN "validate_first" ELSE "draw")
  /\ run < MaxRuns
  /\ run' = run + 1
  /\ opts' \in Options
  /\ rollout' = 0
  /\ actor' = point.weights
  /\ pos' = point.pos
  /\ epoch' = 0
  /\ globalSteps' = point.done + 1
  /\ UNCHANGED <<batchVars, queueVars, measured, point>>

(* _validate: a generation on the rollout group, behind the one in flight. *)
CallValidate ==
  /\ \/ Goto("validate_first", "validating_first")
     \/ Goto("validate", "validating")
  /\ rolloutQ' = Append(rolloutQ, "validate")
  /\ UNCHANGED <<jobVars, dataVars, batchVars, actorQ, weightVars>>

(* Mutant of Validated: without the answer of the rollout group.           *)
ValidatedUnheard ==
  /\ \/ Goto("validating_first", "draw")
     \/ Goto("validating", "save")
  /\ UNCHANGED <<jobVars, dataVars, batchVars, queueVars, weightVars>>

Validated ==
  /\ \/ Goto("validating_first", "draw")
     \/ Goto("validating", "save")
  /\ "validate" \notin {rolloutQ[i] : i \in 1..Len(rolloutQ)}
  /\ UNCHANGED <<jobVars, dataVars, batchVars, queueVars, weightVars>>

-----------------------------------------------------------------------------
(* _async_gen_next_batch *)

(* Without a batch the step in hand goes on, and the loop ends after it.    *)
AfterDraw == IF current = None THEN "wait" ELSE "prepare"

MoreData == pos < EpochLen \/ epoch + 1 < TotalEpochs

(* Mutant of Draw: a batch past the end of the data.                       *)
DrawPastEnd ==
  /\ Goto("draw", "sync")
  /\ MoreData
  /\ pos' = pos + 1 /\ epoch' = epoch
  /\ future' = [None EXCEPT !.pos = pos', !.state = "drawn"]
  /\ UNCHANGED <<jobVars, current, order, rewards, queueVars, weightVars>>

(* The continuous iterator goes on to the next epoch when a pass is over.  *)
Draw ==
  /\ Goto("draw", "sync")
  /\ MoreData
  /\ IF pos < EpochLen
     THEN pos' = pos + 1 /\ epoch' = epoch
     ELSE pos' = 1 /\ epoch' = epoch + 1
  /\ future' = [None EXCEPT !.pos = pos', !.state = "drawn"]
  /\ UNCHANGED <<jobVars, current, order, rewards, queueVars, weightVars>>

(* The end of the data and an error in drawing it look the same.           *)
DrawNothing ==
  /\ Goto("draw", AfterDraw)
  /\ ~MoreData \/ DataMayFail
  /\ UNCHANGED <<jobVars, dataVars, batchVars, queueVars, weightVars>>

(* Mutants of CallSync: the rollout group keeps the weights it has, or the *)
(* actor group is not told to take part.                                   *)
CallNoSync ==
  /\ Goto("sync", "launch")
  /\ UNCHANGED <<jobVars, dataVars, batchVars, queueVars, weightVars>>

CallRolloutSync ==
  /\ Goto("sync", "launch")
  /\ rolloutQ' = Append(rolloutQ, "sync")
  /\ UNCHANGED <<jobVars, dataVars, batchVars, actorQ, weightVars>>

CallSync ==
  /\ Goto("sync", "launch")
  /\ actorQ' = Append(actorQ, "sync")
  /\ rolloutQ' = Append(rolloutQ, "sync")
  /\ UNCHANGED <<jobVars, dataVars, batchVars, weightVars>>

(* The driver has the rollout group's answer to the sync, and goes on as   *)
(* soon as the generation is submitted.                                    *)
Launch ==
  /\ Goto("launch", AfterDraw)
  /\ rolloutQ = << >>
  /\ rolloutQ' = << "generate" >>
  /\ future' = [future EXCEPT !.state = "generating"]
  /\ UNCHANGED <<jobVars, dataVars, current, order, rewards, actorQ, weightVars>>

-----------------------------------------------------------------------------
(* The loop of fit *)

IsLastStep == globalSteps >= TotalSteps

(* batch_data_future.get(), and the next batch unless this step is the last. *)
TakeBatch ==
  /\ future.state = "generated"
  /\ Goto("wait", IF IsLastStep THEN "prepare" ELSE "draw")
  /\ current' = future
  /\ future' = None
  /\ order' = AsGenerated
  /\ UNCHANGED <<jobVars, dataVars, rewards, queueVars, weightVars>>

(* The loop is left for want of a batch, without a last save.              *)
LeaveLoop ==
  /\ Goto("wait", "ended")
  /\ future = None
  /\ UNCHANGED <<jobVars, dataVars, batchVars, queueVars, weightVars>>

(* _balance_batch reorders the rows. *)
Balance ==
  /\ Goto("prepare", "reward")
  /\ order' \in (IF opts.balance THEN Orders ELSE {order})
  /\ UNCHANGED <<jobVars, dataVars, future, current, rewards, queueVars, weightVars>>

(* Mutant of ComputeReward: in the order of the generation.                *)
ComputeRewardAsGenerated ==
  /\ ~opts.asyncReward
  /\ Goto("reward", "update")
  /\ rewards' = AsGenerated
  /\ UNCHANGED <<jobVars, dataVars, future, current, order, queueVars, weightVars>>

ComputeReward ==
  /\ ~opts.asyncReward
  /\ Goto("reward", "update")
  /\ rewards' = order
  /\ UNCHANGED <<jobVars, dataVars, future, current, order, queueVars, weightVars>>

(* ray.get(future_reward): computed from the generation's output.          *)
GetReward ==
  /\ opts.asyncReward
  /\ current.scored
  /\ Goto("reward", "update")
  /\ rewards' = AsGenerated
  /\ UNCHANGED <<jobVars, dataVars, future, current, order, queueVars, weightVars>>

MustTest ==
  TestFreq > 0 /\ (IsLastStep \/ globalSteps % TestFreq = 0)

AfterUpdate == IF MustTest THEN "validate" ELSE "save"

CallUpdate ==
  /\ Goto("update", "updating")
  /\ CriticWarmup <= globalSteps
  /\ actorQ' = Append(actorQ, "update")
  /\ UNCHANGED <<jobVars, dataVars, batchVars, rolloutQ, weightVars>>

SkipUpdate ==
  /\ Goto("update", AfterUpdate)
  /\ CriticWarmup > globalSteps
  /\ UNCHANGED <<jobVars, dataVars, batchVars, queueVars, weightVars>>

Updated ==
  /\ Goto("updating", AfterUpdate)
  /\ actorQ = << >>
  /\ UNCHANGED <<jobVars, dataVars, batchVars, queueVars, weightVars>>

(* Mutant of MustSave: the last step is not special.                       *)
MustSaveOnFreq == SaveFreq > 0 /\ globalSteps % SaveFreq = 0

MustSave == SaveFreq > 0 /\ (IsLastStep \/ globalSteps % SaveFreq = 0)

(* The dataloader's position is already past the batch in flight.          *)
Save ==
  /\ Goto("save", "advance")
  /\ point' = IF MustSave
              THEN [done |-> globalSteps, pos |-> pos, weights |-> actor]
              ELSE point
  /\ UNCHANGED <<run, opts, globalSteps, dataVars, batchVars, queueVars, weightVars>>

(* The step is over; the loop goes on if there is a batch in flight.       *)
NextStep ==
  /\ Goto("advance", IF IsLastStep THEN "finished" ELSE "wait")
  /\ globalSteps' = globalSteps + 1
  /\ current' = None
  /\ UNCHANGED <<run, opts, point, dataVars, future, order, rewards, queueVars, weightVars>>

-----------------------------------------------------------------------------
(* The groups and the reward task *)

Calls(q, call) == q # << >> /\ Head(q) = call

(* The broadcast: both groups have come to it.                             *)
WeightSync ==
  /\ Calls(actorQ, "sync") /\ Calls(rolloutQ, "sync")
  /\ actorQ' = Tail(actorQ) /\ rolloutQ' = Tail(rolloutQ)
  /\ rollout' = actor
  /\ UNCHANGED <<pc, jobVars, dataVars, batchVars, actor, measured>>

Update ==
  /\ Calls(actorQ, "update")
  /\ actorQ' = Tail(actorQ)
  /\ actor' = actor + 1
  /\ UNCHANGED <<pc, jobVars, dataVars, batchVars, rolloutQ, rollout, measured>>

Generate ==
  /\ Calls(rolloutQ, "generate")
  /\ rolloutQ' = Tail(rolloutQ)
  /\ future' = [future EXCEPT !.state = "generated", !.weights = rollout]
  /\ UNCHANGED <<pc, jobVars, dataVars, current, order, rewards, actorQ, weightVars>>

Validate ==
  /\ Calls(rolloutQ, "validate")
  /\ rolloutQ' = Tail(rolloutQ)
  /\ measured' = rollout
  /\ UNCHANGED <<pc, jobVars, dataVars, batchVars, actorQ, actor, rollout>>

(* _launch_individual_rewards waits for the generation it was given; that  *)
(* batch is in flight, or the driver has taken it already.                 *)
Score(batch) == [batch EXCEPT !.scored = TRUE]

RewardTask ==
  /\ opts.asyncReward
  /\ \/ /\ future.state = "generated" /\ ~future.scored
        /\ future' = Score(future) /\ UNCHANGED current
     \/ /\ current.state = "generated" /\ ~current.scored
        /\ current' = Score(current) /\ UNCHANGED future
  /\ UNCHANGED <<pc, jobVars, dataVars, order, rewards, queueVars, weightVars>>

-----------------------------------------------------------------------------
Up == pc \notin {"down", "finished", "ended"}

(* Some process dies and the job goes down; the memory of all is lost.     *)
Crash ==
  /\ Up
  /\ run < MaxRuns
  /\ pc' = "down"
  /\ future' = None /\ current' = None
  /\ order' = AsGenerated /\ rewards' = AsGenerated
  /\ actorQ' = << >> /\ rolloutQ' = << >>
  /\ UNCHANGED <<jobVars, dataVars, weightVars>>

Driver ==
  \/ Start \/ CallValidate \/ Validated
  \/ Draw \/ DrawNothing \/ CallSync \/ Launch
  \/ TakeBatch \/ LeaveLoop
  \/ Balance \/ ComputeReward \/ GetReward
  \/ CallUpdate \/ SkipUpdate \/ Updated \/ Save \/ NextStep

Groups == WeightSync \/ Update \/ Generate \/ Validate

Next == Driver \/ Groups \/ RewardTask \/ Crash

Spec == Init /\ [][Next]_vars

(* Every process that can go on does, and a job that is down is restarted. *)
Fairness ==
  /\ WF_vars(Driver)
  /\ WF_vars(WeightSync) /\ WF_vars(Update)
  /\ WF_vars(Generate) /\ WF_vars(Validate)
  /\ WF_vars(RewardTask)

FairSpec == Spec /\ Fairness

-----------------------------------------------------------------------------
(* Properties *)

Batches == [pos : 0..EpochLen, weights : Weights, scored : BOOLEAN,
            state : {"none", "drawn", "generating", "generated"}]

(* The variables keep their types. *)
TypeOK ==
  /\ pc \in {"down", "validate_first", "validating_first", "draw", "sync",
             "launch", "wait", "prepare", "reward", "update", "updating",
             "validate", "validating", "save", "advance", "finished", "ended"}
  /\ run \in 0..MaxRuns
  /\ opts \in Options
  /\ globalSteps \in 0..(MaxStep + 1)
  /\ pos \in 0..EpochLen /\ epoch \in 0..(TotalEpochs - 1)
  /\ future \in Batches /\ current \in Batches
  /\ order \in Orders /\ rewards \in Orders
  /\ actorQ \in Seq({"sync", "update"}) /\ Len(actorQ) <= 1
  /\ rolloutQ \in Seq({"sync", "generate", "validate"}) /\ Len(rolloutQ) <= 2
  /\ actor \in Weights /\ rollout \in Weights /\ measured \in Weights
  /\ point \in [done : 0..MaxStep, pos : 0..EpochLen, weights : Weights]

(* "generation and training parameters maintain a one-step off policy",     *)
(* README.md of the recipe: when a batch is trained on, the weights that    *)
(* generated it are the actor's or those before its last update, whatever   *)
(* the order in which the groups got there, and after every resume.         *)
AtMostOneStepOff ==
  pc \in {"reward", "update"} => current.weights \in {actor - 1, actor}

(* A validation inside the loop waits behind the generation in flight and   *)
(* measures weights at most one update older than those of its step; with   *)
(* no generation in flight, as at the last step, nothing was sent to the    *)
(* rollout group in this step, and they are at most two updates older.      *)
MeasuresRecentModel ==
  pc = "save" /\ MustTest =>
    /\ actor - measured \in 0..2
    /\ future # None => actor - measured \in 0..1

(* Each start finds the dataloader past a batch the model never saw: the    *)
(* batch of step g is the g-th of the data, or later by one per resume,     *)
(* and never an earlier one, which would be trained on twice.               *)
SkipsOnePerResume ==
  pc = "reward" => (current.pos - globalSteps) % EpochLen < run

(* A job that trained its last step has saved it, and one whose data ended  *)
(* early has lost less than one save interval.                              *)
StoppedIsSaved ==
  SaveFreq > 0 =>
    /\ pc = "finished" => point.done = globalSteps - 1
    /\ pc = "ended" => globalSteps - 1 - point.done < SaveFreq

(* No group waits for a broadcast the other never comes to, and no reader   *)
(* of a future waits for ever: with finitely many crashes the job stops.    *)
Stops == <>(pc \in {"finished", "ended"})

(* "This usually changes the order of data in the `batch`, which won't      *)
(* affect the advantage calculation", ray_trainer.py of the recipe. It does *)
(* when the rewards were launched with the generation: they are fetched     *)
(* after _balance_batch and keep the order of the generation. In that case  *)
(* every row that was moved is trained with the reward of another response; *)
(* in every other each row has the reward of its own.                       *)
RewardsFollowRows ==
  pc = "update" =>
    \A i \in Rows :
      rewards[i] # order[i] <=> opts.balance /\ opts.asyncReward /\ order[i] # i
=============================================================================
