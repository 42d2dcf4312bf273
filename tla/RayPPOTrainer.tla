---------------------------- MODULE RayPPOTrainer ----------------------------
(***************************************************************************)
(* The driver of PPO training: RayPPOTrainer.fit with _save_checkpoint and *)
(* _load_checkpoint, the actor's and the critic's checkpoint managers, the *)
(* dataloader, and the crashes and restarts of the whole job.              *)
(*                                                                         *)
(* The job's memory is lost in a crash; the files of default_local_dir     *)
(* stay: the shards (A and C below), data.pt of every folder, and the      *)
(* tracker latest_checkpointed_iteration.txt.                              *)
(***************************************************************************)
EXTENDS Integers, Sequences, FiniteSets

CONSTANTS
  Ranks,            \* the ranks of the actor's and of the critic's group
  UseCritic,        \* use_critic
  MaxActorKeep,     \* max_actor_ckpt_to_keep, 0 for None
  MaxCriticKeep,    \* max_critic_ckpt_to_keep, 0 for None
  SaveHfModel,      \* "hf_model" among the save contents
  RemoveMayFail,    \* rmtree(ignore_errors=True) may leave files
  SaveFreq,         \* trainer.save_freq
  TotalSteps,       \* total_training_steps
  TotalEpochs,      \* trainer.total_epochs
  EpochLen,         \* len(train_dataloader)
  CriticWarmup,     \* trainer.critic_warmup
  EsiMayExpire,     \* should_save_ckpt_esi may answer True
  Modes,            \* the values resume_mode has in the job's starts
  RestartFinished,  \* a job that ended is started again
  MaxRuns,          \* BOUND: how often the job is started
  MaxStep,          \* BOUND: the last global step modelled
  Absent, Torn      \* see FSDPCheckpointManager

NoTracker == 0      \* the tracker file does not exist
EmptyTracker == -1  \* it was opened for writing and nothing is in it yet

Steps == 1..MaxStep

(* The actor's training state: who computed it last, and at which step.    *)
(* The critic is loaded and saved and its update is commented out.         *)
ActorStates == [run : 0..MaxRuns, step : 0..MaxStep]
Pretrained == [run |-> 0, step |-> 0]
CriticStates == {"critic"}

ASSUME TrainerAssumption ==
  /\ 0 \in Ranks
  /\ UseCritic \in BOOLEAN /\ SaveHfModel \in BOOLEAN
  /\ RemoveMayFail \in BOOLEAN /\ EsiMayExpire \in BOOLEAN
  /\ RestartFinished \in BOOLEAN
  /\ MaxActorKeep \in Nat /\ MaxCriticKeep \in Nat
  /\ SaveFreq \in Int /\ CriticWarmup \in Int
  /\ TotalSteps \in Nat \ {0} /\ TotalEpochs \in Nat \ {0}
  /\ EpochLen \in Nat \ {0}
  /\ Modes \subseteq {"auto", "disable", "resume_path"}
  /\ MaxRuns \in Nat /\ MaxStep \in Nat \ {0}
  /\ Absent \notin ActorStates \cup CriticStates \cup Int
  /\ Torn \notin ActorStates \cup CriticStates \cup Int
  /\ Absent # Torn

VARIABLES
  aShard, aDirs, aSaved, aDoomed, aPhase,   \* the actor's managers
  cShard, cDirs, cSaved, cDoomed, cPhase,   \* the critic's managers
  dataPt,       \* on disk: what each folder's data.pt holds
  tracker,      \* on disk: latest_checkpointed_iteration.txt
  pc,           \* where the driver is
  run,          \* which start of the job this is
  globalSteps,  \* global_steps
  actor,        \* the state each actor rank holds
  pos,          \* batches the dataloader has yielded in this pass
  epoch         \* the epoch loop's variable

A == INSTANCE FSDPCheckpointManager WITH
       States <- ActorStates, MaxKeep <- MaxActorKeep,
       shard <- aShard, dirs <- aDirs, saved <- aSaved,
       doomed <- aDoomed, phase <- aPhase

C == INSTANCE FSDPCheckpointManager WITH
       States <- CriticStates, MaxKeep <- MaxCriticKeep,
       shard <- cShard, dirs <- cDirs, saved <- cSaved,
       doomed <- cDoomed, phase <- cPhase

actorVars  == <<aShard, aDirs, aSaved, aDoomed, aPhase>>
criticVars == <<cShard, cDirs, cSaved, cDoomed, cPhase>>
loopVars   == <<run, globalSteps, actor, pos, epoch>>
vars == <<actorVars, criticVars, dataPt, tracker, pc, loopVars>>

DriverPcs == {"down", "failed", "fetch", "train", "save_actor", "save_critic",
              "save_data", "saving_data", "track", "tracking", "next",
              "finished", "ended"}

Goto(from, to) == pc = from /\ pc' = to

Init ==
  /\ A!Init
  /\ C!Init
  /\ dataPt = [s \in Steps |-> Absent]
  /\ tracker = NoTracker
  /\ pc = "down"
  /\ run = 0
  /\ globalSteps = 0
  /\ actor = [r \in Ranks |-> Pretrained]
  /\ pos = 0
  /\ epoch = 0

-----------------------------------------------------------------------------
(* Starting the job *)

FolderExists(s) == s \in aDirs \/ s \in cDirs \/ dataPt[s] # Absent

(* find_latest_ckpt_path: the folder the tracker names, if there is one.    *)
LatestCkpt == IF tracker \in Steps /\ FolderExists(tracker) THEN tracker ELSE 0

(* New processes: what an earlier start had in memory is gone.              *)
MayStart ==
  /\ pc \in {"down", "failed"} \cup (IF RestartFinished THEN {"finished", "ended"} ELSE {})
  /\ run < MaxRuns
  /\ run' = run + 1
  /\ epoch' = 0
  /\ A!Exit
  /\ C!Exit
  /\ UNCHANGED <<dataPt, tracker>>

(* Nothing to resume: the loop starts at step 1 with the pretrained model. *)
StartFromScratch(mode) ==
  /\ MayStart
  /\ \/ mode = "disable"
     \/ mode = "auto" /\ tracker # EmptyTracker /\ LatestCkpt = 0
  /\ actor' = [r \in Ranks |-> Pretrained]
  /\ pos' = 0
  /\ globalSteps' = 1
  /\ pc' = "fetch"

(* The folder a resume reads: the tracker's, or the one the user names.    *)
ResumeFolder(mode, s) ==
  \/ mode = "auto" /\ s = LatestCkpt
  \/ mode = "resume_path" /\ FolderExists(s)

(* A missing data.pt is a warning, and the dataloader starts from scratch. *)
StartFromCheckpoint(mode, s) ==
  /\ MayStart
  /\ tracker # EmptyTracker
  /\ ResumeFolder(mode, s)
  /\ A!LoadYields(s)
  /\ UseCritic => C!LoadYields(s)
  /\ dataPt[s] # Torn
  /\ actor' = aShard[s]
  /\ pos' = IF dataPt[s] = Absent THEN 0 ELSE dataPt[s]
  /\ globalSteps' = s + 1
  /\ s < MaxStep
  /\ pc' = "fetch"

(* int("") raises in every mode that looks for the latest checkpoint, and  *)
(* a file that is missing or cut short raises where it is read.            *)
StartFails(mode) ==
  /\ MayStart
  /\ mode # "disable"
  /\ \/ tracker = EmptyTracker
     \/ \E s \in Steps :
          /\ ResumeFolder(mode, s)
          /\ \/ A!LoadRaises(s)
             \/ UseCritic /\ C!LoadRaises(s)
             \/ dataPt[s] = Torn
  /\ pc' = "failed"
  /\ UNCHANGED <<globalSteps, actor, pos>>

Start == \E mode \in Modes : \/ StartFromScratch(mode)
                             \/ \E s \in Steps : StartFromCheckpoint(mode, s)
                             \/ StartFails(mode)

-----------------------------------------------------------------------------
(* The training loop *)

IsLastStep == globalSteps >= TotalSteps

(* Mutant of Fetch: a batch past the end of the data.                      *)
FetchPastEnd ==
  /\ Goto("fetch", "train")
  /\ pos <= EpochLen
  /\ pos' = pos + 1
  /\ UNCHANGED <<actorVars, criticVars, dataPt, tracker, run, globalSteps, actor, epoch>>

Fetch ==
  /\ Goto("fetch", "train")
  /\ pos < EpochLen
  /\ pos' = pos + 1
  /\ UNCHANGED <<actorVars, criticVars, dataPt, tracker, run, globalSteps, actor, epoch>>

AfterEpochShort == IF epoch + 2 < TotalEpochs THEN "fetch" ELSE "ended"  \* mutant
AfterEpoch == IF epoch + 1 < TotalEpochs THEN "fetch" ELSE "ended"

(* The dataloader raises StopIteration: the next epoch, or the loop's end, *)
(* which returns without the last step's save.                             *)
EndEpoch ==
  /\ pos = EpochLen
  /\ Goto("fetch", AfterEpoch)
  /\ pos' = 0
  /\ epoch' = epoch + 1
  /\ UNCHANGED <<actorVars, criticVars, dataPt, tracker, run, globalSteps, actor>>

(* Rollout, rewards and the actor's update, then the decision to save.     *)
MustSave(esi) ==
  SaveFreq > 0 /\ (IsLastStep \/ globalSteps % SaveFreq = 0 \/ esi)

Train ==
  /\ actor' = IF CriticWarmup <= globalSteps
              THEN [r \in Ranks |-> [run |-> run, step |-> globalSteps]]
              ELSE actor
  /\ \E esi \in {FALSE, EsiMayExpire} :
       IF MustSave(esi)
       THEN Goto("train", "save_actor") /\ A!Call
       ELSE Goto("train", "next") /\ UNCHANGED actorVars
  /\ UNCHANGED <<criticVars, dataPt, tracker, run, globalSteps, pos, epoch>>

NextStep ==
  /\ Goto("next", IF IsLastStep THEN "finished" ELSE "fetch")
  /\ globalSteps' = globalSteps + 1
  /\ globalSteps < MaxStep
  /\ UNCHANGED <<actorVars, criticVars, dataPt, tracker, run, actor, pos, epoch>>

-----------------------------------------------------------------------------
(* _save_checkpoint: actor, critic, dataloader, tracker, in this order *)

ActorRank(r) ==
  /\ pc = "save_actor"
  /\ A!RankStep(r, globalSteps, actor[r])
  /\ UNCHANGED <<criticVars, dataPt, tracker, pc, loopVars>>

ActorBarrier ==
  /\ pc = "save_actor"
  /\ A!BarrierStep
  /\ UNCHANGED <<criticVars, dataPt, tracker, pc, loopVars>>

ActorSaved ==
  /\ Goto("save_actor", IF UseCritic THEN "save_critic" ELSE "save_data")
  /\ A!Collect
  /\ IF UseCritic THEN C!Call ELSE UNCHANGED criticVars
  /\ UNCHANGED <<dataPt, tracker, loopVars>>

CriticRank(r) ==
  /\ pc = "save_critic"
  /\ C!RankStep(r, globalSteps, "critic")
  /\ UNCHANGED <<actorVars, dataPt, tracker, pc, loopVars>>

CriticBarrier ==
  /\ pc = "save_critic"
  /\ C!BarrierStep
  /\ UNCHANGED <<actorVars, dataPt, tracker, pc, loopVars>>

CriticSaved ==
  /\ Goto("save_critic", "save_data")
  /\ C!Collect
  /\ UNCHANGED <<actorVars, dataPt, tracker, loopVars>>

BeginSaveData ==
  /\ Goto("save_data", "saving_data")
  /\ dataPt' = [dataPt EXCEPT ![globalSteps] = Torn]
  /\ UNCHANGED <<actorVars, criticVars, tracker, loopVars>>

EndSaveData ==
  /\ Goto("saving_data", "track")
  /\ dataPt' = [dataPt EXCEPT ![globalSteps] = pos]
  /\ UNCHANGED <<actorVars, criticVars, tracker, loopVars>>

(* open(..., "w") empties the tracker; the number is there once the file   *)
(* is closed.                                                              *)
OpenTracker ==
  /\ Goto("track", "tracking")
  /\ tracker' = EmptyTracker
  /\ UNCHANGED <<actorVars, criticVars, dataPt, loopVars>>

(* Mutant of WriteTracker: the step before.                                *)
WriteOlderStep ==
  /\ Goto("tracking", "next")
  /\ tracker' = globalSteps - 1
  /\ UNCHANGED <<actorVars, criticVars, dataPt, loopVars>>

WriteTracker ==
  /\ Goto("tracking", "next")
  /\ tracker' = globalSteps
  /\ UNCHANGED <<actorVars, criticVars, dataPt, loopVars>>

-----------------------------------------------------------------------------
Up == pc \notin {"down", "failed", "finished", "ended"}

(* A worker or the driver dies: ray.get raises, and the job goes down.     *)
Crash ==
  /\ Up
  /\ run < MaxRuns
  /\ pc' = "down"
  /\ A!Exit
  /\ C!Exit
  /\ actor' = [r \in Ranks |-> Pretrained]
  /\ pos' = 0
  /\ UNCHANGED <<dataPt, tracker, run, globalSteps, epoch>>

Driver ==
  \/ Start \/ Fetch \/ EndEpoch \/ Train \/ NextStep
  \/ ActorSaved \/ CriticSaved
  \/ BeginSaveData \/ EndSaveData \/ OpenTracker \/ WriteTracker

Next ==
  \/ Driver
  \/ \E r \in Ranks : ActorRank(r) \/ CriticRank(r)
  \/ ActorBarrier \/ CriticBarrier
  \/ Crash

Spec == Init /\ [][Next]_vars

(* The driver and every worker process keep running unless they crash, a   *)
(* collective completes once all ranks entered it, and whoever runs the    *)
(* job restarts it when it is down.                                        *)
Fairness ==
  /\ WF_vars(Driver)
  /\ \A r \in Ranks : WF_vars(ActorRank(r)) /\ WF_vars(CriticRank(r))
  /\ WF_vars(ActorBarrier) /\ WF_vars(CriticBarrier)

FairSpec == Spec /\ Fairness

-----------------------------------------------------------------------------
(* What a restart would find *)

Restorable(s) ==
  /\ A!Complete(s)
  /\ UseCritic => C!Complete(s)
  /\ dataPt[s] # Torn

(* The steps whose batches the model and the dataloader have behind them.  *)
DoneSteps == IF pc = "fetch" THEN globalSteps - 1 ELSE globalSteps

JobState == [model |-> actor, done |-> DoneSteps, pos |-> pos]

FreshState == [model |-> [r \in Ranks |-> Pretrained], done |-> 0, pos |-> 0]
DownState == [FreshState EXCEPT !.done = -1]
UnreadableState == [FreshState EXCEPT !.done = -2]

DiskState ==
  IF tracker = NoTracker \/ (tracker \in Steps /\ LatestCkpt = 0) THEN FreshState
  ELSE IF tracker = EmptyTracker \/ ~Restorable(tracker) THEN UnreadableState
  ELSE [model |-> aShard[tracker], done |-> tracker,
        pos |-> IF dataPt[tracker] = Absent THEN 0 ELSE dataPt[tracker]]

RP == INSTANCE ResumePoint WITH
        Nothing <- FreshState, Down <- DownState, Unreadable <- UnreadableState,
        MayWithdraw <- TRUE,
        running <- IF Up THEN JobState ELSE DownState,
        point <- DiskState,
        withdrawn <- (tracker = EmptyTracker)

-----------------------------------------------------------------------------
(* Properties *)

(* The variables keep their types. *)
TypeOK ==
  /\ A!TypeOK /\ C!TypeOK
  /\ dataPt \in [Steps -> (1..EpochLen) \cup {Absent, Torn}]
  /\ tracker \in Steps \cup {NoTracker, EmptyTracker}
  /\ pc \in DriverPcs
  /\ run \in 0..MaxRuns
  /\ globalSteps \in 0..MaxStep
  /\ actor \in [Ranks -> ActorStates \cup {Torn}]
  /\ pos \in 0..EpochLen
  /\ epoch \in 0..TotalEpochs

(* Whatever the interleaving of the ranks, the removals and the crashes:    *)
(* the folder the tracker names holds a whole checkpoint, the same state on *)
(* every rank, the critic's shards and the dataloader's position with it.   *)
(* _save_checkpoint writes the tracker last so that this holds.             *)
TrackedIsWhole ==
  tracker \in Steps =>
    /\ A!Uniform(tracker)
    /\ UseCritic => C!Uniform(tracker)
    /\ dataPt[tracker] \in 1..EpochLen

(* The ranks of the actor never train on shards of two different saves.     *)
OneModel == Up => \A r, q \in Ranks : actor[r] = actor[q] /\ actor[r] # Torn

(* A job that returns from fit has saved its last step, and it returns only *)
(* from there: no resume runs out of epochs before total_training_steps.    *)
FinishedIsSaved ==
  pc \in {"finished", "ended"} => tracker = globalSteps - 1 /\ globalSteps > TotalSteps

(* Checkpointing keeps its promise: a restart continues from the state that *)
(* was published, and only a publication replaces or withdraws that state.  *)
ImplementsResumePoint == RP!Spec

(* With finitely many crashes the job finishes, unless one hits the window  *)
(* in which the tracker is empty.                                           *)
FinishesOrTrackerLost ==
  <>(pc = "finished" \/ (pc = "failed" /\ tracker = EmptyTracker))

=============================================================================
