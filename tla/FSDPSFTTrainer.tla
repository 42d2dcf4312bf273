---------------------------- MODULE FSDPSFTTrainer ----------------------------
(***************************************************************************)
(* Supervised fine-tuning as an SPMD job (torchrun): every rank runs       *)
(* FSDPSFTTrainer.fit, training steps are collectives, and there is no     *)
(* driver.  A checkpoint folder global_step_<s> is itself the manager's    *)
(* local_path, so that rotation removes data.pt with the shards; rank 0    *)
(* alone writes data.pt and then the tracker, by rename.                   *)
(***************************************************************************)
EXTENDS Integers, Sequences, FiniteSets

CONSTANTS
  Ranks,          \* the job's ranks
  MaxKeep,        \* max_ckpt_to_keep, 0 for None
  SaveHfModel,    \* "hf_model" among the save contents
  RemoveMayFail,  \* rmtree(ignore_errors=True) may leave files
  SaveFreq,       \* trainer.save_freq, which fit takes a remainder by
  TotalSteps,     \* total_training_steps
  TotalEpochs,    \* trainer.total_epochs
  EpochLen,       \* steps_per_epoch
  MaxRuns,        \* BOUND: how often the job is started
  Absent, Torn    \* see FSDPCheckpointManager

NoTracker == 0    \* the tracker file does not exist
Steps == 1..TotalSteps

(* Who trained the model last, and how many batches it has seen. *)
ModelStates == [run : 0..MaxRuns, batches : 0..TotalSteps]
Pretrained == [run |-> 0, batches |-> 0]

ASSUME SFTAssumption ==
  /\ 0 \in Ranks
  /\ SaveHfModel \in BOOLEAN /\ RemoveMayFail \in BOOLEAN
  /\ MaxKeep \in Nat /\ SaveFreq \in Int \ {0}
  /\ TotalSteps \in Nat \ {0} /\ TotalEpochs \in Nat \ {0}
  /\ EpochLen \in Nat \ {0} /\ MaxRuns \in Nat
  /\ Absent \notin ModelStates \cup Int
  /\ Torn \notin ModelStates \cup Int
  /\ Absent # Torn

VARIABLES
  shard, dirs, saved, doomed, phase,  \* the ranks' checkpoint managers
  dataPt,       \* on disk: data.pt of each folder
  tracker,      \* on disk: latest_checkpointed_iteration.txt
  pc,           \* where the job is
  tail,         \* what rank 0 does after the manager's save
  run,          \* which start of the job this is
  globalStep,   \* global_step
  model,        \* the state each rank holds
  pos,          \* batches the dataloader has yielded in this pass
  epoch,        \* the epoch loop's variable
  resumed       \* resume_global_step, the step this start resumed from

M == INSTANCE FSDPCheckpointManager WITH States <- ModelStates

managerVars == <<shard, dirs, saved, doomed, phase>>
loopVars == <<run, globalStep, model, pos, epoch, resumed>>
vars == <<managerVars, dataPt, tracker, pc, tail, loopVars>>

Tails == {"none", "data", "saving_data", "tmp_tracker", "rename", "barrier"}

Init ==
  /\ M!Init
  /\ dataPt = [s \in Steps |-> Absent]
  /\ tracker = NoTracker
  /\ pc = "down"
  /\ tail = "none"
  /\ run = 0
  /\ globalStep = 0
  /\ model = [r \in Ranks |-> Pretrained]
  /\ pos = 0
  /\ epoch = 0
  /\ resumed = 0

-----------------------------------------------------------------------------
(* _determine_resume_path in mode "auto", and load_checkpoint *)

LatestCkpt == IF tracker \in Steps /\ tracker \in dirs THEN tracker ELSE 0

ResumeGlobalStep == LatestCkpt

StartEpochUp(step) == (step + EpochLen - 1) \div EpochLen             \* mutant
StartEpoch(step) == step \div EpochLen
InEpoch(e) == IF e < TotalEpochs THEN "fetch" ELSE "ended"

MayStart ==
  /\ pc = "down"
  /\ run < MaxRuns
  /\ run' = run + 1
  /\ UNCHANGED <<managerVars, dataPt, tracker, tail>>

(* A tracker that names a missing folder is a message, not an error.       *)
StartFromScratch ==
  /\ MayStart
  /\ LatestCkpt = 0
  /\ globalStep' = 0
  /\ model' = [r \in Ranks |-> Pretrained]
  /\ pos' = 0
  /\ epoch' = 0
  /\ resumed' = 0
  /\ pc' = "fetch"

(* The epoch loop starts at the epoch the resumed step falls in, which at   *)
(* the end of an epoch is the next one, while the dataloader goes on where  *)
(* it was saved, at that end.  A shard that is missing or a data.pt cut     *)
(* short raises before anything is changed: such a start leaves the job     *)
(* down and the files as they are.                                          *)
StartFromCheckpoint ==
  /\ MayStart
  /\ LatestCkpt # 0
  /\ M!LoadYields(LatestCkpt)
  /\ dataPt[LatestCkpt] # Torn
  /\ resumed' = ResumeGlobalStep
  /\ globalStep' = resumed'
  /\ model' = shard[LatestCkpt]
  /\ pos' = IF dataPt[LatestCkpt] = Absent THEN 0 ELSE dataPt[LatestCkpt]
  /\ epoch' = StartEpoch(globalStep')
  /\ pc' = InEpoch(epoch')

-----------------------------------------------------------------------------
(* fit *)

MustSave(step) == step >= TotalSteps \/ (SaveFreq > 0 /\ step % SaveFreq = 0)

(* A training step is a collective: all ranks take it together. *)
Train ==
  /\ pc = "fetch"
  /\ pos < EpochLen
  /\ pos' = pos + 1
  /\ globalStep' = globalStep + 1
  /\ model' = [r \in Ranks |-> [run |-> run, batches |-> model[r].batches + 1]]
  /\ IF MustSave(globalStep')
     THEN pc' = "save" /\ M!Call
     ELSE pc' = "fetch" /\ UNCHANGED managerVars
  /\ UNCHANGED <<dataPt, tracker, tail, run, epoch, resumed>>

EndEpoch ==
  /\ pc = "fetch"
  /\ pos = EpochLen
  /\ pos' = 0
  /\ epoch' = epoch + 1
  /\ pc' = InEpoch(epoch')
  /\ UNCHANGED <<managerVars, dataPt, tracker, tail, run, globalStep, model, resumed>>

-----------------------------------------------------------------------------
(* save_checkpoint *)

Saving == pc = "save"

(* rmtree removes data.pt too, before the folder itself goes. *)
RemoveData(d) ==
  /\ d \in doomed
  /\ dataPt[d] # Absent
  /\ dataPt' = [dataPt EXCEPT ![d] = Absent]
  /\ UNCHANGED managerVars

RemoveFolder(d) ==
  /\ dataPt[d] = Absent
  /\ M!RemoveDir(d)
  /\ UNCHANGED dataPt

Remove(d) ==
  \/ RemoveData(d)
  \/ RemoveFolder(d)
  \/ UNCHANGED dataPt /\ (M!RemoveFails(d) \/ \E q \in Ranks : M!RemoveFile(d, q))

Rank(r) ==
  /\ Saving
  /\ \/ r = 0 /\ \E d \in doomed : Remove(d)
     \/ /\ \/ r = 0 /\ (M!Rotate \/ M!SaveHf)
           \/ M!Mkdir(r, globalStep)
           \/ M!BeginWrite(r, globalStep)
           \/ M!EndWrite(r, globalStep, model[r])
           \/ M!Return(r, globalStep)
        /\ UNCHANGED dataPt
  /\ UNCHANGED <<tracker, pc, tail, loopVars>>

Barrier ==
  /\ Saving
  /\ M!BarrierStep
  /\ UNCHANGED <<dataPt, tracker, pc, tail, loopVars>>

TailStep(from, to) ==
  /\ Saving
  /\ phase[0] = "returned"
  /\ tail = from
  /\ tail' = to
  /\ UNCHANGED <<managerVars, pc, loopVars>>

BeginSaveData ==
  /\ TailStep("none", "saving_data")
  /\ dataPt' = [dataPt EXCEPT ![globalStep] = Torn]
  /\ UNCHANGED tracker

EndSaveData ==
  /\ TailStep("saving_data", "tmp_tracker")
  /\ dataPt' = [dataPt EXCEPT ![globalStep] = pos]
  /\ UNCHANGED tracker

(* The number goes to a temporary file that nobody reads. *)
WriteTmpTracker ==
  /\ TailStep("tmp_tracker", "rename")
  /\ UNCHANGED <<dataPt, tracker>>

RenameTracker ==
  /\ TailStep("rename", "barrier")
  /\ tracker' = globalStep
  /\ UNCHANGED dataPt

(* The closing barrier of save_checkpoint, and the end of the step.        *)
Saved ==
  /\ Saving
  /\ tail = "barrier"
  /\ M!Collect
  /\ tail' = "none"
  /\ pc' = IF globalStep >= TotalSteps THEN "finished" ELSE "fetch"
  /\ UNCHANGED <<dataPt, tracker, loopVars>>

-----------------------------------------------------------------------------
Up == pc \in {"fetch", "save"}

(* Any rank dies and torchrun takes the others down. *)
Crash ==
  /\ Up
  /\ run < MaxRuns
  /\ pc' = "down"
  /\ tail' = "none"
  /\ M!Exit
  /\ model' = [r \in Ranks |-> Pretrained]
  /\ pos' = 0
  /\ resumed' = 0
  /\ UNCHANGED <<dataPt, tracker, run, globalStep, epoch>>

RankZeroTail == BeginSaveData \/ EndSaveData \/ WriteTmpTracker \/ RenameTracker

Next ==
  \/ StartFromScratch \/ StartFromCheckpoint
  \/ Train \/ EndEpoch
  \/ \E r \in Ranks : Rank(r)
  \/ Barrier \/ RankZeroTail \/ Saved
  \/ Crash

Spec == Init /\ [][Next]_vars

(* Running processes go on, collectives complete once all ranks are there, *)
(* and a job that is down is started again.                                *)
Fairness ==
  /\ WF_vars(StartFromScratch \/ StartFromCheckpoint)
  /\ WF_vars(Train \/ EndEpoch)
  /\ \A r \in Ranks : WF_vars(Rank(r))
  /\ WF_vars(Barrier) /\ WF_vars(RankZeroTail) /\ WF_vars(Saved)

FairSpec == Spec /\ Fairness

-----------------------------------------------------------------------------
JobState == [model |-> model, done |-> globalStep, pos |-> pos]
FreshState == [model |-> [r \in Ranks |-> Pretrained], done |-> 0, pos |-> 0]
DownState == [FreshState EXCEPT !.done = -1]
UnreadableState == [FreshState EXCEPT !.done = -2]

DiskState ==
  IF LatestCkpt = 0 THEN FreshState
  ELSE IF ~M!Complete(LatestCkpt) \/ dataPt[LatestCkpt] = Torn THEN UnreadableState
  ELSE [model |-> shard[LatestCkpt], done |-> LatestCkpt,
        pos |-> IF dataPt[LatestCkpt] = Absent THEN 0 ELSE dataPt[LatestCkpt]]

RP == INSTANCE ResumePoint WITH
        Nothing <- FreshState, Down <- DownState, Unreadable <- UnreadableState,
        MayWithdraw <- FALSE,
        running <- IF Up THEN JobState ELSE DownState,
        point <- DiskState,
        withdrawn <- FALSE

(* The variables keep their types. *)
TypeOK ==
  /\ M!TypeOK
  /\ dataPt \in [Steps -> (1..EpochLen) \cup {Absent, Torn}]
  /\ tracker \in Steps \cup {NoTracker}
  /\ pc \in {"down", "fetch", "save", "finished", "ended"}
  /\ tail \in Tails
  /\ run \in 0..MaxRuns
  /\ globalStep \in 0..TotalSteps
  /\ model \in [Ranks -> ModelStates]
  /\ pos \in 0..EpochLen
  /\ epoch \in 0..TotalEpochs
  /\ resumed \in 0..TotalSteps

(* A start after a crash never fails, and never starts over once a          *)
(* checkpoint was published: the atomic tracker's promise as a refinement.  *)
ImplementsResumePoint == RP!Spec

(* With finitely many crashes, the job ends. *)
Ends == <>(pc \in {"finished", "ended"})

(* max_ckpt_to_keep is the "Maximum number of checkpoints to keep"           *)
(* (sft_trainer.yaml), but rotation's list starts empty with each start of   *)
(* the job: what stays bounded is one quota per start, and one folder more   *)
(* while a save is under way or was cut short, which the next start writes   *)
(* over.  Between the saves of the first start that is the documented bound. *)
QuotaPerStart ==
  Cardinality(dirs) <= run * MaxKeep + (IF pc \in {"save", "down"} THEN 1 ELSE 0)

(* The comment in fit says the dataloader "will automatically resume from   *)
(* where it left off", and the epoch loop should agree with it.  It does    *)
(* not after a resume at the end of an epoch but the last: fit then returns *)
(* from the epoch loop one epoch short of the total, with what it has       *)
(* trained since the last save_freq lost.  In that case and no other: every *)
(* other job that ends has trained and saved its last step.                 *)
ResumedAtEpochEnd == resumed \in 1..(TotalSteps - 1) /\ resumed % EpochLen = 0
ShortOnlyFromEpochEnd ==
  pc \in {"finished", "ended"} =>
    IF ResumedAtEpochEnd
    THEN /\ pc = "ended"
         /\ globalStep = TotalSteps - EpochLen
         /\ tracker <= globalStep /\ \A s \in (tracker + 1)..globalStep : ~MustSave(s)
    ELSE globalStep = TotalSteps /\ tracker = TotalSteps
=============================================================================
