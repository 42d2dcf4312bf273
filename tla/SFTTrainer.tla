------------------------------ MODULE SFTTrainer ------------------------------
(***************************************************************************)
(* Supervised fine-tuning on the engine API: SFTTrainer.fit with           *)
(* CheckpointHandler, as an SPMD job.  It has the constants and variables  *)
(* of FSDPSFTTrainer, its resume decision, its save decision and its       *)
(* tracker, and differs where it matters for a restart: every              *)
(* data-parallel rank saves its own dataloader state, rank 0 renames the   *)
(* tracker with no barrier after those files, and the step load_checkpoint *)
(* returns is not used.                                                    *)
(*                                                                         *)
(* With a sequence-parallel size of 1 every rank is a data-parallel rank:  *)
(* tail, dataPt's folders, pos and epoch are functions of the rank here.   *)
(***************************************************************************)
EXTENDS FSDPSFTTrainer

(* Batches are counted from the pretrained model; the step is not: it       *)
(* begins at 0 in every run.                                               *)
EngineStates == [run : 0..MaxRuns, batches : 0..(TotalSteps * MaxRuns)]

EM == INSTANCE FSDPCheckpointManager WITH States <- EngineStates

NoTail == [r \in Ranks |-> "none"]

EngineInit ==
  /\ EM!Init
  /\ dataPt = [s \in Steps |-> [r \in Ranks |-> Absent]]
  /\ tracker = NoTracker
  /\ pc = "down"
  /\ tail = NoTail
  /\ run = 0
  /\ globalStep = 0
  /\ model = [r \in Ranks |-> Pretrained]
  /\ pos = [r \in Ranks |-> 0]
  /\ epoch = [r \in Ranks |-> 0]
  /\ resumed = 0

-----------------------------------------------------------------------------
(* CheckpointHandler.load_checkpoint in mode "auto", and the start of fit *)

(* resume_global_step of the trainer: set to 0 and never again, whatever   *)
(* the handler has loaded.                                                 *)
EngineResumeStep == 0

EngineMayStart ==
  /\ pc \in {"down", "failed"}
  /\ run < MaxRuns
  /\ run' = run + 1
  /\ UNCHANGED <<managerVars, dataPt, tracker, tail>>

EnterFit ==
  /\ resumed' = EngineResumeStep
  /\ globalStep' = resumed'
  /\ epoch' = [r \in Ranks |-> StartEpoch(globalStep')]
  /\ pc' = "fetch"

EngineStartFromScratch ==
  /\ EngineMayStart
  /\ LatestCkpt = 0
  /\ EnterFit
  /\ model' = [r \in Ranks |-> Pretrained]
  /\ pos' = [r \in Ranks |-> 0]

(* A rank that finds no data file starts its dataloader from scratch.      *)
EngineStartFromCheckpoint ==
  /\ EngineMayStart
  /\ LatestCkpt # 0
  /\ EM!LoadYields(LatestCkpt)
  /\ \A r \in Ranks : dataPt[LatestCkpt][r] # Torn
  /\ EnterFit
  /\ model' = shard[LatestCkpt]
  /\ pos' = [r \in Ranks |-> IF dataPt[LatestCkpt][r] = Absent
                             THEN 0 ELSE dataPt[LatestCkpt][r]]

EngineStartFails ==
  /\ EngineMayStart
  /\ LatestCkpt # 0
  /\ \/ EM!LoadRaises(LatestCkpt)
     \/ \E r \in Ranks : dataPt[LatestCkpt][r] = Torn
  /\ pc' = "failed"
  /\ UNCHANGED <<globalStep, model, pos, epoch, resumed>>

-----------------------------------------------------------------------------
(* fit *)

InLoop(r) == epoch[r] < TotalEpochs

(* A rank that has loaded files of two saves trains what it has. *)
Trained(m) == IF m = Torn THEN Torn ELSE [run |-> run, batches |-> m.batches + 1]

EngineTrain ==
  /\ pc = "fetch"
  /\ \A r \in Ranks : InLoop(r) /\ pos[r] < EpochLen
  /\ pos' = [r \in Ranks |-> pos[r] + 1]
  /\ globalStep' = globalStep + 1
  /\ model' = [r \in Ranks |-> Trained(model[r])]
  /\ IF MustSave(globalStep')
     THEN pc' = "save" /\ EM!Call
     ELSE pc' = "fetch" /\ UNCHANGED managerVars
  /\ UNCHANGED <<dataPt, tracker, tail, run, epoch, resumed>>

(* The other ranks do not notice: the next training step is a collective.  *)
RankEndEpoch(r) ==
  /\ pc = "fetch"
  /\ InLoop(r)
  /\ pos[r] = EpochLen
  /\ pos' = [pos EXCEPT ![r] = 0]
  /\ epoch' = [epoch EXCEPT ![r] = @ + 1]
  /\ UNCHANGED <<managerVars, dataPt, tracker, pc, tail, run, globalStep, model, resumed>>

EngineEndLoop ==
  /\ pc = "fetch"
  /\ \A r \in Ranks : ~InLoop(r)
  /\ pc' = "ended"
  /\ UNCHANGED <<managerVars, dataPt, tracker, tail, loopVars>>

-----------------------------------------------------------------------------
(* CheckpointHandler.save_checkpoint *)

(* rmtree removes the data files too, before the folder itself goes. *)
RemoveDataOf(d, q) ==
  /\ dataPt[d][q] # Absent
  /\ dataPt' = [dataPt EXCEPT ![d][q] = Absent]
  /\ UNCHANGED managerVars

EngineRemoveFolder(d) ==
  /\ \A q \in Ranks : dataPt[d][q] = Absent
  /\ EM!RemoveDir(d)
  /\ UNCHANGED dataPt

EngineRemove(d) ==
  \/ \E q \in Ranks : RemoveDataOf(d, q)
  \/ EngineRemoveFolder(d)
  \/ UNCHANGED dataPt /\ (EM!RemoveFails(d) \/ \E q \in Ranks : EM!RemoveFile(d, q))

EngineRank(r) ==
  /\ Saving
  /\ \/ r = 0 /\ \E d \in doomed : EngineRemove(d)
     \/ /\ \/ r = 0 /\ (EM!Rotate \/ EM!SaveHf)
           \/ EM!Mkdir(r, globalStep)
           \/ EM!BeginWrite(r, globalStep)
           \/ EM!EndWrite(r, globalStep, model[r])
           \/ EM!Return(r, globalStep)
        /\ UNCHANGED dataPt
  /\ UNCHANGED <<tracker, pc, tail, loopVars>>

(* The barrier of the engine's save_checkpoint: the managers are through.  *)
EngineBarrier ==
  /\ Saving
  /\ tail = NoTail
  /\ EM!Collect
  /\ tail' = [r \in Ranks |-> "data"]
  /\ UNCHANGED <<dataPt, tracker, pc, loopVars>>

RankTailStep(r, from, to) ==
  /\ tail[r] = from
  /\ tail' = [tail EXCEPT ![r] = to]
  /\ UNCHANGED <<managerVars, pc, loopVars>>

RankBeginSaveData(r) ==
  /\ RankTailStep(r, "data", "saving_data")
  /\ dataPt' = [dataPt EXCEPT ![globalStep][r] = Torn]
  /\ UNCHANGED tracker

(* Mutant of RankEndSaveData: the position of the batch already prefetched. *)
RankEndSavePrefetched(r) ==
  /\ RankTailStep(r, "saving_data", IF r = 0 THEN "tmp_tracker" ELSE "barrier")
  /\ dataPt' = [dataPt EXCEPT ![globalStep][r] = (pos[r] % EpochLen) + 1]
  /\ UNCHANGED tracker

RankEndSaveData(r) ==
  /\ RankTailStep(r, "saving_data", IF r = 0 THEN "tmp_tracker" ELSE "barrier")
  /\ dataPt' = [dataPt EXCEPT ![globalStep][r] = pos[r]]
  /\ UNCHANGED tracker

EngineWriteTmpTracker ==
  /\ RankTailStep(0, "tmp_tracker", "rename")
  /\ UNCHANGED <<dataPt, tracker>>

(* Rank 0 does not know whether the other ranks have saved their data.     *)
EngineRename ==
  /\ RankTailStep(0, "rename", "barrier")
  /\ tracker' = globalStep
  /\ UNCHANGED dataPt

RankTail(r) ==
  \/ RankBeginSaveData(r) \/ RankEndSaveData(r)
  \/ r = 0 /\ (EngineWriteTmpTracker \/ EngineRename)

EngineSaved ==
  /\ \A r \in Ranks : tail[r] = "barrier"
  /\ tail' = NoTail
  /\ pc' = IF globalStep >= TotalSteps THEN "finished" ELSE "fetch"
  /\ UNCHANGED <<managerVars, dataPt, tracker, loopVars>>

-----------------------------------------------------------------------------
(* Any rank dies and torchrun takes the others down. *)
EngineCrash ==
  /\ Up
  /\ run < MaxRuns
  /\ pc' = "down"
  /\ tail' = NoTail
  /\ EM!Exit
  /\ model' = [r \in Ranks |-> Pretrained]
  /\ pos' = [r \in Ranks |-> 0]
  /\ UNCHANGED <<dataPt, tracker, run, globalStep, epoch, resumed>>

EngineNext ==
  \/ EngineStartFromScratch \/ EngineStartFromCheckpoint \/ EngineStartFails
  \/ EngineTrain \/ EngineEndLoop
  \/ \E r \in Ranks : RankEndEpoch(r) \/ EngineRank(r) \/ RankTail(r)
  \/ Barrier \/ EngineBarrier \/ EngineSaved
  \/ EngineCrash

EngineSpec == EngineInit /\ [][EngineNext]_vars

-----------------------------------------------------------------------------
(* The variables keep their types. *)
EngineTypeOK ==
  /\ EM!TypeOK
  /\ dataPt \in [Steps -> [Ranks -> (1..EpochLen) \cup {Absent, Torn}]]
  /\ tracker \in Steps \cup {NoTracker}
  /\ pc \in {"down", "failed", "fetch", "save", "finished", "ended"}
  /\ tail \in [Ranks -> Tails]
  /\ run \in 0..MaxRuns
  /\ globalStep \in 0..TotalSteps
  /\ model \in [Ranks -> EngineStates \cup {Torn}]
  /\ pos \in [Ranks -> 0..EpochLen]
  /\ epoch \in [Ranks -> 0..TotalEpochs]
  /\ resumed = EngineResumeStep

(* What rank 0 publishes: at the rename, the folder holds what every rank   *)
(* has in memory, and rank 0's own data file.  CheckpointHandler relies on  *)
(* the barriers of the manager and the engine for the other ranks' shards.  *)
PublishedIsCurrent ==
  [][EngineRename => /\ shard[globalStep] = model
                     /\ dataPt[globalStep][0] = pos[0]]_vars

(* As long as no start has resumed, the tracked folder keeps its shards:    *)
(* later saves go to other folders and rotation takes the oldest.           *)
FirstRunKeepsShards == run <= 1 /\ tracker \in Steps => EM!Uniform(tracker)

=============================================================================
