------------------------ MODULE FSDPSFTTrainer_proofs ------------------------
(***************************************************************************)
(* Proofs about FSDPSFTTrainer, for every number of ranks, steps, epochs   *)
(* and starts: the tracked folder is always whole, and the job implements  *)
(* ResumePoint, if more than one folder is kept; a job that ends has saved *)
(* its last step unless it resumed at the end of an epoch; the folders on  *)
(* the disk stay within one quota per start.  What the manager does inside a save is stated in                *)
(* TrainerRankSafe and TrainerBarrierSafe.  The next part is about the     *)
(* engine-based SFTTrainer, which resumes less carefully; the last shows   *)
(* that no save of either blocks in a barrier.                             *)
(***************************************************************************)
EXTENDS SFTTrainer, FiniteSetTheorems, TLAPS

(* With one folder kept, rotation takes the tracked one before the next is *)
(* written.  total_training_steps is what fit computes by default: with    *)
(* fewer steps than the epochs have, a job restarted after its last save   *)
(* trains beyond them.                                                     *)
SafeConfiguration ==
  /\ MaxKeep # 1
  /\ TotalSteps = TotalEpochs * EpochLen

-----------------------------------------------------------------------------
(* The inductive invariant, part by part *)

(* The folder the tracker names can be resumed from, and its shards have    *)
(* seen as many batches as its name says.                                   *)
TrackedIsWhole ==
  tracker \in Steps =>
    /\ tracker \in dirs
    /\ M!Uniform(tracker)
    /\ dataPt[tracker] \in 1..EpochLen
    /\ \A r \in Ranks : shard[tracker][r].batches = tracker

(* All ranks hold one state, which has seen global_step batches.            *)
OneModel ==
  Up => \A r, q \in Ranks : model[r] = model[q] /\ model[r].batches = globalStep

Looping ==
  /\ Up => epoch < TotalEpochs
  /\ pc = "fetch" => globalStep < TotalSteps /\ tracker <= globalStep
  /\ pc = "save" => globalStep >= 1 /\ pos >= 1

(* Outside a save the managers are idle, and a new process remembers nothing. *)
Resting ==
  /\ pc # "save" => M!Idle /\ doomed = {} /\ tail = "none"
  /\ pc = "down" => saved = << >>

(* What rank 0 remembers between saves: the tracked folder only as the last. *)
Memory ==
  pc = "fetch" => /\ \A i \in 1..Len(saved) : saved[i] <= globalStep
                  /\ \A i \in 1..(Len(saved) - 1) : saved[i] # tracker

(* The folder a save must not endanger: the tracked one, until the rename   *)
(* makes that the folder just written.                                      *)
Guarded == IF tail = "barrier" THEN NoTracker ELSE tracker

(* The ranks pass the dump barrier together.                                *)
Dumped == {"hf", "hf_wait", "append", "returned"}
DumpTogether == \A r, q \in Ranks : phase[r] \in Dumped => phase[q] \in Dumped

BeforeMkdir == {"idle", "rotate", "remove", "mkdir"}

InSave ==
  /\ M!SaveInv(globalStep, Guarded, model)
  /\ IF tail = "barrier" THEN tracker = globalStep ELSE tracker < globalStep
  /\ tail # "none" => phase[0] = "returned"
  /\ tail \in {"tmp_tracker", "rename", "barrier"} => dataPt[globalStep] = pos
  /\ DumpTogether
  /\ phase[0] \notin BeforeMkdir => globalStep \in dirs

IInv ==
  /\ TypeOK
  /\ TrackedIsWhole
  /\ OneModel
  /\ Looping
  /\ Resting
  /\ Memory
  /\ pc = "save" => InSave

-----------------------------------------------------------------------------
LEMMA ConstantFacts ==
  /\ 0 \in Ranks /\ MaxKeep \in Nat
  /\ Steps \subseteq Nat /\ Steps \subseteq Int /\ 0 \notin Steps
  /\ TotalSteps \in Nat \ {0} /\ TotalEpochs \in Nat \ {0} /\ EpochLen \in Nat \ {0}
  /\ MaxRuns \in Nat
  /\ Absent \notin ModelStates /\ Torn \notin ModelStates
  /\ Absent \notin Int /\ Torn \notin Int /\ Absent # Torn
  /\ Pretrained \in ModelStates /\ Pretrained.batches = 0
BY SFTAssumption DEF Steps, ModelStates, Pretrained

(* What rank 0 remembers are steps, hence numbers.                          *)
LEMMA RememberedAreNat ==
  ASSUME NEW mem \in Seq(Steps), NEW i \in 1..Len(mem)
  PROVE  mem[i] \in Nat
<1>1. mem[i] \in Steps
  OBVIOUS
<1> QED BY <1>1, ConstantFacts

(* The epoch a step falls in: the last step falls behind the last epoch.    *)
LEMMA EpochOf ==
  ASSUME SafeConfiguration, NEW s \in 0..TotalSteps
  PROVE  /\ s \div EpochLen \in 0..TotalEpochs
         /\ s = TotalSteps => s \div EpochLen = TotalEpochs
<1> DEFINE q == s \div EpochLen
           m == s % EpochLen
<1>1. /\ q \in Int /\ m \in 0..(EpochLen - 1) /\ s = EpochLen * q + m
      /\ s \in Nat /\ EpochLen \in Nat \ {0} /\ TotalEpochs \in Nat
      /\ s <= TotalEpochs * EpochLen
  BY ConstantFacts DEF SafeConfiguration
<1> HIDE DEF q, m
<1>2. q >= 0
  <2> SUFFICES ASSUME q <= -1 PROVE FALSE
    BY <1>1
  <2>1. EpochLen * q <= EpochLen * (-1)
    BY ONLY <1>1, q <= -1
  <2> QED BY <1>1, <2>1
<1>3. q <= TotalEpochs
  <2> SUFFICES ASSUME q >= TotalEpochs + 1 PROVE FALSE
    BY <1>1
  <2>1. EpochLen * q >= EpochLen * (TotalEpochs + 1)
    BY ONLY <1>1, q >= TotalEpochs + 1
  <2>2. EpochLen * (TotalEpochs + 1) = TotalEpochs * EpochLen + EpochLen
    BY ONLY <1>1
  <2> QED BY <1>1, <2>1, <2>2
<1>4. s = TotalSteps => q = TotalEpochs
  <2> SUFFICES ASSUME s = TotalEpochs * EpochLen, q <= TotalEpochs - 1 PROVE FALSE
    BY <1>1, <1>3 DEF SafeConfiguration
  <2>1. EpochLen * q <= EpochLen * (TotalEpochs - 1)
    BY ONLY <1>1, q <= TotalEpochs - 1
  <2>2. EpochLen * (TotalEpochs - 1) = TotalEpochs * EpochLen - EpochLen
    BY ONLY <1>1
  <2> QED BY <1>1, <2>1, <2>2
<1> QED BY <1>1, <1>2, <1>3, <1>4 DEF q

LEMMA InitIInv == Init => IInv
<1> SUFFICES ASSUME Init PROVE IInv
  OBVIOUS
<1> USE SFTAssumption, ConstantFacts DEF Init
<1>1. M!TypeOK /\ M!Idle
  BY DEF M!Init, M!TypeOK, M!Idle, M!Phases, M!Contents
<1>2. TypeOK
  BY <1>1 DEF TypeOK, NoTracker, Tails
<1> QED
  BY <1>1, <1>2
  DEF IInv, TrackedIsWhole, OneModel, Looping, Resting, Memory, Up, NoTracker, M!Init

(* The tracked folder exists, so that every start finds it.                 *)
LEMMA TrackedIsFound ==
  ASSUME IInv
  PROVE  LatestCkpt = tracker
BY ConstantFacts DEF IInv, TypeOK, TrackedIsWhole, LatestCkpt, NoTracker

(* The folder the tracker names is whole in the next state when its shards *)
(* and its data.pt are untouched.                                          *)
LEMMA TrackedStays ==
  ASSUME IInv, tracker' = tracker,
         tracker \in Steps => /\ tracker \in dirs'
                              /\ shard'[tracker] = shard[tracker]
                              /\ dataPt'[tracker] = dataPt[tracker]
  PROVE  TrackedIsWhole'
BY DEF IInv, TrackedIsWhole, M!Uniform, M!Complete

LEMMA ManagerUnchanged ==
  ASSUME IInv, UNCHANGED managerVars
  PROVE  /\ UNCHANGED <<shard, dirs, saved, doomed, phase>>
         /\ M!TypeOK'
         /\ M!Idle => M!Idle'
BY DEF IInv, TypeOK, managerVars, M!TypeOK, M!Idle

(* A start reads the tracked folder, or begins afresh.                      *)
LEMMA StartIInv ==
  ASSUME IInv, SafeConfiguration, StartFromScratch \/ StartFromCheckpoint
  PROVE  IInv'
<1> USE SFTAssumption, ConstantFacts
<1>1. /\ pc = "down" /\ pc' \in {"fetch", "ended"} /\ run' \in 0..MaxRuns
      /\ UNCHANGED <<managerVars, dataPt, tracker, tail>>
  BY DEF StartFromScratch, StartFromCheckpoint, MayStart, InEpoch, IInv, TypeOK
<1>2. /\ UNCHANGED <<shard, dirs, saved, doomed, phase>> /\ M!TypeOK'
      /\ saved = << >> /\ M!Idle' /\ doomed = {} /\ tail = "none"
  BY <1>1, ManagerUnchanged DEF IInv, Resting
<1>3. TrackedIsWhole'
  BY <1>1, <1>2, TrackedStays DEF IInv, TrackedIsWhole
<1>4. tracker \in 0..TotalSteps /\ tracker \in Int
  BY DEF IInv, TypeOK, Steps, NoTracker
<1>5. /\ model' \in [Ranks -> ModelStates]
      /\ \A r, q \in Ranks : model'[r] = model'[q] /\ model'[r].batches = globalStep'
      /\ globalStep' = tracker /\ pos' \in 0..EpochLen
      /\ epoch' \in 0..TotalEpochs /\ resumed' = tracker
      /\ pc' = "fetch" => epoch' < TotalEpochs /\ globalStep' < TotalSteps
  <2>1. CASE StartFromScratch
    <3>1. tracker = 0
      BY <2>1, TrackedIsFound DEF StartFromScratch
    <3> QED BY <2>1, <3>1 DEF StartFromScratch
  <2>2. CASE StartFromCheckpoint
    <3>1. /\ tracker \in Steps /\ globalStep' = tracker /\ model' = shard[tracker]
          /\ resumed' = tracker
          /\ pos' = IF dataPt[tracker] = Absent THEN 0 ELSE dataPt[tracker]
          /\ epoch' = tracker \div EpochLen
          /\ pc' = "fetch" => epoch' < TotalEpochs
      BY <2>2, TrackedIsFound
      DEF StartFromCheckpoint, ResumeGlobalStep, StartEpoch, InEpoch, IInv, TypeOK, NoTracker
    <3>2. /\ shard[tracker] \in [Ranks -> ModelStates]
          /\ \A r, q \in Ranks : shard[tracker][r] = shard[tracker][q]
                                /\ shard[tracker][r].batches = tracker
          /\ dataPt[tracker] \in 1..EpochLen
      BY <3>1 DEF IInv, TypeOK, TrackedIsWhole, M!Uniform, M!Complete, M!TypeOK
    <3>3. /\ tracker \div EpochLen \in 0..TotalEpochs
          /\ tracker = TotalSteps => tracker \div EpochLen = TotalEpochs
      BY <1>4, EpochOf
    <3>4. pc' = "fetch" => tracker < TotalSteps
      BY <1>4, <3>1, <3>3
    <3> QED BY <3>1, <3>2, <3>3, <3>4
  <2> QED BY <2>1, <2>2
<1>6. TypeOK'
  BY <1>1, <1>2, <1>4, <1>5 DEF IInv, TypeOK
<1>7. (/\ OneModel /\ Looping /\ Resting /\ Memory)'
  BY <1>1, <1>2, <1>4, <1>5 DEF OneModel, Looping, Resting, Memory, Up
<1> QED BY <1>1, <1>3, <1>6, <1>7 DEF IInv

(* A step of training, and the call of the managers when it is to be saved. *)
LEMMA TrainIInv ==
  ASSUME IInv, Train
  PROVE  IInv'
<1> USE SFTAssumption, ConstantFacts
<1>1. /\ pc = "fetch" /\ pos < EpochLen /\ pos' = pos + 1
      /\ globalStep' = globalStep + 1
      /\ \/ pc' = "save" /\ M!Call
         \/ pc' = "fetch" /\ UNCHANGED managerVars /\ ~MustSave(globalStep')
      /\ UNCHANGED <<dataPt, tracker, tail, run, epoch, resumed>>
  BY DEF Train
<1>2. /\ globalStep \in Nat /\ globalStep < TotalSteps /\ tracker \in Nat
      /\ tracker <= globalStep /\ pos \in Nat /\ epoch < TotalEpochs
      /\ M!Idle /\ doomed = {} /\ tail = "none" /\ M!TypeOK
  BY <1>1 DEF IInv, TypeOK, Looping, Resting, Up, NoTracker
<1>3. /\ UNCHANGED <<shard, dirs, saved, doomed>> /\ M!TypeOK'
      /\ pc' = "fetch" => M!Idle'
      /\ pc' = "save" => \A r \in Ranks : phase'[r] \in {"rotate", "mkdir"}
  <2>1. CASE pc' = "save" /\ M!Call
    BY <1>2, <2>1 DEF M!Call, M!TypeOK, M!Phases
  <2>2. CASE pc' = "fetch" /\ UNCHANGED managerVars
    BY <1>2, <2>2, ManagerUnchanged
  <2> QED BY <1>1, <2>1, <2>2
<1>4. /\ model' \in [Ranks -> ModelStates]
      /\ \A r, q \in Ranks : model'[r] = model'[q] /\ model'[r].batches = globalStep'
  <2>1. \A r \in Ranks : model[r].batches = globalStep
    BY <1>1 DEF IInv, OneModel, Up
  <2>2. model' = [r \in Ranks |-> [run |-> run, batches |-> globalStep + 1]]
    BY <2>1 DEF Train
  <2>3. [run |-> run, batches |-> globalStep + 1] \in ModelStates
    BY <1>2 DEF ModelStates, IInv, TypeOK
  <2> QED BY <1>1, <2>2, <2>3
<1>5. pc' = "fetch" => globalStep' < TotalSteps
  BY <1>1, <1>2 DEF MustSave
<1>6. TypeOK'
  BY <1>1, <1>2, <1>3, <1>4 DEF IInv, TypeOK
<1>7. TrackedIsWhole'
  BY <1>1, <1>3, TrackedStays DEF IInv, TrackedIsWhole
<1>8. (/\ OneModel /\ Looping /\ Resting)'
  BY <1>1, <1>2, <1>3, <1>4, <1>5 DEF OneModel, Looping, Resting, Up
<1>9. /\ \A i \in 1..Len(saved) : saved[i] < globalStep'
      /\ \A i \in 1..(Len(saved) - 1) : saved[i] # tracker
  <2>1. /\ \A i \in 1..Len(saved) : saved[i] <= globalStep
        /\ \A i \in 1..(Len(saved) - 1) : saved[i] # tracker
    BY <1>1 DEF IInv, Memory
  <2>2. \A i \in 1..Len(saved) : saved[i] \in Nat
    BY <1>2, RememberedAreNat DEF M!TypeOK
  <2> QED BY <1>1, <1>2, <2>1, <2>2
<1>10. Memory'
  <2>1. \A i \in 1..Len(saved) : saved[i] <= globalStep'
    <3>1. \A i \in 1..Len(saved) : saved[i] \in Nat
      BY <1>2, RememberedAreNat DEF M!TypeOK
    <3> QED BY <1>1, <1>2, <1>9, <3>1
  <2> QED BY <1>1, <1>3, <1>9, <2>1 DEF Memory
<1>11. pc' = "save" => InSave'
  <2> SUFFICES ASSUME pc' = "save" PROVE InSave'
    OBVIOUS
  <2>1. M!SaveInv(globalStep, Guarded, model)'
    BY <1>1, <1>2, <1>3, <1>9
    DEF M!SaveInv, M!PastWrite, M!RemembersOlder, Guarded
  <2>2. DumpTogether' /\ phase'[0] \in BeforeMkdir
    BY <1>3 DEF DumpTogether, Dumped, BeforeMkdir
  <2> QED BY <1>1, <1>2, <2>1, <2>2 DEF InSave
<1> QED BY <1>6, <1>7, <1>8, <1>10, <1>11 DEF IInv

LEMMA EndEpochIInv ==
  ASSUME IInv, EndEpoch
  PROVE  IInv'
<1> USE SFTAssumption, ConstantFacts
<1>1. /\ pc = "fetch" /\ pc' \in {"fetch", "ended"}
      /\ pos' = 0 /\ epoch' = epoch + 1 /\ (pc' = "fetch" => epoch' < TotalEpochs)
      /\ UNCHANGED <<managerVars, dataPt, tracker, tail, run, globalStep, model, resumed>>
  BY DEF EndEpoch, InEpoch
<1>2. UNCHANGED <<shard, dirs, saved, doomed, phase>> /\ M!TypeOK' /\ (M!Idle => M!Idle')
  BY <1>1, ManagerUnchanged
<1>3. TypeOK'
  BY <1>1, <1>2 DEF IInv, TypeOK, Looping, Up
<1>4. TrackedIsWhole'
  BY <1>1, <1>2, TrackedStays DEF IInv, TrackedIsWhole
<1> QED
  BY <1>1, <1>2, <1>3, <1>4 DEF IInv, OneModel, Looping, Resting, Memory, Up

-----------------------------------------------------------------------------
(* save_checkpoint *)

(* What the managers' lemmas need to know of a save under way.              *)
LEMMA SaveFacts ==
  ASSUME IInv, pc = "save"
  PROVE  /\ globalStep \in Steps /\ Guarded \in Int /\ Guarded # globalStep
         /\ tracker \in Nat /\ model \in [Ranks -> ModelStates]
         /\ M!SaveInv(globalStep, Guarded, model)
         /\ tail # "barrier" => Guarded = tracker /\ tracker < globalStep
         /\ tail = "barrier" => /\ tracker = globalStep
                                /\ phase[0] = "returned" /\ doomed = {}
BY ConstantFacts
DEF IInv, TypeOK, Looping, InSave, Guarded, NoTracker, Steps, M!SaveInv

(* Rotation: rank 0 forgets the oldest k folders it remembers.              *)
LEMMA OldestForgotten ==
  ASSUME NEW S, S \subseteq Nat, NEW s \in Seq(S), NEW k \in 1..Len(s), NEW step, NEW tracked,
         \A i \in 1..Len(s) : s[i] < step,
         \A i \in 1..(Len(s) - 1) : s[i] # tracked,
         k < Len(s) \/ tracked \notin S
  PROVE  LET t == SubSeq(s, k + 1, Len(s))
         IN  /\ t \in Seq(S)
             /\ \A i \in 1..Len(t) : t[i] < step
             /\ \A i \in 1..(Len(t) - 1) : t[i] # tracked
             /\ \A i \in 1..k : s[i] \in S /\ s[i] < step /\ s[i] # tracked
<1> DEFINE t == SubSeq(s, k + 1, Len(s))
<1>1. t \in Seq(S) /\ Len(t) = Len(s) - k /\ \A i \in 1..Len(t) : t[i] = s[i + k]
  OBVIOUS
<1> HIDE DEF t
<1>2. \A i \in 1..Len(t) : t[i] < step
  BY <1>1
<1>3. \A i \in 1..(Len(t) - 1) : t[i] # tracked
  <2> SUFFICES ASSUME NEW i \in 1..(Len(t) - 1) PROVE t[i] # tracked
    OBVIOUS
  <2>1. i + k \in 1..(Len(s) - 1) /\ i \in 1..Len(t)
    BY <1>1
  <2> QED BY <1>1, <2>1
<1>4. \A i \in 1..k : s[i] \in S /\ s[i] < step /\ s[i] # tracked
  OBVIOUS
<1> QED BY <1>1, <1>2, <1>3, <1>4 DEF t

(* No step of any rank inside the trainer's save breaks SaveInv or touches *)
(* the tracked folder, when more than one folder is kept or none is        *)
(* tracked.                                                                *)
LEMMA TrainerRankSafe ==
  ASSUME 0 \in Ranks, Steps \subseteq Nat, MaxKeep \in Nat,
         NEW step \in Steps, NEW tracked \in Int, tracked # step,
         MaxKeep # 1 \/ tracked \notin Steps,
         NEW state \in [Ranks -> ModelStates \cup {Torn}], NEW r \in Ranks,
         M!SaveInv(step, tracked, state), M!RankStep(r, step, state[r])
  PROVE  /\ M!SaveInv(step, tracked, state)'
         /\ tracked \in Steps => shard'[tracked] = shard[tracked]
         /\ tracked \in dirs => tracked \in dirs'
<1> USE DEF M!SaveInv, M!TypeOK, M!RemembersOlder, M!Move, M!Phases, M!PastWrite,
            M!Contents
<1>1. CASE r = 0 /\ M!Rotate
  <2>1. CASE MaxKeep > 0 /\ Len(saved) >= MaxKeep
    <3> DEFINE k == M!KeepStart
               t == SubSeq(saved, k + 1, Len(saved))
    <3>1. k \in 1..Len(saved) /\ (k < Len(saved) \/ tracked \notin Steps)
      BY <2>1 DEF M!KeepStart
    <3>2. /\ saved' = t
          /\ doomed' = {saved[i] : i \in 1..k} \cap dirs
          /\ phase' = [phase EXCEPT ![0] = "remove"] /\ phase[0] = "rotate"
          /\ UNCHANGED <<shard, dirs>>
      BY <1>1, <2>1 DEF M!Rotate
    <3>3. /\ saved \in Seq(Steps) /\ \A i \in 1..Len(saved) : saved[i] < step
          /\ \A i \in 1..(Len(saved) - 1) : saved[i] # tracked
      BY <3>2
    <3> HIDE DEF k
    <3>4. /\ t \in Seq(Steps)
          /\ \A i \in 1..Len(t) : t[i] < step
          /\ \A i \in 1..(Len(t) - 1) : t[i] # tracked
          /\ \A i \in 1..k : saved[i] \in Steps /\ saved[i] < step /\ saved[i] # tracked
      BY <3>1, <3>3, OldestForgotten
    <3> HIDE DEF t
    <3> QED BY <3>2, <3>4
  <2>2. CASE ~(MaxKeep > 0 /\ Len(saved) >= MaxKeep)
    BY <1>1, <2>2 DEF M!Rotate
  <2> QED BY <2>1, <2>2
<1>2. CASE r = 0 /\ \E d \in doomed, q \in Ranks : M!RemoveFile(d, q)
  BY <1>2 DEF M!RemoveFile
<1>3. CASE r = 0 /\ \E d \in doomed : M!RemoveDir(d) \/ M!RemoveFails(d)
  BY <1>3 DEF M!RemoveDir, M!RemoveFails
<1>4. CASE M!Mkdir(r, step)
  BY <1>4 DEF M!Mkdir
<1>5. CASE M!BeginWrite(r, step)
  BY <1>5 DEF M!BeginWrite
<1>6. CASE M!EndWrite(r, step, state[r])
  BY <1>6 DEF M!EndWrite
<1>7. CASE r = 0 /\ M!SaveHf
  BY <1>7 DEF M!SaveHf
<1>8. CASE M!Return(r, step)
  <2>1. CASE r = 0
    <3>1. /\ saved' = Append(saved, step) /\ saved' \in Seq(Steps)
          /\ Len(saved') = Len(saved) + 1 /\ saved'[Len(saved')] = step
          /\ \A i \in 1..Len(saved) : saved'[i] = saved[i]
      BY <1>8, <2>1 DEF M!Return
    <3>2. /\ phase[0] = "append" /\ UNCHANGED <<shard, dirs, doomed>>
          /\ phase' = [phase EXCEPT ![0] = "returned"]
      BY <1>8, <2>1 DEF M!Return
    <3>3. phase'[0] = "returned"
      BY <3>2
    <3>4. M!RemembersOlder(step)'
      BY <3>1, <3>2, <3>3
    <3> QED BY <3>1, <3>2, <3>3, <3>4
  <2>2. CASE r # 0
    BY <1>8, <2>2 DEF M!Return
  <2> QED BY <2>1, <2>2
<1> QED BY <1>1, <1>2, <1>3, <1>4, <1>5, <1>6, <1>7, <1>8 DEF M!RankStep

(* Nor does a barrier of its ranks.                                        *)
LEMMA TrainerBarrierSafe ==
  ASSUME 0 \in Ranks, NEW step \in Steps, NEW tracked \in Int,
         NEW state \in [Ranks -> ModelStates \cup {Torn}],
         M!SaveInv(step, tracked, state), M!BarrierStep
  PROVE  M!SaveInv(step, tracked, state)' /\ UNCHANGED <<shard, dirs>>
<1> USE DEF M!SaveInv, M!TypeOK, M!RemembersOlder, M!Barrier, M!Phases, M!PastWrite
<1>1. CASE M!EnterBarrier  BY <1>1 DEF M!EnterBarrier
<1>2. CASE M!DumpBarrier   BY <1>2 DEF M!DumpBarrier
<1>3. CASE M!HfBarrier     BY <1>3 DEF M!HfBarrier
<1> QED BY <1>1, <1>2, <1>3 DEF M!BarrierStep

(* No step of a rank, and no barrier, touches the tracked folder, be it the *)
(* one before or, after the rename, the one just written.                   *)
LEMMA RankKeeps ==
  ASSUME IInv, SafeConfiguration, Barrier \/ \E r \in Ranks : Rank(r)
  PROVE  /\ pc = "save"
         /\ UNCHANGED <<tracker, pc, tail, run, globalStep, model, pos, epoch, resumed>>
         /\ M!SaveInv(globalStep, Guarded, model)'
         /\ tracker \in Steps => /\ tracker \in dirs'
                                 /\ shard'[tracker] = shard[tracker]
                                 /\ dataPt'[tracker] = dataPt[tracker]
         /\ dataPt'[globalStep] = dataPt[globalStep]
         /\ dataPt' \in [Steps -> (1..EpochLen) \cup {Absent, Torn}]
<1> USE SFTAssumption, ConstantFacts
<1>1. /\ pc = "save"
      /\ UNCHANGED <<tracker, pc, tail, run, globalStep, model, pos, epoch, resumed>>
  BY DEF Barrier, Rank, Saving, loopVars
<1>2. PICK g, t, st : g = globalStep /\ t = Guarded /\ st = model
  OBVIOUS
<1>3. /\ g \in Steps /\ t \in Int /\ t # g /\ st \in [Ranks -> ModelStates]
      /\ M!SaveInv(g, t, st)
  BY <1>1, <1>2, SaveFacts
<1>4. /\ dataPt \in [Steps -> (1..EpochLen) \cup {Absent, Torn}]
      /\ tracker \in Steps => tracker \in dirs
  BY DEF IInv, TypeOK, TrackedIsWhole
<1>5. UNCHANGED Guarded
  BY <1>1 DEF Guarded
<1>6. CASE Barrier
  <2>1. M!BarrierStep /\ dataPt' = dataPt
    BY <1>6 DEF Barrier
  <2>2. M!SaveInv(g, t, st)' /\ UNCHANGED <<shard, dirs>>
    BY <1>3, <2>1, TrainerBarrierSafe
  <2>3. M!SaveInv(globalStep, Guarded, model)'
    BY <1>1, <1>2, <1>5, <2>2 DEF M!SaveInv
  <2> QED BY <1>1, <1>4, <2>1, <2>2, <2>3
<1>7. CASE \E r \in Ranks : Rank(r)
  <2>1. PICK r \in Ranks : Rank(r)
    BY <1>7
  <2>2. CASE \E d \in doomed : RemoveData(d)
    <3>1. PICK d \in doomed : RemoveData(d)
      BY <2>2
    <3>2. /\ dataPt' = [dataPt EXCEPT ![d] = Absent]
          /\ UNCHANGED <<shard, dirs, saved, doomed, phase>>
      BY <3>1 DEF RemoveData, managerVars
    <3>3. d # g /\ d # tracker
      <4>1. d \in Nat /\ d < g /\ d # Guarded
        BY <1>2, <1>3, <3>1 DEF M!SaveInv, M!TypeOK
      <4>2. Guarded = tracker /\ g \in Nat
        BY <1>1, <1>3, <3>1, SaveFacts
      <4> QED BY <4>1, <4>2
    <3>4. M!SaveInv(globalStep, Guarded, model)'
      BY <1>1, <1>2, <1>3, <1>5, <3>2 DEF M!SaveInv, M!TypeOK, M!RemembersOlder
    <3> QED BY <1>1, <1>2, <1>3, <1>4, <3>2, <3>3, <3>4
  <2>3. CASE M!RankStep(r, globalStep, model[r]) /\ dataPt' = dataPt
    <3>1. /\ M!SaveInv(g, t, st)'
          /\ t \in Steps => shard'[t] = shard[t]
          /\ t \in dirs => t \in dirs'
      <4>1. M!RankStep(r, g, st[r])
        BY <1>2, <2>3
      <4> QED BY <1>3, <4>1, TrainerRankSafe DEF SafeConfiguration
    <3>2. M!SaveInv(globalStep, Guarded, model)'
      BY <1>1, <1>2, <1>5, <3>1 DEF M!SaveInv
    <3>3. CASE tail # "barrier"
      <4>1. t = tracker
        BY <1>1, <1>2, <3>3, SaveFacts
      <4> QED BY <1>1, <1>4, <2>3, <3>1, <3>2, <4>1
    <3>4. CASE tail = "barrier"
      <4>1. phase[0] = "returned" /\ doomed = {} /\ tracker = g
        BY <1>1, <1>2, <3>4, SaveFacts
      <4>2. DumpTogether /\ phase \in [Ranks -> M!Phases]
        BY <1>1, <1>3 DEF IInv, InSave, M!SaveInv, M!TypeOK
      <4>3. \A q \in Ranks : phase[q] \in Dumped
        BY <4>1, <4>2 DEF DumpTogether, Dumped
      <4>4. UNCHANGED <<shard, dirs>>
        BY <2>3, <4>1, <4>3
        DEF M!RankStep, M!Rotate, M!RemoveFile, M!RemoveDir, M!RemoveFails, M!Mkdir,
            M!BeginWrite, M!EndWrite, M!SaveHf, M!Return, M!Move, Dumped
      <4> QED BY <1>1, <1>4, <2>3, <3>2, <4>4
    <3> QED BY <3>3, <3>4
  <2> QED
    BY <2>1, <2>2, <2>3 DEF Rank, Remove, RemoveFolder, M!RankStep
<1> QED BY <1>6, <1>7

(* The ranks leave the dump barrier together and stay together, and the     *)
(* folder of the save is there once rank 0 is past its mkdir.               *)
LEMMA PhasesKeep ==
  ASSUME IInv, SafeConfiguration, Barrier \/ \E r \in Ranks : Rank(r)
  PROVE  /\ DumpTogether'
         /\ phase[0] = "returned" => phase'[0] = "returned"
         /\ phase'[0] \notin BeforeMkdir => globalStep \in dirs'
<1> USE ConstantFacts
<1>1. /\ DumpTogether /\ (phase[0] \notin BeforeMkdir => globalStep \in dirs)
      /\ phase \in [Ranks -> M!Phases]
      /\ \A d \in doomed : d # globalStep
  <2>1. pc = "save" /\ InSave
    BY RankKeeps DEF IInv
  <2>2. M!SaveInv(globalStep, Guarded, model) /\ globalStep \in Nat
    BY <2>1, SaveFacts
  <2>3. ASSUME NEW d \in doomed PROVE d # globalStep
    <3>1. d \in Nat /\ d < globalStep
      BY <2>2 DEF M!SaveInv, M!TypeOK
    <3> QED BY <2>2, <3>1
  <2> QED BY <2>1, <2>2, <2>3 DEF InSave, M!SaveInv, M!TypeOK
<1>2. CASE Barrier
  <2>1. CASE M!EnterBarrier
    BY <1>1, <2>1 DEF M!EnterBarrier, M!Barrier, DumpTogether, Dumped, BeforeMkdir
  <2>2. CASE M!DumpBarrier
    <3>1. /\ \A r \in Ranks : phase'[r] \in Dumped
          /\ phase[0] = "written" /\ dirs' = dirs
      BY <2>2 DEF M!DumpBarrier, M!Barrier, Dumped
    <3> QED BY <1>1, <3>1 DEF DumpTogether, BeforeMkdir
  <2>3. CASE M!HfBarrier
    BY <1>1, <2>3 DEF M!HfBarrier, M!Barrier, DumpTogether, Dumped, BeforeMkdir
  <2> QED BY <1>2, <2>1, <2>2, <2>3 DEF Barrier, M!BarrierStep
<1>3. CASE \E r \in Ranks : Rank(r)
  <2>1. PICK r \in Ranks : Rank(r)
    BY <1>3
  <2>2. CASE \E d \in doomed : Remove(d)
    <3>1. phase' = phase /\ \E d \in doomed : dirs' = dirs \/ dirs' = dirs \ {d}
      BY <2>2
      DEF Remove, RemoveData, RemoveFolder, managerVars, M!RemoveDir, M!RemoveFails,
          M!RemoveFile
    <3> QED BY <1>1, <3>1 DEF DumpTogether
  <2>3. CASE /\ \/ M!Mkdir(r, globalStep)
                \/ M!BeginWrite(r, globalStep) \/ M!EndWrite(r, globalStep, model[r])
             /\ phase[r] \notin Dumped
    <3>1. /\ \E to \in {"entered", "writing", "written"} : phase' = [phase EXCEPT ![r] = to]
          /\ \/ dirs' = dirs \cup {globalStep}
             \/ dirs' = dirs /\ phase[r] \in {"write", "writing"}
      BY <2>3 DEF M!Mkdir, M!BeginWrite, M!EndWrite, M!Move
    <3>2. PICK to \in {"entered", "writing", "written"} : phase' = [phase EXCEPT ![r] = to]
      BY <3>1
    <3>3. /\ to \notin Dumped /\ phase'[r] = to
          /\ \A q \in Ranks \ {r} : phase'[q] = phase[q]
      BY <1>1, <3>2 DEF Dumped
    <3>4. \A q \in Ranks : phase'[q] \notin Dumped
      BY <1>1, <2>3, <3>3 DEF DumpTogether
    <3>5. "returned" \in Dumped
      BY DEF Dumped
    <3>6. phase'[0] \notin BeforeMkdir => globalStep \in dirs'
      BY <1>1, <3>1, <3>3 DEF BeforeMkdir
    <3>7. DumpTogether'
      BY <3>4 DEF DumpTogether
    <3>8. phase[0] # "returned"
      BY <1>1, <2>3, <3>5 DEF DumpTogether
    <3> QED BY <3>6, <3>7, <3>8
  <2>4. CASE r = 0 /\ M!Rotate
    BY <1>1, <2>4 DEF M!Rotate, M!Move, DumpTogether, Dumped, BeforeMkdir
  <2>5. CASE (r = 0 /\ M!SaveHf) \/ M!Return(r, globalStep)
    <3>1. /\ phase[r] \in Dumped \ {"returned"} /\ dirs' = dirs
          /\ \E to \in Dumped : phase' = [phase EXCEPT ![r] = to]
      BY <2>5 DEF M!SaveHf, M!Return, M!Move, Dumped
    <3> QED BY <1>1, <3>1 DEF DumpTogether, Dumped, BeforeMkdir
  <2> QED
    BY <2>1, <2>2, <2>3, <2>4, <2>5
    DEF Rank, M!Mkdir, M!BeginWrite, M!EndWrite, M!Move, Dumped
<1> QED BY <1>2, <1>3

LEMMA RankIInv ==
  ASSUME IInv, SafeConfiguration, Barrier \/ \E r \in Ranks : Rank(r)
  PROVE  IInv'
<1> USE SFTAssumption, ConstantFacts
<1>1. /\ pc = "save" /\ InSave
      /\ UNCHANGED <<tracker, pc, tail, run, globalStep, model, pos, epoch, resumed>>
      /\ M!SaveInv(globalStep, Guarded, model)'
      /\ dataPt'[globalStep] = dataPt[globalStep]
      /\ dataPt' \in [Steps -> (1..EpochLen) \cup {Absent, Torn}]
  BY RankKeeps DEF IInv
<1>2. TrackedIsWhole'
  BY RankKeeps, TrackedStays
<1>3. TypeOK'
  BY <1>1 DEF IInv, TypeOK, M!SaveInv
<1>4. InSave'
  BY <1>1, PhasesKeep DEF InSave
<1>5. (/\ OneModel /\ Looping /\ Resting /\ Memory)'
  BY <1>1 DEF IInv, OneModel, Looping, Resting, Memory, Up
<1> QED BY <1>2, <1>3, <1>4, <1>5 DEF IInv

(* data.pt and the tracker, which rank 0 writes once it has returned.       *)
LEMMA TailIInv ==
  ASSUME IInv, RankZeroTail
  PROVE  /\ IInv'
         /\ UNCHANGED <<shard, pc, globalStep, model, pos>>
         /\ RenameTracker => /\ shard[globalStep] = model
                             /\ dataPt'[globalStep] = pos
                             /\ tracker' = globalStep
         /\ ~RenameTracker => /\ tracker' = tracker
                              /\ tracker \in Steps => dataPt'[tracker] = dataPt[tracker]
<1> USE SFTAssumption, ConstantFacts
<1>1. /\ pc = "save" /\ phase[0] = "returned" /\ tail # "barrier"
      /\ UNCHANGED <<managerVars, pc, run, globalStep, model, pos, epoch, resumed>>
      /\ \/ /\ tail = "none" /\ tail' = "saving_data" /\ tracker' = tracker
            /\ dataPt' = [dataPt EXCEPT ![globalStep] = Torn]
         \/ /\ tail = "saving_data" /\ tail' = "tmp_tracker" /\ tracker' = tracker
            /\ dataPt' = [dataPt EXCEPT ![globalStep] = pos]
         \/ /\ tail = "tmp_tracker" /\ tail' = "rename" /\ UNCHANGED <<tracker, dataPt>>
         \/ /\ tail = "rename" /\ tail' = "barrier" /\ tracker' = globalStep
            /\ dataPt' = dataPt
  BY DEF RankZeroTail, BeginSaveData, EndSaveData, WriteTmpTracker, RenameTracker,
         TailStep, Saving, loopVars
<1>2. RenameTracker => tail = "rename"
  BY DEF RenameTracker, TailStep
<1>3. ~RenameTracker => tail # "rename"
  BY DEF RankZeroTail, BeginSaveData, EndSaveData, WriteTmpTracker, TailStep
<1>4. /\ InSave /\ globalStep \in Steps /\ tracker < globalStep /\ tracker \in Nat
      /\ pos \in 1..EpochLen /\ model \in [Ranks -> ModelStates]
      /\ dataPt \in [Steps -> (1..EpochLen) \cup {Absent, Torn}]
      /\ \A r, q \in Ranks : model[r] = model[q] /\ model[r].batches = globalStep
  BY <1>1, SaveFacts DEF IInv, TypeOK, Looping, OneModel, Up
<1>5. UNCHANGED <<shard, dirs, saved, doomed, phase>> /\ M!TypeOK'
  BY <1>1, ManagerUnchanged
<1>6. /\ \A r \in Ranks : shard[globalStep][r] = model[r]
      /\ shard[globalStep] = model /\ globalStep \in dirs
  <2>1. phase \in [Ranks -> M!Phases] /\ shard[globalStep] \in [Ranks -> M!Contents]
    BY <1>1, <1>4, SaveFacts DEF M!SaveInv, M!TypeOK
  <2>2. \A r \in Ranks : phase[r] \in M!PastWrite
    BY <1>1, <1>4 DEF InSave, DumpTogether, Dumped, M!PastWrite
  <2>3. \A r \in Ranks : shard[globalStep][r] = model[r]
    BY <1>1, <2>2, SaveFacts DEF M!SaveInv
  <2>4. shard[globalStep] = model
    BY <1>4, <2>1, <2>3
  <2> QED BY <1>1, <1>4, <2>3, <2>4 DEF InSave, BeforeMkdir
<1>7. /\ dataPt' \in [Steps -> (1..EpochLen) \cup {Absent, Torn}]
      /\ tracker \in Steps => dataPt'[tracker] = dataPt[tracker]
      /\ tail' \in {"tmp_tracker", "rename", "barrier"} => dataPt'[globalStep] = pos
  BY <1>1, <1>4 DEF InSave
<1>8. TrackedIsWhole'
  <2>1. CASE tracker' = tracker
    BY <1>5, <1>7, <2>1, TrackedStays DEF IInv, TrackedIsWhole
  <2>2. CASE tracker' = globalStep /\ tail' = "barrier"
    BY <1>4, <1>5, <1>6, <1>7, <2>2 DEF TrackedIsWhole, M!Uniform, M!Complete
  <2> QED BY <1>1, <2>1, <2>2
<1>9. TypeOK'
  BY <1>1, <1>4, <1>5, <1>7 DEF IInv, TypeOK, Tails
<1>10. M!SaveInv(globalStep, Guarded, model)'
  <2>1. M!SaveInv(globalStep, tracker, model)
    BY <1>1, SaveFacts
  <2>2. Guarded' = tracker \/ Guarded' = 0
    BY <1>1 DEF Guarded, NoTracker
  <2>3. /\ phase[0] = "returned" /\ (doomed # {} => phase[0] = "remove")
    BY <1>1, <2>1 DEF M!SaveInv
  <2> QED
    BY <1>1, <1>5, <2>1, <2>2, <2>3 DEF M!SaveInv, M!RemembersOlder
<1>11. InSave'
  BY <1>1, <1>4, <1>5, <1>7, <1>10 DEF InSave, DumpTogether
<1>12. (/\ OneModel /\ Looping /\ Resting /\ Memory)'
  BY <1>1 DEF IInv, OneModel, Looping, Resting, Memory, Up
<1> QED
  BY <1>1, <1>2, <1>3, <1>5, <1>6, <1>7, <1>8, <1>9, <1>11, <1>12 DEF IInv

(* All ranks have left the closing barrier.                                 *)
LEMMA SavedIInv ==
  ASSUME IInv, Saved
  PROVE  IInv'
<1> USE SFTAssumption, ConstantFacts
<1>1. /\ pc = "save" /\ tail = "barrier" /\ tail' = "none" /\ M!Collect
      /\ pc' = IF globalStep >= TotalSteps THEN "finished" ELSE "fetch"
      /\ UNCHANGED <<dataPt, tracker, run, globalStep, model, pos, epoch, resumed>>
  BY DEF Saved, Saving, loopVars
<1>2. /\ M!SaveInv(globalStep, Guarded, model) /\ M!TypeOK /\ doomed = {}
      /\ tracker = globalStep /\ globalStep \in Steps
  BY <1>1, SaveFacts DEF M!SaveInv
<1>3. /\ UNCHANGED <<shard, dirs, saved, doomed>> /\ M!TypeOK' /\ M!Idle'
  BY <1>1, <1>2 DEF M!Collect, M!TypeOK, M!Idle, M!Phases
<1>4. TypeOK'
  BY <1>1, <1>3 DEF IInv, TypeOK, Tails
<1>5. TrackedIsWhole'
  BY <1>1, <1>3, TrackedStays DEF IInv, TrackedIsWhole
<1>6. /\ \A i \in 1..Len(saved) : saved[i] <= globalStep
      /\ \A i \in 1..(Len(saved) - 1) : saved[i] # globalStep
  <2>1. /\ Len(saved) \in Nat /\ globalStep \in Nat
        /\ \A i \in 1..Len(saved) : saved[i] \in Nat
    BY <1>2, RememberedAreNat DEF M!TypeOK
  <2>2. \A i \in 1..Len(saved) : saved[i] < globalStep \/ (i = Len(saved) /\ saved[i] = globalStep)
    BY <1>2 DEF M!SaveInv, M!RemembersOlder
  <2> QED BY <2>1, <2>2
<1>7. Memory'
  BY <1>1, <1>2, <1>3, <1>6 DEF Memory
<1>8. (/\ OneModel /\ Looping /\ Resting)'
  BY <1>1, <1>2, <1>3 DEF IInv, TypeOK, OneModel, Looping, Resting, Up
<1> QED BY <1>1, <1>4, <1>5, <1>7, <1>8 DEF IInv

(* A crash costs the memory only.                                           *)
LEMMA CrashIInv ==
  ASSUME IInv, Crash
  PROVE  IInv'
<1> USE SFTAssumption, ConstantFacts
<1>1. /\ pc' = "down" /\ tail' = "none" /\ M!Exit
      /\ model' = [r \in Ranks |-> Pretrained] /\ pos' = 0 /\ resumed' = 0
      /\ UNCHANGED <<dataPt, tracker, run, globalStep, epoch>>
  BY DEF Crash
<1>2. /\ M!TypeOK' /\ M!Idle' /\ doomed' = {} /\ saved' = << >>
      /\ UNCHANGED <<shard, dirs>>
  BY <1>1 DEF IInv, TypeOK, M!Exit, M!TypeOK, M!Idle, M!Phases
<1>3. TypeOK'
  BY <1>1, <1>2 DEF IInv, TypeOK, Tails
<1>4. TrackedIsWhole'
  BY <1>1, <1>2, TrackedStays DEF IInv, TrackedIsWhole
<1> QED
  BY <1>1, <1>2, <1>3, <1>4 DEF IInv, OneModel, Looping, Resting, Memory, Up

LEMMA StutterIInv ==
  ASSUME IInv, UNCHANGED vars
  PROVE  IInv'
<1>1. UNCHANGED <<shard, dirs, saved, doomed, phase, dataPt, tracker, pc, tail, run,
                  globalStep, model, pos, epoch, resumed>>
  BY DEF vars, managerVars, loopVars
<1>2. M!TypeOK' /\ (M!Idle => M!Idle')
  BY <1>1, ManagerUnchanged DEF managerVars
<1>3. TypeOK'
  BY <1>1, <1>2 DEF IInv, TypeOK
<1>4. TrackedIsWhole'
  BY <1>1, TrackedStays DEF IInv, TrackedIsWhole
<1>5. (/\ OneModel /\ Looping /\ Resting /\ Memory)'
  BY <1>1, <1>2 DEF IInv, OneModel, Looping, Resting, Memory, Up
<1>6. pc = "save" => InSave'
  BY <1>1, <1>2 DEF IInv, InSave, Guarded, DumpTogether, M!SaveInv, M!RemembersOlder
<1> QED BY <1>1, <1>3, <1>4, <1>5, <1>6 DEF IInv

(* IInv is inductive.                                                       *)
LEMMA NextIInv ==
  ASSUME IInv, SafeConfiguration, [Next]_vars
  PROVE  IInv'
BY StartIInv, TrainIInv, EndEpochIInv, RankIInv, TailIInv, SavedIInv, CrashIInv, StutterIInv
DEF Next

-----------------------------------------------------------------------------
(* FSDPSFTTrainer implements ResumePoint                                    *)

(* The resume point, given that the tracked folder is whole.               *)
Point ==
  IF tracker = NoTracker THEN FreshState
  ELSE [model |-> shard[tracker], done |-> tracker, pos |-> dataPt[tracker]]

LEMMA PointIs == IInv => DiskState = Point /\ DiskState # UnreadableState
<1> SUFFICES ASSUME IInv PROVE DiskState = Point /\ DiskState.done # UnreadableState.done
  OBVIOUS
<1>1. LatestCkpt = tracker /\ tracker \in Nat
  <2>1. LatestCkpt = tracker
    BY TrackedIsFound
  <2>2. tracker \in Steps \cup {NoTracker}
    BY DEF IInv, TypeOK
  <2> QED BY ONLY <2>1, <2>2, ConstantFacts DEF NoTracker, Steps
<1>2. tracker # 0 => M!Complete(tracker) /\ dataPt[tracker] \notin {Absent, Torn}
  BY ConstantFacts DEF IInv, TypeOK, TrackedIsWhole, M!Uniform, NoTracker
<1> QED
  BY <1>1, <1>2 DEF DiskState, Point, NoTracker, FreshState, UnreadableState

LEMMA JobIsUp == IInv => JobState # DownState
<1> SUFFICES ASSUME IInv PROVE JobState.done # DownState.done
  OBVIOUS
<1> QED BY SFTAssumption DEF IInv, TypeOK, JobState, DownState, FreshState

(* A step that leaves the tracker and its folder alone is work of the job,  *)
(* or its end.                                                             *)
LEMMA WorksOrStops ==
  ASSUME IInv, IInv', tracker' = tracker,
         tracker \in Steps => /\ shard'[tracker] = shard[tracker]
                              /\ dataPt'[tracker] = dataPt[tracker]
  PROVE  /\ DiskState' = DiskState
         /\ Up => RP!Work \/ RP!Stop
         /\ ~Up' => RP!Stop
<1>1. DiskState' = DiskState
  <2>1. (IInv => DiskState = Point /\ DiskState # UnreadableState)'
    BY PointIs, PTL
  <2>2. tracker \in Steps \cup {NoTracker}
    BY DEF IInv, TypeOK
  <2> QED BY <2>1, <2>2, PointIs DEF Point, FreshState, NoTracker
<1>2. JobState' # DownState
  <2>1. (IInv => JobState # DownState)'
    BY JobIsUp, PTL
  <2> QED BY <2>1 DEF DownState, FreshState
<1> QED BY <1>1, <1>2, JobIsUp DEF RP!Work, RP!Stop, DownState, FreshState

(* Every step of the job is one of the abstract job.                        *)
LEMMA StepRefines ==
  ASSUME IInv, IInv', SafeConfiguration, [Next]_vars
  PROVE  [RP!Next]_RP!vars
<1>1. CASE Train \/ EndEpoch \/ Saved \/ Crash
  <2>1. Up /\ UNCHANGED <<tracker, dataPt, shard>>
    BY <1>1
    DEF Up, Train, EndEpoch, Saved, Saving, Crash, managerVars, M!Call, M!Exit, M!Collect
  <2> QED BY <2>1, WorksOrStops DEF RP!Next
<1>2. CASE Barrier \/ \E r \in Ranks : Rank(r)
  <2>1. Up
    BY <1>2, RankKeeps DEF Up
  <2> QED BY <1>2, <2>1, RankKeeps, WorksOrStops DEF RP!Next
<1>3. CASE StartFromScratch \/ StartFromCheckpoint
  <2>1. ~Up /\ UNCHANGED <<tracker, dataPt, shard>>
    BY <1>3 DEF StartFromScratch, StartFromCheckpoint, MayStart, Up, managerVars
  <2>2. DiskState' = DiskState /\ (~Up' => RP!Stop)
    BY <2>1, WorksOrStops
  <2>3. Up' => JobState' = DiskState
    <3>1. CASE StartFromScratch
      BY <3>1, TrackedIsFound, PointIs
      DEF StartFromScratch, Point, JobState, FreshState, NoTracker
    <3>2. CASE StartFromCheckpoint
      <4>1. tracker # NoTracker /\ tracker \in Steps /\ dataPt[tracker] # Absent
        BY <3>2, TrackedIsFound, ConstantFacts
        DEF StartFromCheckpoint, NoTracker, IInv, TypeOK, TrackedIsWhole
      <4> QED
        BY <3>2, <4>1, TrackedIsFound, PointIs
        DEF StartFromCheckpoint, ResumeGlobalStep, Point, JobState
    <3> QED BY <1>3, <3>1, <3>2
  <2> QED BY <2>1, <2>2, <2>3, PointIs DEF RP!Next, RP!Restart
<1>4. CASE RankZeroTail /\ ~RenameTracker
  <2>1. Up
    BY <1>4 DEF Up, RankZeroTail, BeginSaveData, EndSaveData, WriteTmpTracker, RenameTracker,
                TailStep, Saving
  <2> QED BY <1>4, <2>1, TailIInv, WorksOrStops DEF RP!Next
<1>5. CASE RenameTracker
  <2>1. /\ shard[globalStep] = model /\ dataPt'[globalStep] = pos
        /\ tracker' = globalStep /\ globalStep # NoTracker
        /\ UNCHANGED <<shard, pc, globalStep, model, pos>>
    <3>1. globalStep # NoTracker
      BY <1>5, SFTAssumption
      DEF RenameTracker, TailStep, Saving, IInv, TypeOK, Looping, NoTracker
    <3> QED BY <1>5, <3>1, TailIInv DEF RankZeroTail
  <2>2. (IInv => DiskState = Point /\ DiskState # UnreadableState)'
    BY PointIs, PTL
  <2>3. DiskState' = JobState /\ JobState' = JobState
    BY <2>1, <2>2 DEF Point, JobState
  <2>4. Up /\ Up'
    BY <1>5, <2>1 DEF RenameTracker, TailStep, Saving, Up
  <2> QED BY <2>3, <2>4, JobIsUp DEF RP!Next, RP!Publish
<1>6. CASE UNCHANGED vars
  <2>1. UNCHANGED <<tracker, dataPt, shard, pc, model, globalStep, pos>>
    BY <1>6 DEF vars, managerVars, loopVars
  <2>2. DiskState' = DiskState
    BY <2>1, WorksOrStops
  <2> QED BY <2>1, <2>2 DEF RP!vars, Up, JobState
<1> QED BY <1>1, <1>2, <1>3, <1>4, <1>5, <1>6 DEF Next, RankZeroTail

(* ImplementsResumePoint: of two or more folders kept, whatever the ranks,  *)
(* the removals and the crashes do, a start continues exactly from the      *)
(* state that was renamed into place last, and no point is ever lost.       *)
THEOREM RefinesResumePoint ==
  ASSUME SafeConfiguration
  PROVE  Spec => ImplementsResumePoint
<1>1. Init => RP!Init
  <2> SUFFICES ASSUME Init PROVE RP!Init
    OBVIOUS
  <2>1. IInv
    BY InitIInv
  <2> QED BY <2>1, PointIs DEF Init, Point, RP!Init, Up, NoTracker
<1>2. Init => IInv
  BY InitIInv
<1>3. IInv /\ [Next]_vars => IInv'
  BY NextIInv
<1>4. IInv /\ IInv' /\ [Next]_vars => [RP!Next]_RP!vars
  BY StepRefines
<1> QED BY <1>1, <1>2, <1>3, <1>4, PTL DEF Spec, ImplementsResumePoint, RP!Spec

(* The folder latest_checkpointed_iteration.txt names is whole: it exists,  *)
(* all its shards are of one state, which has seen as many batches as the   *)
(* folder's name says, and its data.pt is complete.                         *)
THEOREM TrackedAlwaysWhole ==
  ASSUME SafeConfiguration
  PROVE  Spec => []TrackedIsWhole
<1>1. IInv => TrackedIsWhole
  BY DEF IInv
<1> QED BY <1>1, InitIInv, NextIInv, PTL DEF Spec

(* All ranks always train on one state, and global_step counts its batches. *)
THEOREM AlwaysOneModel ==
  ASSUME SafeConfiguration
  PROVE  Spec => []OneModel
<1>1. IInv => OneModel
  BY DEF IInv
<1> QED BY <1>1, InitIInv, NextIInv, PTL DEF Spec

(* TypeOK: the variables of FSDPSFTTrainer keep their types.                *)
THEOREM TypeCorrect ==
  ASSUME SafeConfiguration
  PROVE  Spec => []TypeOK
<1>1. IInv => TypeOK
  BY DEF IInv
<1> QED BY <1>1, InitIInv, NextIInv, PTL DEF Spec

-----------------------------------------------------------------------------
(* A job that returns from fit has saved its last step, unless its last     *)
(* start resumed at the end of an epoch.                                    *)

InAnEpoch(s) == \E e \in Nat : s = e * EpochLen + dataPt[s]

(* What the epoch loop is ahead of the dataloader.                         *)
Skipped == IF ResumedAtEpochEnd THEN EpochLen ELSE 0

(* No step after the tracked one is to be saved, but the one being saved.  *)
NoneMissed ==
  /\ pc = "fetch" => \A s \in (tracker + 1)..globalStep : ~MustSave(s)
  /\ pc = "save" => \A s \in (tracker + 1)..(globalStep - 1) : ~MustSave(s)

(* The epoch loop, the dataloader and the step counter agree up to what was *)
(* skipped; step counter and dataloader agree in the tracked folder.        *)
CountInv ==
  /\ Up => globalStep + Skipped = epoch * EpochLen + pos
  /\ tracker \in Steps => tracker = TotalSteps \/ InAnEpoch(tracker)
  /\ NoneMissed
  /\ ShortOnlyFromEpochEnd

LEMMA EpochProduct ==
  ASSUME NEW e \in Nat
  PROVE  e * EpochLen \in Nat /\ (e + 1) * EpochLen = e * EpochLen + EpochLen
<1>1. EpochLen \in Nat
  BY ConstantFacts
<1> QED BY <1>1

(* Division by the length of an epoch.                                     *)
LEMMA Division ==
  ASSUME NEW e \in Nat, NEW p \in 0..(EpochLen - 1)
  PROVE  (e * EpochLen + p) \div EpochLen = e /\ (e * EpochLen + p) % EpochLen = p
<1> DEFINE s == e * EpochLen + p
           q == s \div EpochLen
           m == s % EpochLen
<1>1. /\ EpochLen \in Nat \ {0} /\ s \in Nat
      /\ q \in Int /\ m \in 0..(EpochLen - 1) /\ s = EpochLen * q + m
  BY ConstantFacts, EpochProduct
<1>2. s = EpochLen * e + p
  BY ConstantFacts
<1> HIDE DEF s, q, m
<1>3. ~(q >= e + 1)
  <2> SUFFICES ASSUME q >= e + 1 PROVE FALSE
    OBVIOUS
  <2>1. EpochLen * q >= EpochLen * (e + 1)
    BY ONLY <1>1, e \in Nat, q >= e + 1
  <2>2. EpochLen * (e + 1) = EpochLen * e + EpochLen /\ EpochLen * e \in Nat
    BY ONLY <1>1, e \in Nat
  <2> QED BY <1>1, <1>2, <2>1, <2>2
<1>4. ~(q <= e - 1)
  <2> SUFFICES ASSUME q <= e - 1 PROVE FALSE
    OBVIOUS
  <2>1. EpochLen * q <= EpochLen * (e - 1)
    BY ONLY <1>1, e \in Nat, q <= e - 1
  <2>2. EpochLen * (e - 1) = EpochLen * e - EpochLen /\ EpochLen * e \in Nat
    BY ONLY <1>1, e \in Nat
  <2> QED BY <1>1, <1>2, <2>1, <2>2
<1>5. q = e
  BY <1>1, <1>3, <1>4
<1>6. m = p
  <2>1. EpochLen * e \in Nat
    BY <1>1
  <2> QED BY <1>1, <1>2, <1>5, <2>1
<1> QED BY <1>5, <1>6 DEF s, q, m

LEMMA InitCountInv == Init => CountInv
BY ConstantFacts DEF Init, CountInv, NoneMissed, ShortOnlyFromEpochEnd, Up, NoTracker, Steps

LEMMA SkippedFacts ==
  /\ Skipped \in Nat /\ (ResumedAtEpochEnd => Skipped = EpochLen)
  /\ ~ResumedAtEpochEnd => Skipped = 0
BY ConstantFacts DEF Skipped

(* The epoch the resumed step falls in is the one it was saved in, or the   *)
(* next if it was saved at the end.                                        *)
LEMMA StartCountInv ==
  ASSUME IInv, CountInv, SafeConfiguration, StartFromScratch \/ StartFromCheckpoint
  PROVE  CountInv'
<1> USE ConstantFacts
<1>1. UNCHANGED <<dataPt, tracker>> /\ pc' \in {"fetch", "ended"}
  BY DEF StartFromScratch, StartFromCheckpoint, MayStart, InEpoch
<1>2. InAnEpoch(tracker)' = InAnEpoch(tracker)
  BY <1>1 DEF InAnEpoch
<1>3. CASE StartFromScratch
  <2>1. /\ globalStep' = 0 /\ pos' = 0 /\ epoch' = 0 /\ resumed' = 0 /\ pc' = "fetch"
        /\ tracker \in Nat
    BY <1>3 DEF StartFromScratch, IInv, TypeOK, Steps, NoTracker
  <2>2. ~ResumedAtEpochEnd'
    BY <2>1 DEF ResumedAtEpochEnd
  <2>3. NoneMissed'
    BY <1>1, <2>1 DEF NoneMissed
  <2>4. globalStep' + Skipped' = epoch' * EpochLen + pos'
    BY <2>1, <2>2 DEF Skipped
  <2> QED BY <1>1, <1>2, <2>1, <2>3, <2>4 DEF CountInv, ShortOnlyFromEpochEnd
<1>4. CASE StartFromCheckpoint
  <2>1. /\ tracker \in Steps /\ globalStep' = tracker /\ resumed' = tracker
        /\ pos' = IF dataPt[tracker] = Absent THEN 0 ELSE dataPt[tracker]
        /\ epoch' = tracker \div EpochLen
        /\ pc' = IF epoch' < TotalEpochs THEN "fetch" ELSE "ended"
    BY <1>4, TrackedIsFound
    DEF StartFromCheckpoint, ResumeGlobalStep, StartEpoch, InEpoch, IInv, TypeOK, NoTracker
  <2>2. tracker \in 1..TotalSteps /\ dataPt[tracker] \in 1..EpochLen
    BY <2>1 DEF IInv, TrackedIsWhole, Steps
  <2>3. pos' = dataPt[tracker]
    BY <2>1, <2>2
  <2>4. NoneMissed'
    BY <1>1, <2>1, <2>2 DEF NoneMissed
  <2>5. CASE tracker = TotalSteps
    <3>1. pc' = "ended"
      BY <2>1, <2>5, EpochOf
    <3>2. ~ResumedAtEpochEnd'
      BY <2>1, <2>2, <2>5 DEF ResumedAtEpochEnd
    <3> QED
      BY <1>1, <1>2, <2>1, <2>4, <2>5, <3>1, <3>2 DEF CountInv, ShortOnlyFromEpochEnd, Up
  <2>6. CASE tracker # TotalSteps
    <3> DEFINE d == dataPt[tracker]
    <3>1. PICK e \in Nat : tracker = e * EpochLen + d
      BY <2>1, <2>6 DEF CountInv, InAnEpoch
    <3>2. d \in 1..EpochLen /\ tracker < TotalSteps /\ tracker >= 1
      BY <2>2, <2>6
    <3>3. e * EpochLen \in Nat /\ (e + 1) * EpochLen = e * EpochLen + EpochLen
      BY EpochProduct
    <3> HIDE DEF d
    <3>4. ASSUME NEW k \in Nat, k * EpochLen < TotalSteps PROVE k < TotalEpochs
      <4> SUFFICES ASSUME k >= TotalEpochs PROVE FALSE
        OBVIOUS
      <4>1. k * EpochLen >= TotalEpochs * EpochLen
        BY ONLY k \in Nat, TotalEpochs \in Nat, EpochLen \in Nat, k >= TotalEpochs
      <4>2. k * EpochLen \in Nat
        BY EpochProduct
      <4> QED BY <3>4, <4>1, <4>2 DEF SafeConfiguration
    <3>5. /\ epoch' < TotalEpochs
          /\ tracker + Skipped' = epoch' * EpochLen + d
      <4>1. CASE d < EpochLen
        <5>1. d \in 0..(EpochLen - 1)
          BY <3>2, <4>1
        <5>2. tracker \div EpochLen = e /\ tracker % EpochLen = d
          BY <3>1, <5>1, Division
        <5>3. ~ResumedAtEpochEnd'
          BY <2>1, <3>2, <5>2 DEF ResumedAtEpochEnd
        <5>4. Skipped' = 0 /\ epoch' = e
          BY <2>1, <5>2, <5>3 DEF Skipped
        <5> QED BY <3>1, <3>2, <3>3, <3>4, <5>4
      <4>2. CASE d = EpochLen
        <5>1. /\ tracker = (e + 1) * EpochLen + 0 /\ e + 1 \in Nat /\ 0 \in 0..(EpochLen - 1)
              /\ (e + 1) * EpochLen = tracker
          BY <3>1, <3>3, <4>2
        <5>2. tracker \div EpochLen = e + 1 /\ tracker % EpochLen = 0
          BY <5>1, Division
        <5>3. ResumedAtEpochEnd'
          BY <2>1, <2>2, <3>2, <5>2 DEF ResumedAtEpochEnd
        <5>4. Skipped' = EpochLen /\ epoch' = e + 1
          BY <2>1, <5>2, <5>3 DEF Skipped
        <5>5. e + 1 < TotalEpochs
          BY <3>2, <3>4, <5>1
        <5>6. epoch' * EpochLen = tracker
          BY <5>1, <5>4
        <5> QED BY <4>2, <5>4, <5>5, <5>6
      <4> QED BY <3>2, <4>1, <4>2
    <3>6. pc' = "fetch" /\ pos' = d
      BY <2>1, <2>3, <3>5 DEF d
    <3> QED BY <1>1, <1>2, <2>1, <2>4, <3>5, <3>6 DEF CountInv, ShortOnlyFromEpochEnd
  <2> QED BY <2>5, <2>6
<1> QED BY <1>3, <1>4

LEMMA TrainCountInv ==
  ASSUME IInv, CountInv, Train
  PROVE  CountInv'
<1>1. /\ pc = "fetch" /\ pos' = pos + 1 /\ globalStep' = globalStep + 1
      /\ \/ pc' = "save"
         \/ pc' = "fetch" /\ ~MustSave(globalStep')
      /\ UNCHANGED <<dataPt, tracker, epoch, resumed>>
  BY DEF Train
<1>2. /\ epoch * EpochLen \in Nat /\ pos \in Nat /\ globalStep \in Nat /\ tracker \in Nat
      /\ tracker <= globalStep
  BY <1>1, ConstantFacts, EpochProduct DEF IInv, TypeOK, Looping, Steps, NoTracker
<1>3. Skipped' = Skipped /\ Skipped \in Nat
  BY <1>1, SkippedFacts DEF Skipped, ResumedAtEpochEnd
<1>4. globalStep' + Skipped' = epoch' * EpochLen + pos'
  <2>1. globalStep + Skipped = epoch * EpochLen + pos
    BY <1>1 DEF CountInv, Up
  <2> QED BY <1>1, <1>2, <1>3, <2>1
<1>5. NoneMissed'
  <2>1. \A s \in (tracker + 1)..globalStep : ~MustSave(s)
    BY <1>1 DEF CountInv, NoneMissed
  <2>2. CASE pc' = "save"
    BY <1>1, <1>2, <2>1, <2>2 DEF NoneMissed, MustSave
  <2>3. CASE pc' = "fetch" /\ ~MustSave(globalStep')
    <3>1. \A s \in (tracker + 1)..(globalStep + 1) :
            s \in (tracker + 1)..globalStep \/ s = globalStep + 1
      BY <1>2
    <3>2. \A s \in (tracker + 1)..(globalStep + 1) : ~MustSave(s)
      BY <1>1, <2>1, <2>3, <3>1
    <3> QED BY <1>1, <2>3, <3>2 DEF NoneMissed, MustSave
  <2> QED BY <1>1, <2>2, <2>3
<1> QED
  BY <1>1, <1>4, <1>5 DEF CountInv, ShortOnlyFromEpochEnd, InAnEpoch

(* The loop runs out of epochs before the last step only if it was ahead.  *)
LEMMA EndEpochCountInv ==
  ASSUME IInv, CountInv, SafeConfiguration, EndEpoch
  PROVE  CountInv'
<1>1. /\ pc = "fetch" /\ pos = EpochLen /\ pos' = 0 /\ epoch' = epoch + 1
      /\ pc' = IF epoch' < TotalEpochs THEN "fetch" ELSE "ended"
      /\ UNCHANGED <<dataPt, tracker, globalStep, resumed>>
  BY DEF EndEpoch, InEpoch
<1>2. /\ epoch \in Nat /\ epoch < TotalEpochs /\ globalStep < TotalSteps /\ globalStep \in Nat
      /\ tracker <= globalStep /\ tracker \in Nat
  BY <1>1, ConstantFacts DEF IInv, TypeOK, Looping, Up, Steps, NoTracker
<1>3. Skipped' = Skipped /\ Skipped \in Nat /\ ResumedAtEpochEnd' = ResumedAtEpochEnd
  BY <1>1, SkippedFacts DEF Skipped, ResumedAtEpochEnd
<1>4. (epoch + 1) * EpochLen \in Nat /\ globalStep + Skipped = (epoch + 1) * EpochLen
  <2>1. globalStep + Skipped = epoch * EpochLen + EpochLen
    BY <1>1 DEF CountInv, Up
  <2> QED BY <1>2, <2>1, EpochProduct, ConstantFacts
<1>5. globalStep' + Skipped' = epoch' * EpochLen + pos'
  BY <1>1, <1>3, <1>4
<1>6. \A s \in (tracker + 1)..globalStep : ~MustSave(s)
  BY <1>1 DEF CountInv, NoneMissed
<1>7. NoneMissed'
  BY <1>1, <1>6 DEF NoneMissed, MustSave
<1>8. pc' = "ended" => ResumedAtEpochEnd /\ globalStep = TotalSteps - EpochLen
  <2> SUFFICES ASSUME pc' = "ended"
               PROVE  ResumedAtEpochEnd /\ globalStep = TotalSteps - EpochLen
    OBVIOUS
  <2>1. epoch + 1 = TotalEpochs
    BY <1>1, <1>2, ConstantFacts
  <2>2. globalStep + Skipped = TotalSteps
    BY <1>4, <2>1 DEF SafeConfiguration
  <2>3. ResumedAtEpochEnd
    BY <1>2, <2>2, SkippedFacts
  <2> QED BY <1>2, <2>2, <2>3, SkippedFacts, ConstantFacts
<1>9. ShortOnlyFromEpochEnd'
  BY <1>1, <1>2, <1>3, <1>6, <1>8 DEF ShortOnlyFromEpochEnd, MustSave
<1> QED BY <1>1, <1>5, <1>7, <1>9 DEF CountInv, InAnEpoch

LEMMA RankCountInv ==
  ASSUME IInv, CountInv, SafeConfiguration, Barrier \/ \E r \in Ranks : Rank(r)
  PROVE  CountInv'
BY RankKeeps DEF CountInv, NoneMissed, ShortOnlyFromEpochEnd, ResumedAtEpochEnd, Skipped,
   InAnEpoch, MustSave, Up

(* What is renamed into place carries the position of the dataloader.      *)
LEMMA TailCountInv ==
  ASSUME IInv, CountInv, RankZeroTail
  PROVE  CountInv'
<1>1. pc = "save" /\ UNCHANGED <<pc, globalStep, pos, epoch, resumed>>
  BY DEF RankZeroTail, BeginSaveData, EndSaveData, WriteTmpTracker, RenameTracker,
         TailStep, Saving, loopVars
<1>2. CASE ~RenameTracker
  BY <1>1, <1>2, TailIInv
  DEF CountInv, NoneMissed, ShortOnlyFromEpochEnd, ResumedAtEpochEnd, Skipped, InAnEpoch,
      MustSave, Up
<1>3. CASE RenameTracker
  <2>1. tracker' = globalStep /\ dataPt'[globalStep] = pos
    BY <1>3, TailIInv
  <2>2. /\ globalStep \in 1..TotalSteps /\ pos \in 1..EpochLen /\ epoch \in Nat
        /\ globalStep + Skipped = epoch * EpochLen + pos
    BY <1>1, SaveFacts, ConstantFacts DEF IInv, TypeOK, Looping, CountInv, Steps, Up
  <2>3. \E e \in Nat : globalStep = e * EpochLen + pos
    <3>1. CASE ~ResumedAtEpochEnd
      BY <2>2, <3>1, SkippedFacts
    <3>2. CASE ResumedAtEpochEnd
      <4>1. globalStep + EpochLen = epoch * EpochLen + pos
        BY <2>2, <3>2, SkippedFacts
      <4>2. epoch # 0
        BY <2>2, <4>1, ConstantFacts
      <4>3. epoch - 1 \in Nat /\ epoch = (epoch - 1) + 1
        BY <2>2, <4>2
      <4>4. /\ (epoch - 1) * EpochLen \in Nat
            /\ ((epoch - 1) + 1) * EpochLen = (epoch - 1) * EpochLen + EpochLen
        BY <4>3, EpochProduct
      <4>5. epoch * EpochLen = (epoch - 1) * EpochLen + EpochLen
        BY <4>3, <4>4
      <4>6. globalStep = (epoch - 1) * EpochLen + pos
        BY <2>2, <4>1, <4>4, <4>5, ConstantFacts
      <4> QED BY <4>3, <4>6
    <3> QED BY <3>1, <3>2
  <2>4. InAnEpoch(tracker)'
    BY <1>1, <2>1, <2>3 DEF InAnEpoch
  <2>5. NoneMissed'
    BY <1>1, <2>1, <2>2 DEF NoneMissed
  <2> QED
    BY <1>1, <2>1, <2>2, <2>4, <2>5
    DEF CountInv, ShortOnlyFromEpochEnd, ResumedAtEpochEnd, Skipped, Up
<1> QED BY <1>2, <1>3

(* A job that is an epoch ahead does not reach its last step.              *)
LEMMA SavedCountInv ==
  ASSUME IInv, CountInv, SafeConfiguration, Saved
  PROVE  CountInv'
<1>1. /\ pc = "save" /\ tail = "barrier"
      /\ pc' = IF globalStep >= TotalSteps THEN "finished" ELSE "fetch"
      /\ UNCHANGED <<dataPt, tracker, globalStep, pos, epoch, resumed>>
  BY DEF Saved, Saving, loopVars
<1>2. tracker = globalStep /\ globalStep \in 1..TotalSteps
  BY <1>1, SaveFacts DEF Steps
<1>3. NoneMissed'
  BY <1>1, <1>2 DEF NoneMissed
<1>4. globalStep = TotalSteps => ~ResumedAtEpochEnd
  <2> SUFFICES ASSUME ResumedAtEpochEnd PROVE globalStep # TotalSteps
    OBVIOUS
  <2>1. /\ globalStep + EpochLen = epoch * EpochLen + pos
        /\ epoch \in Nat /\ epoch < TotalEpochs /\ pos \in 0..EpochLen
    BY <1>1, SkippedFacts, ConstantFacts DEF CountInv, Up, IInv, TypeOK, Looping
  <2>2. epoch * EpochLen \in Nat /\ (epoch + 1) * EpochLen = epoch * EpochLen + EpochLen
    BY <2>1, EpochProduct
  <2>3. (epoch + 1) * EpochLen <= TotalEpochs * EpochLen
    <3>1. epoch + 1 \in Nat /\ epoch + 1 <= TotalEpochs
      BY <2>1, ConstantFacts
    <3>2. TotalEpochs \in Nat /\ EpochLen \in Nat
      BY ConstantFacts
    <3> DEFINE e == epoch + 1
    <3> HIDE DEF e
    <3>3. \A n \in Nat : n <= TotalEpochs => n * EpochLen <= TotalEpochs * EpochLen
      BY ONLY <3>2
    <3> QED BY <3>1, <3>3
  <2> QED BY <1>2, <2>1, <2>2, <2>3, ConstantFacts DEF SafeConfiguration
<1>5. ShortOnlyFromEpochEnd'
  BY <1>1, <1>2, <1>4, ConstantFacts DEF ShortOnlyFromEpochEnd, ResumedAtEpochEnd
<1> QED
  BY <1>1, <1>3, <1>5 DEF CountInv, InAnEpoch, Skipped, ResumedAtEpochEnd, Up

LEMMA NextCountInv ==
  ASSUME IInv, CountInv, SafeConfiguration, [Next]_vars
  PROVE  CountInv'
<1>1. CASE Crash
  BY <1>1 DEF Crash, CountInv, NoneMissed, ShortOnlyFromEpochEnd, InAnEpoch, Up
<1>2. CASE UNCHANGED vars
  BY <1>2
  DEF vars, loopVars, CountInv, NoneMissed, ShortOnlyFromEpochEnd, ResumedAtEpochEnd, Skipped,
      InAnEpoch, MustSave, Up
<1> QED
  BY <1>1, <1>2, StartCountInv, TrainCountInv, EndEpochCountInv, RankCountInv, TailCountInv,
     SavedCountInv DEF Next

(* A job that returns from fit has trained and saved its last step, however *)
(* often it was resumed and whatever save_freq is, except when its last     *)
(* start resumed at the end of an epoch: then it returns exactly one epoch  *)
(* short, without a save of what it trained last.                           *)
THEOREM ShortOnlyThen ==
  ASSUME SafeConfiguration
  PROVE  Spec => []ShortOnlyFromEpochEnd
<1>1. CountInv => ShortOnlyFromEpochEnd
  BY DEF CountInv
<1> QED BY <1>1, InitIInv, NextIInv, InitCountInv, NextCountInv, PTL DEF Spec

-----------------------------------------------------------------------------
(* Rotation keeps one quota of folders per start of the job                 *)

Remembered == {saved[i] : i \in 1..Len(saved)}
Beyond == {d \in dirs : d > tracker}

(* The folders of earlier starts, which rank 0 knows nothing of.            *)
Old == dirs \ (Remembered \cup doomed \cup Beyond)

OldBound ==
  Cardinality(Old) <= (IF pc = "down" THEN run ELSE run - 1) * MaxKeep

(* A start repeats the steps that were not saved, hence its first save is   *)
(* of the step whose save the last crash cut short.                        *)
NextSave(d) ==
  MustSave(d) /\ \A s \in Steps : tracker < s /\ s < d => ~MustSave(s)

BeyondIsNext ==
  /\ \A d \in Beyond : NextSave(d)
  /\ pc = "fetch" => \A s \in Steps : tracker < s /\ s <= globalStep => ~MustSave(s)
  /\ pc = "save" /\ tail # "barrier" => NextSave(globalStep)

Settled ==
  \/ tail = "barrier"
  \/ pc \notin {"save", "down"} /\ saved # << >>
  => Beyond = {}

(* Rank 0 makes room before it enters a save, and appends on its return.    *)
RoomMade ==
  IF pc = "save" /\ phase[0] \notin {"rotate", "returned"}
  THEN Len(saved) < MaxKeep /\ \A d, e \in doomed : d = e
  ELSE Len(saved) <= MaxKeep /\ doomed = {}

Appended == pc = "save" /\ phase[0] = "returned" => globalStep \in Remembered

QInv == OldBound /\ BeyondIsNext /\ Settled /\ RoomMade /\ Appended

(* The premises: rotation keeps some folders but not all, and rmtree does   *)
(* what it is asked to.                                                     *)
QuotaConfiguration == SafeConfiguration /\ MaxKeep > 1 /\ ~RemoveMayFail

-----------------------------------------------------------------------------
(* Counting *)

LEMMA AtMostOneMember ==
  ASSUME NEW S, \A d, e \in S : d = e
  PROVE  IsFiniteSet(S) /\ Cardinality(S) \in 0..1
<1>1. CASE S = {}
  BY <1>1, FS_EmptySet
<1>2. CASE S # {}
  <2>1. PICK x \in S : TRUE
    BY <1>2
  <2>2. S = {x}
    BY <2>1
  <2> QED BY <2>2, FS_Singleton
<1> QED BY <1>1, <1>2

LEMMA IntervalSize ==
  ASSUME NEW n \in Nat
  PROVE  IsFiniteSet(1..n) /\ Cardinality(1..n) = n
<1>1. 1 \in Int /\ n \in Int /\ (1 > n => n = 0)
  OBVIOUS
<1>2. IsFiniteSet(1..n) /\ Cardinality(1..n) = IF 1 > n THEN 0 ELSE n - 1 + 1
  BY ONLY <1>1, FS_Interval
<1> QED BY ONLY n \in Nat, <1>1, <1>2

(* As many folders are remembered as the list is long, at most.             *)
LEMMA RememberedSize ==
  ASSUME saved \in Seq(Steps)
  PROVE  /\ IsFiniteSet(Remembered)
         /\ Cardinality(Remembered) \in Nat
         /\ Cardinality(Remembered) <= Len(saved)
<1>1. /\ Len(saved) \in Nat
      /\ saved \in Surjection(1..Len(saved), Remembered)
  BY DEF Surjection, Remembered
<1>2. IsFiniteSet(1..Len(saved)) /\ Cardinality(1..Len(saved)) = Len(saved)
  BY <1>1, IntervalSize
<1>3. IsFiniteSet(Remembered) /\ Cardinality(Remembered) <= Len(saved)
  BY <1>1, <1>2, FS_Surjection
<1> QED BY <1>3, FS_CardinalityType

LEMMA FoldersAreFinite ==
  ASSUME IInv, NEW D \in SUBSET dirs
  PROVE  IsFiniteSet(D) /\ Cardinality(D) \in Nat
<1>1. D \in SUBSET (1..TotalSteps)
  BY DEF IInv, TypeOK, M!TypeOK, Steps
<1>2. IsFiniteSet(1..TotalSteps)
  BY ConstantFacts, IntervalSize
<1>3. IsFiniteSet(D)
  BY <1>1, <1>2, FS_Subset
<1> QED BY <1>3, FS_CardinalityType

(* What rank 0 knows of never exceeds the quota.                            *)
LEMMA KnownSize ==
  ASSUME IInv, RoomMade, QuotaConfiguration
  PROVE  /\ IsFiniteSet(Remembered \cup doomed)
         /\ Cardinality(Remembered \cup doomed) \in Nat
         /\ Cardinality(Remembered \cup doomed) <= MaxKeep
<1>1. saved \in Seq(Steps) /\ Len(saved) \in Nat /\ MaxKeep \in Nat
  BY ConstantFacts DEF IInv, TypeOK, M!TypeOK
<1>2. /\ IsFiniteSet(Remembered) /\ Cardinality(Remembered) \in Nat
      /\ Cardinality(Remembered) <= Len(saved)
  BY <1>1, RememberedSize
<1>3. CASE doomed = {}
  <2>1. Remembered \cup doomed = Remembered
    BY <1>3
  <2>2. Len(saved) <= MaxKeep
    BY <1>1, <1>3 DEF RoomMade
  <2>3. Cardinality(Remembered) <= MaxKeep
    BY ONLY <1>1, <1>2, <2>2
  <2> QED BY ONLY <1>2, <2>1, <2>3
<1>4. CASE doomed # {}
  <2>1. Len(saved) < MaxKeep /\ \A d, e \in doomed : d = e
    BY <1>4 DEF RoomMade
  <2>2. PICK x \in doomed : doomed = {x}
    BY <1>4, <2>1
  <2>3. /\ IsFiniteSet(Remembered \cup {x})
        /\ Cardinality(Remembered \cup {x}) \in {Cardinality(Remembered), Cardinality(Remembered) + 1}
    BY <1>2, FS_AddElement
  <2> QED BY <1>1, <1>2, <2>1, <2>2, <2>3
<1> QED BY <1>3, <1>4

(* Two folders above the tracked one would both be of the next save.        *)
LEMMA OneBeyond ==
  ASSUME IInv, BeyondIsNext, NEW d \in Beyond, NEW e \in Beyond
  PROVE  d = e
<1>1. d \in Steps /\ e \in Steps /\ d \in Nat /\ e \in Nat /\ tracker < d /\ tracker < e
  BY ConstantFacts DEF IInv, TypeOK, M!TypeOK, Beyond
<1>2. NextSave(d) /\ NextSave(e)
  BY DEF BeyondIsNext
<1>3. ~(d < e) /\ ~(e < d)
  BY <1>1, <1>2 DEF NextSave
<1> QED BY <1>1, <1>3

LEMMA Products ==
  ASSUME NEW n \in Nat, NEW k \in Nat
  PROVE  n * k \in Int /\ (n - 1) * k \in Int /\ (n - 1) * k + k = n * k
OBVIOUS

(* The invariant bounds the number of folders.                              *)
LEMMA QuotaHolds ==
  ASSUME IInv, QInv, QuotaConfiguration
  PROVE  QuotaPerStart
<1> DEFINE known == Remembered \cup doomed
           all == (Old \cup known) \cup Beyond
           before == IF pc = "down" THEN run * MaxKeep ELSE (run - 1) * MaxKeep
           more == IF pc \in {"save", "down"} THEN 1 ELSE 0
<1>1. /\ IsFiniteSet(known) /\ Cardinality(known) \in Nat /\ Cardinality(known) <= MaxKeep
  BY KnownSize DEF QInv
<1>2. IsFiniteSet(Beyond) /\ Cardinality(Beyond) \in 0..1
  BY OneBeyond, AtMostOneMember DEF QInv
<1>3. IsFiniteSet(Old) /\ Cardinality(Old) \in Nat /\ Cardinality(Old) <= before
  <2>1. Old \in SUBSET dirs
    BY DEF Old
  <2> QED BY <2>1, FoldersAreFinite DEF QInv, OldBound
<1>4. /\ IsFiniteSet(Old \cup known)
      /\ Cardinality(Old \cup known) \in Nat
      /\ Cardinality(Old \cup known) <= Cardinality(Old) + Cardinality(known)
  <2>1. IsFiniteSet(Old \cap known)
    BY <1>3, FS_Subset
  <2>2. Cardinality(Old \cap known) \in Nat
    BY <2>1, FS_CardinalityType
  <2>3. /\ IsFiniteSet(Old \cup known)
        /\ Cardinality(Old \cup known)
             = Cardinality(Old) + Cardinality(known) - Cardinality(Old \cap known)
    BY <1>1, <1>3, FS_Union
  <2> QED BY <1>1, <1>3, <2>2, <2>3, FS_CardinalityType
<1>5. /\ IsFiniteSet(all) /\ Cardinality(all) \in Nat
      /\ Cardinality(all) <= Cardinality(Old) + Cardinality(known) + Cardinality(Beyond)
  <2>1. IsFiniteSet((Old \cup known) \cap Beyond)
    BY <1>4, FS_Subset
  <2>2. Cardinality((Old \cup known) \cap Beyond) \in Nat
    BY <2>1, FS_CardinalityType
  <2>3. /\ IsFiniteSet(all)
        /\ Cardinality(all) = Cardinality(Old \cup known) + Cardinality(Beyond)
                                - Cardinality((Old \cup known) \cap Beyond)
    BY <1>2, <1>4, FS_Union
  <2>4. Cardinality(all) \in Nat
    BY <2>3, FS_CardinalityType
  <2> HIDE DEF known, all
  <2> QED BY <1>1, <1>2, <1>3, <1>4, <2>2, <2>3, <2>4
<1>6. Cardinality(dirs) \in Nat /\ Cardinality(dirs) <= Cardinality(all)
  <2>1. dirs \in SUBSET all
    BY DEF Old
  <2> QED BY <1>5, <2>1, FS_Subset, FoldersAreFinite
<1>7. /\ MaxKeep \in Nat /\ MaxKeep > 1 /\ run * MaxKeep \in Int
      /\ (run - 1) * MaxKeep \in Int /\ (run - 1) * MaxKeep + MaxKeep = run * MaxKeep
  BY ConstantFacts, Products DEF IInv, TypeOK, QuotaConfiguration
<1>8. CASE pc = "down"
  <2>1. known = {}
    BY <1>8 DEF IInv, Resting, Remembered
  <2>2. Cardinality(known) = 0
    BY <2>1, FS_EmptySet
  <2>3. Cardinality(dirs) <= run * MaxKeep + 1
    <3> HIDE DEF known, all
    <3> QED BY <1>2, <1>3, <1>5, <1>6, <1>7, <1>8, <2>2
  <2> QED BY <1>8, <2>3 DEF QuotaPerStart
<1>9. CASE pc = "save"
  <2>1. Cardinality(dirs) <= run * MaxKeep + 1
    <3> HIDE DEF known, all
    <3> QED BY <1>1, <1>2, <1>3, <1>5, <1>6, <1>7, <1>9
  <2> QED BY <1>9, <2>1 DEF QuotaPerStart
<1>10. CASE pc \notin {"save", "down"}
  <2>1. \/ Cardinality(Beyond) = 0
        \/ Cardinality(known) = 0
    <3>1. CASE saved = << >>
      <4>1. known = {}
        BY <1>10, <3>1 DEF IInv, Resting, Remembered
      <4> QED BY <4>1, FS_EmptySet
    <3>2. CASE saved # << >>
      BY <1>10, <3>2, FS_EmptySet DEF QInv, Settled
    <3> QED BY <3>1, <3>2
  <2>2. Cardinality(dirs) <= run * MaxKeep
    <3> HIDE DEF known, all
    <3> QED BY <1>1, <1>2, <1>3, <1>5, <1>6, <1>7, <1>10, <2>1
  <2> QED BY <1>10, <2>2, <1>7 DEF QuotaPerStart
<1> QED BY <1>8, <1>9, <1>10

-----------------------------------------------------------------------------
(* QInv is inductive                                                        *)

LEMMA InitQInv == Init => QInv
<1> SUFFICES ASSUME Init PROVE QInv
  OBVIOUS
<1>1. /\ dirs = {} /\ saved = << >> /\ doomed = {} /\ run = 0 /\ pc = "down"
      /\ tail = "none"
  BY DEF Init, M!Init
<1>2. MaxKeep \in Nat /\ 0 * MaxKeep = 0
  BY ConstantFacts
<1>3. Cardinality(Old) = 0
  <2>1. Old = {}
    BY <1>1 DEF Old
  <2> QED BY <2>1, FS_EmptySet
<1>4. OldBound
  BY <1>1, <1>2, <1>3 DEF OldBound
<1> QED
  BY <1>1, <1>2, <1>4
  DEF QInv, BeyondIsNext, Settled, RoomMade, Appended, Beyond

(* The bound on what earlier starts left, when no folder is added to it.    *)
LEMMA OldShrinks ==
  ASSUME IInv, OldBound, Old' \subseteq Old, pc # "down", pc' # "down", run' = run
  PROVE  OldBound'
<1>1. /\ Old \in SUBSET dirs
      /\ run \in Nat /\ MaxKeep \in Nat /\ (run - 1) * MaxKeep \in Int
  BY ConstantFacts, Products DEF Old, IInv, TypeOK
<1>2. IsFiniteSet(Old) /\ Cardinality(Old) \in Nat
  BY <1>1, FoldersAreFinite
<1>3. /\ IsFiniteSet(Old') /\ Cardinality(Old') <= Cardinality(Old)
  BY <1>2, FS_Subset
<1>4. Cardinality(Old') \in Nat
  BY <1>3, FS_CardinalityType
<1>5. Cardinality(Old) <= (run - 1) * MaxKeep
  BY DEF OldBound
<1>6. Cardinality(Old') <= (run - 1) * MaxKeep
  BY ONLY <1>1, <1>2, <1>3, <1>4, <1>5
<1> QED BY <1>6 DEF OldBound

(* A step that leaves the folders and rank 0's list alone.                  *)
LEMMA SameFolders ==
  ASSUME UNCHANGED <<dirs, saved, doomed, tracker>>
  PROVE  /\ Old' = Old /\ Beyond' = Beyond /\ Remembered' = Remembered
         /\ \A d : NextSave(d)' <=> NextSave(d)
BY DEF Old, Beyond, Remembered, NextSave

(* A start finds the folders of all earlier starts, and remembers none.     *)
LEMMA StartQInv ==
  ASSUME IInv, QInv, QuotaConfiguration, StartFromScratch \/ StartFromCheckpoint
  PROVE  QInv'
<1>1. /\ pc = "down" /\ pc' \in {"fetch", "ended"} /\ run' = run + 1
      /\ UNCHANGED <<managerVars, tracker, tail>>
  BY DEF StartFromScratch, StartFromCheckpoint, MayStart, InEpoch
<1>2. /\ UNCHANGED <<dirs, saved, doomed, tracker, tail>>
      /\ saved = << >> /\ doomed = {} /\ tail = "none"
  BY <1>1 DEF managerVars, IInv, Resting
<1>3. globalStep' = tracker
  BY TrackedIsFound DEF StartFromScratch, StartFromCheckpoint, ResumeGlobalStep
<1>4. OldBound'
  <2>1. run \in Nat /\ run' - 1 = run
    BY <1>1 DEF IInv, TypeOK
  <2>2. Cardinality(Old) <= run * MaxKeep
    BY <1>1 DEF QInv, OldBound
  <2>3. Cardinality(Old') <= (run' - 1) * MaxKeep
    BY <1>2, <2>1, <2>2, SameFolders
  <2> QED BY <1>1, <2>3 DEF OldBound
<1>5. BeyondIsNext'
  <2>1. \A s \in Steps : ~(tracker < s /\ s <= tracker)
    BY ConstantFacts DEF IInv, TypeOK, NoTracker
  <2> QED BY <1>1, <1>2, <1>3, <2>1, SameFolders DEF QInv, BeyondIsNext
<1>6. Len(<< >>) = 0 /\ MaxKeep \in Nat
  BY ConstantFacts
<1> QED
  BY <1>1, <1>2, <1>4, <1>5, <1>6 DEF QInv, Settled, RoomMade, Appended

(* The loop reaches the next step to be saved, and calls the managers.      *)
LEMMA TrainQInv ==
  ASSUME IInv, QInv, Train
  PROVE  QInv'
<1>1. /\ pc = "fetch" /\ globalStep' = globalStep + 1
      /\ \/ pc' = "save" /\ M!Call /\ MustSave(globalStep')
         \/ pc' = "fetch" /\ UNCHANGED managerVars /\ ~MustSave(globalStep')
      /\ UNCHANGED <<tracker, tail, run>>
  BY DEF Train
<1>2. /\ UNCHANGED <<dirs, saved, doomed, tracker, tail>>
      /\ tail = "none" /\ doomed = {} /\ globalStep \in Nat
      /\ pc' = "save" => phase'[0] = "rotate"
  BY <1>1, ConstantFacts DEF managerVars, M!Call, IInv, Resting, TypeOK
<1>3. OldBound'
  BY <1>1, <1>2, SameFolders, OldShrinks DEF QInv
<1>4. BeyondIsNext'
  <2>1. \A s \in Steps : tracker < s /\ s <= globalStep => ~MustSave(s)
    BY <1>1 DEF QInv, BeyondIsNext
  <2>2. ASSUME NEW s \in Steps PROVE s <= globalStep' <=> s <= globalStep \/ s = globalStep'
    BY <1>1, <1>2, ConstantFacts
  <2>3. ASSUME NEW s \in Steps PROVE s < globalStep' => s <= globalStep
    BY <1>1, <1>2, ConstantFacts
  <2>4. pc' = "save" => NextSave(globalStep)'
    <3>1. pc' = "save" => MustSave(globalStep')
      BY <1>1
    <3>2. \A s \in Steps : tracker < s /\ s < globalStep' => ~MustSave(s)
      BY <2>1, <2>3
    <3> QED BY <1>1, <3>1, <3>2 DEF NextSave
  <2>5. pc' = "fetch" => \A s \in Steps : tracker' < s /\ s <= globalStep' => ~MustSave(s)
    <3> SUFFICES ASSUME pc' = "fetch", NEW s \in Steps, tracker < s, s <= globalStep'
                 PROVE  ~MustSave(s)
      BY <1>1
    <3>1. ~MustSave(globalStep')
      BY <1>1
    <3> QED BY <2>1, <2>2, <3>1
  <2>6. \A d \in Beyond' : NextSave(d)'
    BY <1>2, SameFolders DEF QInv, BeyondIsNext
  <2> QED BY <2>4, <2>5, <2>6 DEF BeyondIsNext
<1> QED
  BY <1>1, <1>2, <1>3, <1>4, SameFolders DEF QInv, Settled, RoomMade, Appended

LEMMA EndEpochQInv ==
  ASSUME IInv, QInv, EndEpoch
  PROVE  QInv'
<1>1. /\ pc = "fetch" /\ pc' \in {"fetch", "ended"}
      /\ UNCHANGED <<dirs, saved, doomed, tracker, tail, run, globalStep>>
  BY DEF EndEpoch, InEpoch, managerVars
<1>2. OldBound'
  BY <1>1, SameFolders, OldShrinks DEF QInv
<1>3. tail = "none"
  BY <1>1 DEF IInv, Resting
<1>4. BeyondIsNext'
  BY <1>1, SameFolders DEF QInv, BeyondIsNext
<1> QED
  BY <1>1, <1>2, <1>3, <1>4, SameFolders DEF QInv, Settled, RoomMade, Appended

(* Rank 0 is neither before the rotation nor past its return.               *)
Between(ph) == ph \notin {"rotate", "returned"}

(* What a step of the ranks does to the folders and to rank 0's list.       *)
FoldersMove ==
  \/ /\ UNCHANGED <<dirs, saved, doomed>>
     /\ phase'[0] = phase[0] \/ (Between(phase[0]) /\ Between(phase'[0]))
  \/ /\ M!Rotate
  \/ /\ \E d \in doomed : dirs' = dirs \ {d} /\ doomed' = doomed \ {d}
     /\ UNCHANGED <<saved, phase>>
  \/ /\ dirs' = dirs \cup {globalStep} /\ tail # "barrier"
     /\ UNCHANGED <<saved, doomed>>
     /\ phase'[0] = phase[0] \/ (Between(phase[0]) /\ Between(phase'[0]))
  \/ /\ Between(phase[0]) /\ phase'[0] = "returned" /\ doomed' = {}
     /\ saved' = Append(saved, globalStep)
     /\ UNCHANGED <<dirs, doomed>>

LEMMA RanksMoveFolders ==
  ASSUME IInv, QuotaConfiguration, Barrier \/ \E r \in Ranks : Rank(r)
  PROVE  FoldersMove
<1> USE DEF Between
<1>1. /\ pc = "save" /\ 0 \in Ranks /\ phase \in [Ranks -> M!Phases]
      /\ M!SaveInv(globalStep, Guarded, model)'
      /\ DumpTogether /\ (tail # "none" => phase[0] = "returned")
  BY RankKeeps, ConstantFacts
  DEF QuotaConfiguration, IInv, TypeOK, M!TypeOK, InSave
<1>2. CASE Barrier
  <2>1. CASE M!EnterBarrier
    BY <1>1, <2>1 DEF M!EnterBarrier, M!Barrier, FoldersMove
  <2>2. CASE M!DumpBarrier
    BY <1>1, <2>2 DEF M!DumpBarrier, M!Barrier, FoldersMove
  <2>3. CASE M!HfBarrier
    BY <1>1, <2>3 DEF M!HfBarrier, M!Barrier, FoldersMove
  <2> QED BY <1>2, <2>1, <2>2, <2>3 DEF Barrier, M!BarrierStep
<1>3. CASE \E r \in Ranks : Rank(r)
  <2>1. PICK r \in Ranks : Rank(r)
    BY <1>3
  <2>2. CASE \E d \in doomed : Remove(d)
    <3>1. PICK d \in doomed : Remove(d)
      BY <2>2
    <3>2. CASE RemoveData(d) \/ \E q \in Ranks : M!RemoveFile(d, q)
      BY <3>2 DEF RemoveData, M!RemoveFile, managerVars, FoldersMove
    <3>3. CASE RemoveFolder(d)
      BY <3>3 DEF RemoveFolder, M!RemoveDir, FoldersMove
    <3>4. ~M!RemoveFails(d)
      BY DEF QuotaConfiguration, M!RemoveFails
    <3> QED BY <3>1, <3>2, <3>3, <3>4 DEF Remove
  <2>3. CASE M!Mkdir(r, globalStep)
    <3>1. /\ phase[r] \notin Dumped /\ phase[r] \notin {"rotate"}
          /\ phase' = [phase EXCEPT ![r] = "entered"]
          /\ dirs' = dirs \cup {globalStep} /\ UNCHANGED <<saved, doomed>>
      BY <2>3 DEF M!Mkdir, M!Move, Dumped
    <3>2. phase[0] \notin Dumped
      BY <1>1, <3>1 DEF DumpTogether
    <3>3. tail # "barrier" /\ phase[0] # "returned"
      BY <1>1, <3>2 DEF Dumped
    <3> QED BY <1>1, <3>1, <3>3 DEF FoldersMove
  <2>4. CASE M!BeginWrite(r, globalStep) \/ M!EndWrite(r, globalStep, model[r])
    BY <1>1, <2>4 DEF M!BeginWrite, M!EndWrite, M!Move, FoldersMove
  <2>5. CASE r = 0 /\ M!SaveHf
    BY <1>1, <2>5 DEF M!SaveHf, M!Move, FoldersMove
  <2>6. CASE r = 0 /\ M!Rotate
    BY <2>6 DEF FoldersMove
  <2>7. CASE M!Return(r, globalStep)
    <3>1. CASE r = 0
      <4>1. /\ phase[0] = "append" /\ phase'[0] = "returned"
            /\ saved' = Append(saved, globalStep) /\ UNCHANGED <<dirs, doomed>>
        BY <1>1, <2>7, <3>1 DEF M!Return, M!Move
      <4>2. doomed' = {}
        BY <1>1, <4>1 DEF M!SaveInv
      <4> QED BY <4>1, <4>2 DEF FoldersMove
    <3>2. CASE r # 0
      BY <1>1, <2>7, <3>2 DEF M!Return, M!Move, FoldersMove
    <3> QED BY <3>1, <3>2
  <2> QED BY <2>1, <2>2, <2>3, <2>4, <2>5, <2>6, <2>7 DEF Rank
<1> QED BY <1>2, <1>3

(* Rotation: of what is on the disk rank 0 forgets the oldest folder only,   *)
(* which it is about to remove.                                             *)
LEMMA RotateQInv ==
  ASSUME IInv, QInv, QuotaConfiguration, pc = "save", M!Rotate,
         UNCHANGED <<tracker, pc, tail, run, globalStep>>
  PROVE  QInv'
<1>1. /\ 0 \in Ranks /\ MaxKeep \in Nat /\ MaxKeep > 1
      /\ saved \in Seq(Steps) /\ Len(saved) \in Nat /\ phase \in [Ranks -> M!Phases]
  BY ConstantFacts DEF IInv, TypeOK, M!TypeOK, QuotaConfiguration
<1>2. /\ phase[0] = "rotate" /\ phase'[0] = "remove" /\ UNCHANGED dirs
  BY <1>1 DEF M!Rotate, M!Move
<1>3. Len(saved) <= MaxKeep /\ doomed = {}
  BY <1>2 DEF QInv, RoomMade
<1>4. /\ Len(saved') < MaxKeep /\ \A d, e \in doomed' : d = e
      /\ \A d \in dirs : d \in Remembered => d \in Remembered' \/ d \in doomed'
  <2>1. CASE Len(saved) >= MaxKeep
    <3>1. M!KeepStart = 1
      BY <1>1, <1>3, <2>1 DEF M!KeepStart
    <3>2. /\ saved' = SubSeq(saved, 2, Len(saved))
          /\ doomed' = {saved[i] : i \in 1..1} \cap dirs
      BY <1>1, <2>1, <3>1 DEF M!Rotate
    <3>3. /\ Len(saved') = Len(saved) - 1
          /\ \A i \in 1..Len(saved') : saved'[i] = saved[i + 1]
      BY <1>1, <2>1, <3>2
    <3>4. ASSUME NEW i \in 1..Len(saved), saved[i] \in dirs
          PROVE  saved[i] \in Remembered' \/ saved[i] \in doomed'
      <4>1. CASE i = 1
        BY <3>2, <3>4, <4>1
      <4>2. CASE i # 1
        <5>1. i - 1 \in 1..Len(saved') /\ saved'[i - 1] = saved[i]
          BY <1>1, <3>3, <4>2
        <5> QED BY <5>1 DEF Remembered
      <4> QED BY <4>1, <4>2
    <3>5. \A d, e \in doomed' : d = e
      BY <3>2
    <3>6. Len(saved') < MaxKeep
      BY <1>1, <1>3, <3>3
    <3> QED BY <3>4, <3>5, <3>6 DEF Remembered
  <2>2. CASE ~(Len(saved) >= MaxKeep)
    <3>1. UNCHANGED <<doomed, saved>>
      BY <2>2 DEF M!Rotate
    <3> QED BY <1>1, <1>3, <2>2, <3>1 DEF Remembered
  <2> QED BY <2>1, <2>2
<1>5. Beyond' = Beyond /\ \A d : NextSave(d)' <=> NextSave(d)
  BY <1>2 DEF Beyond, NextSave
<1>6. Old' \subseteq Old
  BY <1>2, <1>3, <1>4, <1>5 DEF Old
<1>7. OldBound'
  BY <1>6, OldShrinks DEF QInv
<1>8. BeyondIsNext' /\ Settled'
  BY <1>5 DEF QInv, BeyondIsNext, Settled
<1>9. RoomMade' /\ Appended'
  BY <1>2, <1>4 DEF RoomMade, Appended
<1> QED BY <1>7, <1>8, <1>9 DEF QInv

(* No step of the ranks exceeds the quota: a folder that appears is the one *)
(* being saved, and what rank 0 appends was on the disk.                    *)
LEMMA RankQInv ==
  ASSUME IInv, QInv, QuotaConfiguration, Barrier \/ \E r \in Ranks : Rank(r)
  PROVE  QInv'
<1> USE DEF Between
<1>1. /\ pc = "save" /\ UNCHANGED <<tracker, pc, tail, run, globalStep>>
      /\ globalStep \in Steps /\ globalStep \in Nat /\ tracker \in Nat
      /\ tail # "barrier" => tracker < globalStep
      /\ saved \in Seq(Steps) /\ Len(saved) \in Nat /\ MaxKeep \in Nat
  <2>1. pc = "save" /\ UNCHANGED <<tracker, pc, tail, run, globalStep>>
    BY RankKeeps DEF QuotaConfiguration
  <2>2. /\ globalStep \in Steps /\ tracker \in Nat
        /\ tail # "barrier" => tracker < globalStep
    BY <2>1, SaveFacts
  <2>3. saved \in Seq(Steps)
    BY DEF IInv, TypeOK, M!TypeOK
  <2> QED BY <2>1, <2>2, <2>3, ConstantFacts
<1>2. \A d : NextSave(d)' <=> NextSave(d)
  BY <1>1 DEF NextSave
<1>3. CASE /\ UNCHANGED <<dirs, saved, doomed>>
           /\ phase'[0] = phase[0] \/ (Between(phase[0]) /\ Between(phase'[0]))
  <2>1. OldBound'
    BY <1>1, <1>3, SameFolders, OldShrinks DEF QInv
  <2>2. BeyondIsNext' /\ Settled'
    BY <1>1, <1>2, <1>3, SameFolders DEF QInv, BeyondIsNext, Settled
  <2>3. RoomMade' /\ Appended'
    BY <1>1, <1>3, SameFolders DEF QInv, RoomMade, Appended
  <2> QED BY <2>1, <2>2, <2>3 DEF QInv
<1>4. CASE M!Rotate
  BY <1>1, <1>4, RotateQInv
<1>5. CASE /\ \E d \in doomed : dirs' = dirs \ {d} /\ doomed' = doomed \ {d}
           /\ UNCHANGED <<saved, phase>>
  <2>1. Remembered' = Remembered /\ Beyond' \subseteq Beyond /\ Old' \subseteq Old
    BY <1>1, <1>5 DEF Remembered, Beyond, Old
  <2>2. OldBound'
    BY <1>1, <2>1, OldShrinks DEF QInv
  <2>3. BeyondIsNext' /\ Settled'
    BY <1>1, <1>2, <2>1 DEF QInv, BeyondIsNext, Settled
  <2>4. RoomMade' /\ Appended'
    BY <1>1, <1>5, <2>1 DEF QInv, RoomMade, Appended
  <2> QED BY <2>2, <2>3, <2>4 DEF QInv
<1>6. CASE /\ dirs' = dirs \cup {globalStep} /\ tail # "barrier"
           /\ UNCHANGED <<saved, doomed>>
           /\ phase'[0] = phase[0] \/ (Between(phase[0]) /\ Between(phase'[0]))
  <2>1. /\ Remembered' = Remembered /\ Beyond' = Beyond \cup {globalStep}
        /\ Old' \subseteq Old
    BY <1>1, <1>6 DEF Remembered, Beyond, Old
  <2>2. OldBound'
    BY <1>1, <2>1, OldShrinks DEF QInv
  <2>3. BeyondIsNext' /\ Settled'
    BY <1>1, <1>2, <1>6, <2>1 DEF QInv, BeyondIsNext, Settled
  <2>4. RoomMade' /\ Appended'
    BY <1>1, <1>6, <2>1 DEF QInv, RoomMade, Appended
  <2> QED BY <2>2, <2>3, <2>4 DEF QInv
<1>7. CASE /\ Between(phase[0]) /\ phase'[0] = "returned" /\ doomed' = {}
           /\ saved' = Append(saved, globalStep)
           /\ UNCHANGED <<dirs, doomed>>
  <2>1. /\ Len(saved') = Len(saved) + 1 /\ saved'[Len(saved) + 1] = globalStep
        /\ \A i \in 1..Len(saved) : saved'[i] = saved[i]
    BY <1>1, <1>7
  <2>2. Remembered \subseteq Remembered' /\ globalStep \in Remembered'
    BY <1>1, <2>1 DEF Remembered
  <2>3. Beyond' = Beyond
    BY <1>1, <1>7 DEF Beyond
  <2>4. Old' \subseteq Old
    BY <1>7, <2>2, <2>3 DEF Old
  <2>5. OldBound'
    BY <1>1, <2>4, OldShrinks DEF QInv
  <2>6. BeyondIsNext' /\ Settled'
    BY <1>1, <1>2, <2>3 DEF QInv, BeyondIsNext, Settled
  <2>7. Len(saved) < MaxKeep
    BY <1>1, <1>7 DEF QInv, RoomMade
  <2>8. Len(saved') <= MaxKeep
    BY <1>1, <2>1, <2>7
  <2>9. RoomMade' /\ Appended'
    BY <1>1, <1>7, <2>2, <2>8 DEF RoomMade, Appended
  <2> QED BY <2>5, <2>6, <2>9 DEF QInv
<1> QED BY <1>3, <1>4, <1>5, <1>6, <1>7, RanksMoveFolders DEF FoldersMove

(* The rename settles the folder just written: none is above it, and none   *)
(* lies between it and the one tracked so far.                              *)
LEMMA TailQInv ==
  ASSUME IInv, QInv, RankZeroTail
  PROVE  QInv'
<1>1. /\ pc = "save" /\ phase[0] = "returned" /\ tail # "barrier"
      /\ UNCHANGED <<dirs, saved, doomed, phase, pc, run, globalStep>>
  BY DEF RankZeroTail, BeginSaveData, EndSaveData, WriteTmpTracker, RenameTracker, TailStep,
         Saving, managerVars, loopVars
<1>2. /\ globalStep \in Steps /\ globalStep \in Nat /\ tracker \in Nat
      /\ tracker < globalStep /\ dirs \subseteq Steps
  BY <1>1, SaveFacts, ConstantFacts DEF M!SaveInv, M!TypeOK
<1>3. Remembered' = Remembered
  BY <1>1 DEF Remembered
<1>4. RoomMade' /\ Appended'
  BY <1>1, <1>3 DEF QInv, RoomMade, Appended
<1>5. CASE tracker' = tracker /\ tail' # "barrier"
  <2>1. OldBound'
    BY <1>1, <1>5, SameFolders, OldShrinks DEF QInv
  <2>2. BeyondIsNext' /\ Settled'
    BY <1>1, <1>5, SameFolders DEF QInv, BeyondIsNext, Settled
  <2> QED BY <1>4, <2>1, <2>2 DEF QInv
<1>6. CASE tracker' = globalStep /\ tail' = "barrier"
  <2>1. NextSave(globalStep) /\ globalStep \in Remembered
    BY <1>1 DEF QInv, BeyondIsNext, Appended
  <2>2. ASSUME NEW d \in dirs, d > tracker PROVE d = globalStep
    <3>1. d \in Steps /\ d \in Nat /\ NextSave(d)
      BY <1>2, <2>2, ConstantFacts DEF QInv, BeyondIsNext, Beyond
    <3>2. ~(d < globalStep) /\ ~(globalStep < d)
      BY <1>2, <2>1, <2>2, <3>1 DEF NextSave
    <3> QED BY <1>2, <3>1, <3>2
  <2>3. Beyond' = {}
    <3> SUFFICES ASSUME NEW d \in dirs, d > globalStep PROVE FALSE
      BY <1>1, <1>6 DEF Beyond
    <3>1. d \in Nat
      BY <1>2, ConstantFacts
    <3> QED BY <1>2, <2>2, <3>1
  <2>4. Old' \subseteq Old
    BY <1>1, <1>3, <2>1, <2>2 DEF Old, Beyond
  <2>5. OldBound'
    BY <1>1, <2>4, OldShrinks DEF QInv
  <2>6. BeyondIsNext' /\ Settled'
    BY <1>1, <1>6, <2>3 DEF BeyondIsNext, Settled
  <2> QED BY <1>4, <2>5, <2>6 DEF QInv
<1>7. \/ tracker' = tracker /\ tail' # "barrier"
      \/ tracker' = globalStep /\ tail' = "barrier"
  BY DEF RankZeroTail, BeginSaveData, EndSaveData, WriteTmpTracker, RenameTracker, TailStep
<1> QED BY <1>5, <1>6, <1>7

LEMMA SavedQInv ==
  ASSUME IInv, QInv, Saved
  PROVE  QInv'
<1>1. /\ pc = "save" /\ tail = "barrier" /\ tail' = "none" /\ M!Collect
      /\ pc' \in {"finished", "fetch"}
      /\ UNCHANGED <<tracker, run, globalStep>>
  BY DEF Saved, Saving, loopVars
<1>2. UNCHANGED <<dirs, saved, doomed>> /\ phase[0] = "returned"
  BY <1>1, ConstantFacts DEF M!Collect
<1>3. tracker = globalStep /\ tracker \in Nat
  BY <1>1, SaveFacts
<1>4. OldBound'
  BY <1>1, <1>2, SameFolders, OldShrinks DEF QInv
<1>5. Beyond' = {}
  BY <1>1, <1>2, SameFolders DEF QInv, Settled
<1>6. \A s \in Steps : ~(tracker < s /\ s <= globalStep)
  BY <1>3, ConstantFacts
<1>7. BeyondIsNext' /\ Settled'
  BY <1>1, <1>5, <1>6 DEF BeyondIsNext, Settled
<1>8. RoomMade' /\ Appended'
  BY <1>1, <1>2 DEF QInv, RoomMade, Appended
<1> QED BY <1>4, <1>7, <1>8 DEF QInv

(* A crash makes the folders rank 0 knew of those of an earlier start.      *)
LEMMA CrashQInv ==
  ASSUME IInv, QInv, QuotaConfiguration, Crash
  PROVE  QInv'
<1> DEFINE known == Remembered \cup doomed
<1>1. /\ pc \in {"fetch", "save"} /\ pc' = "down" /\ tail' = "none"
      /\ saved' = << >> /\ doomed' = {}
      /\ UNCHANGED <<dirs, tracker, run, globalStep>>
  BY DEF Crash, Up, M!Exit
<1>2. Beyond' = Beyond /\ \A d : NextSave(d)' <=> NextSave(d)
  BY <1>1 DEF Beyond, NextSave
<1>3. /\ IsFiniteSet(known) /\ Cardinality(known) \in Nat /\ Cardinality(known) <= MaxKeep
  BY KnownSize DEF QInv
<1>4. /\ IsFiniteSet(Old) /\ Cardinality(Old) \in Nat
      /\ Cardinality(Old) <= (run - 1) * MaxKeep
  <2>1. Old \in SUBSET dirs
    BY DEF Old
  <2> QED BY <1>1, <2>1, FoldersAreFinite DEF QInv, OldBound
<1>5. Old' \in SUBSET (Old \cup known)
  BY <1>1, <1>2 DEF Old
<1>6. /\ IsFiniteSet(Old \cup known)
      /\ Cardinality(Old \cup known) = Cardinality(Old) + Cardinality(known)
                                         - Cardinality(Old \cap known)
  BY <1>3, <1>4, FS_Union
<1>7. Cardinality(Old \cap known) \in Nat
  <2>1. IsFiniteSet(Old \cap known)
    BY <1>4, FS_Subset
  <2> QED BY <2>1, FS_CardinalityType
<1>8. IsFiniteSet(Old') /\ Cardinality(Old') <= Cardinality(Old \cup known)
  BY <1>5, <1>6, FS_Subset
<1>9. Cardinality(Old') \in Nat /\ Cardinality(Old \cup known) \in Nat
  BY <1>6, <1>8, FS_CardinalityType
<1>10. /\ MaxKeep \in Nat /\ run * MaxKeep \in Int /\ (run - 1) * MaxKeep \in Int
       /\ (run - 1) * MaxKeep + MaxKeep = run * MaxKeep
  BY ConstantFacts, Products DEF IInv, TypeOK
<1>11. Cardinality(Old') <= run * MaxKeep
  <2> HIDE DEF known
  <2> QED BY ONLY <1>3, <1>4, <1>6, <1>7, <1>8, <1>9, <1>10
<1>12. OldBound'
  BY <1>1, <1>11 DEF OldBound
<1>13. BeyondIsNext' /\ Settled'
  BY <1>1, <1>2 DEF QInv, BeyondIsNext, Settled
<1>14. RoomMade' /\ Appended'
  BY <1>1, <1>10 DEF RoomMade, Appended
<1> QED BY <1>12, <1>13, <1>14 DEF QInv

LEMMA StutterQInv ==
  ASSUME QInv, UNCHANGED vars
  PROVE  QInv'
<1>1. UNCHANGED <<dirs, saved, doomed, phase, tracker, pc, tail, run, globalStep>>
  BY DEF vars, managerVars, loopVars
<1>2. Old' = Old /\ Beyond' = Beyond /\ Remembered' = Remembered
  BY <1>1, SameFolders
<1>3. OldBound' /\ BeyondIsNext' /\ Settled'
  BY <1>1, <1>2, SameFolders DEF QInv, OldBound, BeyondIsNext, Settled
<1>4. RoomMade' /\ Appended'
  BY <1>1, <1>2 DEF QInv, RoomMade, Appended
<1> QED BY <1>3, <1>4 DEF QInv

LEMMA NextQInv ==
  ASSUME IInv, QInv, QuotaConfiguration, [Next]_vars
  PROVE  QInv'
BY StartQInv, TrainQInv, EndEpochQInv, RankQInv, TailQInv, SavedQInv, CrashQInv, StutterQInv
DEF Next

(* QuotaPerStart: however often a job is started, and wherever the crashes  *)
(* hit it, there is one quota of folders for each start and at most one     *)
(* folder more, of the save that is under way or was cut short.             *)
THEOREM QuotaKept ==
  ASSUME QuotaConfiguration
  PROVE  Spec => []QuotaPerStart
<1>1. Init => IInv /\ QInv
  BY InitIInv, InitQInv
<1>2. IInv /\ QInv /\ [Next]_vars => (IInv /\ QInv)'
  BY NextIInv, NextQInv DEF QuotaConfiguration
<1>3. IInv /\ QInv => QuotaPerStart
  BY QuotaHolds
<1> QED BY <1>1, <1>2, <1>3, PTL DEF Spec

-----------------------------------------------------------------------------
(* The engine-based trainer: SFTTrainer, which has the same constants and   *)
(* variables.  It also restarts from folders that are not whole: the first  *)
(* invariant holds in every run, the second until a checkpoint is resumed.  *)

(* A state that is not of two saves has seen at most n batches.             *)
AtMost(state, n) == state # Torn => state.batches <= n

EngineResting ==
  /\ pc # "save" => EM!Idle /\ doomed = {} /\ tail = NoTail
  /\ pc \in {"down", "failed"} => saved = << >>

(* global_step begins at 0 in every run: the batches a state has seen are   *)
(* bounded by the runs there have been, not by the step.                    *)
EngineCounts ==
  /\ pc = "fetch" => globalStep < TotalSteps
  /\ pc = "save" => globalStep \in Steps /\ \A r \in Ranks : pos[r] >= 1
  /\ Up => run >= 1 /\ \A r \in Ranks : AtMost(model[r], TotalSteps * (run - 1) + globalStep)
  /\ \A s \in Steps : \A r \in Ranks :
        shard[s][r] # Absent => AtMost(shard[s][r], TotalSteps * run)

(* What rank 0 remembers between the managers' saves: the folder of this    *)
(* step, if at all, as the last.                                            *)
EngineMemory ==
  pc = "fetch" \/ (pc = "save" /\ tail # NoTail) =>
    /\ \A i \in 1..Len(saved) : saved[i] <= globalStep
    /\ \A i \in 1..(Len(saved) - 1) : saved[i] < globalStep

(* While the managers save, the folders they endanger are older ones.       *)
EngineInManager ==
  pc = "save" /\ tail = NoTail => EM!SaveInv(globalStep, NoTracker, model)

(* Once they have returned, the folder holds what the ranks hold, and rank  *)
(* 0 has its data file before the tracker names the folder.                 *)
EngineInTail ==
  pc = "save" /\ tail # NoTail =>
    /\ EM!Idle /\ doomed = {}
    /\ \A r \in Ranks : tail[r] # "none"
    /\ shard[globalStep] = model
    /\ tail[0] \in {"tmp_tracker", "rename", "barrier"} => dataPt[globalStep][0] = pos[0]

EngineInv ==
  /\ EngineTypeOK
  /\ EngineResting
  /\ EngineCounts
  /\ EngineMemory
  /\ EngineInManager
  /\ EngineInTail

(* Until a checkpoint is resumed, the tracked folder is behind every save.  *)
FirstRunInv ==
  run <= 1 =>
    /\ tracker \in Steps => EM!Uniform(tracker)
    /\ run = 0 => pc = "down" /\ tracker = NoTracker
    /\ pc # "failed"
    /\ Up => \A r, q \in Ranks : model[r] \in EngineStates /\ model[r] = model[q]
    /\ pc = "fetch" => /\ tracker <= globalStep
                       /\ \A i \in 1..(Len(saved) - 1) : saved[i] # tracker
    /\ pc = "save" => IF tail[0] = "barrier" THEN tracker = globalStep
                                             ELSE tracker < globalStep
    /\ pc = "save" /\ tail = NoTail => EM!SaveInv(globalStep, tracker, model)

LEMMA EngineConstants ==
  /\ 0 \in Ranks /\ MaxKeep \in Nat
  /\ Steps = 1..TotalSteps /\ Steps \subseteq Nat /\ Steps \subseteq Int
  /\ NoTracker = 0 /\ 0 \notin Steps
  /\ TotalSteps \in Nat \ {0} /\ TotalEpochs \in Nat \ {0} /\ EpochLen \in Nat \ {0}
  /\ MaxRuns \in Nat
  /\ Pretrained \in EngineStates /\ Pretrained.batches = 0
<1>1. /\ TotalSteps \in Nat \ {0} /\ MaxRuns \in Nat
  BY SFTAssumption
<1>2. TotalSteps * MaxRuns \in Nat
  BY <1>1
<1>3. Pretrained \in EngineStates /\ Pretrained.batches = 0
  BY <1>1, <1>2 DEF Pretrained, EngineStates
<1> QED BY <1>1, <1>3, SFTAssumption DEF Steps, NoTracker

LEMMA EngineManagerUnchanged ==
  ASSUME EM!TypeOK, managerVars' = managerVars
  PROVE  /\ UNCHANGED <<shard, dirs, saved, doomed, phase>>
         /\ EM!TypeOK'
         /\ EM!Idle => EM!Idle'
BY DEF managerVars, EM!TypeOK, EM!Idle

(* A step of rank r is one of the manager's, or removes a data file.        *)
LEMMA EngineRankSteps ==
  ASSUME NEW r \in Ranks, EngineRank(r)
  PROVE  /\ pc = "save"
         /\ UNCHANGED <<tracker, pc, tail, run, globalStep, model, pos, epoch, resumed>>
         /\ \/ EM!RankStep(r, globalStep, model[r]) /\ dataPt' = dataPt
            \/ \E d \in doomed, q \in Ranks :
                  /\ dataPt' = [dataPt EXCEPT ![d][q] = Absent]
                  /\ UNCHANGED <<shard, dirs, saved, doomed, phase>>
<1>1. pc = "save" /\ UNCHANGED <<tracker, pc, tail, run, globalStep, model, pos, epoch, resumed>>
  BY DEF EngineRank, Saving, loopVars
<1>2. CASE \E d \in doomed, q \in Ranks : RemoveDataOf(d, q)
  BY <1>1, <1>2 DEF RemoveDataOf, managerVars
<1>3. CASE EM!RankStep(r, globalStep, model[r]) /\ dataPt' = dataPt
  BY <1>1, <1>3
<1> QED
  BY <1>1, <1>2, <1>3 DEF EngineRank, EngineRemove, EngineRemoveFolder, EM!RankStep

LEMMA EngineBarrierSteps ==
  ASSUME Barrier
  PROVE  /\ pc = "save" /\ EM!BarrierStep
         /\ UNCHANGED <<dataPt, tracker, pc, tail, run, globalStep, model, pos, epoch, resumed>>
BY DEF Barrier, Saving, loopVars, M!BarrierStep, EM!BarrierStep, M!EnterBarrier,
       EM!EnterBarrier, M!DumpBarrier, EM!DumpBarrier, M!HfBarrier, EM!HfBarrier,
       M!Barrier, EM!Barrier

LEMMA InitEngineInv == EngineInit => EngineInv /\ FirstRunInv
<1> SUFFICES ASSUME EngineInit PROVE EngineInv /\ FirstRunInv
  OBVIOUS
<1> USE EngineConstants
<1>1. EM!TypeOK /\ EM!Idle /\ saved = << >> /\ doomed = {}
  BY DEF EngineInit, EM!Init, EM!TypeOK, EM!Idle, EM!Phases, EM!Contents
<1>2. /\ \A s \in Steps : \A r \in Ranks : shard[s][r] = Absent
      /\ dataPt \in [Steps -> [Ranks -> (1..EpochLen) \cup {Absent, Torn}]]
  BY DEF EngineInit, EM!Init
<1>3. EngineTypeOK
  BY <1>1, <1>2 DEF EngineTypeOK, EngineInit, NoTail, Tails
<1> QED
  BY <1>1, <1>2, <1>3
  DEF EngineInit, EngineInv, FirstRunInv, EngineResting, EngineCounts, EngineMemory,
      EngineInManager, EngineInTail, Up

(* A start: the ranks begin at step 0 with what they have loaded.           *)
LEMMA StartEngineInv ==
  ASSUME EngineInv, EngineStartFromScratch \/ EngineStartFromCheckpoint
  PROVE  EngineInv'
<1> USE EngineConstants
<1>1. /\ pc \in {"down", "failed"} /\ pc' = "fetch" /\ run' = run + 1 /\ run < MaxRuns
      /\ globalStep' = 0 /\ epoch' = [r \in Ranks |-> 0] /\ resumed' = EngineResumeStep
      /\ UNCHANGED <<dataPt, tracker, tail>> /\ UNCHANGED managerVars
  <2>1. 0 \div EpochLen = 0
    OBVIOUS
  <2> QED
    BY <2>1 DEF EngineStartFromScratch, EngineStartFromCheckpoint, EngineMayStart, EnterFit,
                EngineResumeStep, StartEpoch
<1>2. /\ EM!TypeOK /\ EM!Idle /\ doomed = {} /\ tail = NoTail /\ saved = << >>
      /\ run \in 0..MaxRuns
      /\ dataPt \in [Steps -> [Ranks -> (1..EpochLen) \cup {Absent, Torn}]]
  BY <1>1 DEF EngineInv, EngineTypeOK, EngineResting
<1>3. UNCHANGED <<shard, dirs, saved, doomed, phase>> /\ EM!TypeOK' /\ EM!Idle'
  BY <1>1, <1>2, EngineManagerUnchanged
<1>4. TotalSteps * run \in Nat /\ TotalSteps * run <= TotalSteps * (run + 1)
  BY <1>2
<1>5. /\ model' \in [Ranks -> EngineStates \cup {Torn}] /\ pos' \in [Ranks -> 0..EpochLen]
      /\ \A r \in Ranks : AtMost(model'[r], TotalSteps * run)
  <2>1. CASE EngineStartFromScratch
    BY <1>4, <2>1 DEF EngineStartFromScratch, AtMost
  <2>2. CASE EngineStartFromCheckpoint
    <3>1. PICK s \in Steps : s = LatestCkpt
      BY <2>2 DEF EngineStartFromCheckpoint, LatestCkpt
    <3>2. /\ model' = shard[s] /\ \A r \in Ranks : shard[s][r] # Absent
          /\ \A r \in Ranks : dataPt[s][r] # Torn
          /\ pos' = [r \in Ranks |-> IF dataPt[s][r] = Absent THEN 0 ELSE dataPt[s][r]]
      BY <2>2, <3>1 DEF EngineStartFromCheckpoint, EM!LoadYields
    <3>3. shard[s] \in [Ranks -> EngineStates \cup {Torn}]
      BY <1>2, <3>2 DEF EM!TypeOK, EM!Contents
    <3> QED BY <1>2, <3>2, <3>3 DEF EngineInv, EngineCounts
  <2> QED BY <2>1, <2>2
<1>6. EngineTypeOK'
  BY <1>1, <1>2, <1>3, <1>5 DEF EngineInv, EngineTypeOK
<1>7. EngineCounts'
  <2>1. \A s \in Steps : \A r \in Ranks :
           shard[s][r] # Absent => AtMost(shard[s][r], TotalSteps * (run + 1))
    <3> SUFFICES ASSUME NEW s \in Steps, NEW r \in Ranks, shard[s][r] # Absent,
                        shard[s][r] # Torn
                 PROVE  shard[s][r].batches <= TotalSteps * (run + 1)
      BY DEF AtMost
    <3>1. shard[s][r] \in EngineStates
      BY <1>2 DEF EM!TypeOK, EM!Contents
    <3>2. shard[s][r].batches \in Int
      BY <3>1 DEF EngineStates
    <3>3. shard[s][r].batches <= TotalSteps * run
      BY DEF EngineInv, EngineCounts, AtMost
    <3> QED BY ONLY <1>2, <1>4, <3>2, <3>3, EngineConstants
  <2>2. pc' = "fetch" /\ run' = run + 1 /\ globalStep' = 0 /\ run \in Nat
    BY <1>1, <1>2
  <2>3. \A r \in Ranks : AtMost(model'[r], TotalSteps * (run' - 1) + globalStep')
    BY <1>4, <1>5, <2>2 DEF AtMost
  <2>4. \A s \in Steps : \A r \in Ranks :
           shard'[s][r] # Absent => AtMost(shard'[s][r], TotalSteps * run')
    BY <1>3, <2>1, <2>2
  <2> QED BY <2>2, <2>3, <2>4, SMTT(30) DEF EngineCounts
<1> QED
  BY <1>1, <1>2, <1>3, <1>6, <1>7
  DEF EngineInv, EngineResting, EngineMemory, EngineInManager, EngineInTail, NoTail

LEMMA EngineRemembered ==
  ASSUME NEW mem \in Seq(Steps), NEW i \in 1..Len(mem)
  PROVE  mem[i] \in Nat /\ mem[i] # 0
<1>1. mem[i] \in Steps
  OBVIOUS
<1> QED BY <1>1, EngineConstants

(* A training step takes no state over its bound.                           *)
LEMMA EngineTrained ==
  ASSUME EngineInv, EngineTrain
  PROVE  /\ model' \in [Ranks -> EngineStates \cup {Torn}]
         /\ \A r \in Ranks : AtMost(model'[r], TotalSteps * (run - 1) + globalStep')
         /\ \A r \in Ranks : model[r] \in EngineStates => model'[r] \in EngineStates
<1> USE EngineConstants
<1> DEFINE seen == TotalSteps * (run - 1)
<1>1. /\ run \in 1..MaxRuns /\ globalStep \in Nat /\ globalStep < TotalSteps
      /\ model \in [Ranks -> EngineStates \cup {Torn}]
      /\ \A r \in Ranks : AtMost(model[r], seen + globalStep)
  BY DEF EngineInv, EngineTypeOK, EngineCounts, EngineTrain, Up
<1>2. /\ globalStep' = globalStep + 1
      /\ model' = [r \in Ranks |-> Trained(model[r])]
  BY DEF EngineTrain
<1>3. seen \in Nat /\ seen + TotalSteps <= TotalSteps * MaxRuns
  <2>1. seen + TotalSteps = TotalSteps * run
    BY ONLY <1>1, EngineConstants
  <2>2. TotalSteps * run <= TotalSteps * MaxRuns
    BY ONLY <1>1, EngineConstants
  <2>3. seen \in Nat /\ TotalSteps * run \in Nat /\ TotalSteps * MaxRuns \in Nat
    BY ONLY <1>1, EngineConstants
  <2> QED BY <2>1, <2>2, <2>3
<1> HIDE DEF seen
<1>4. ASSUME NEW r \in Ranks
      PROVE  /\ model'[r] \in EngineStates \cup {Torn}
             /\ AtMost(model'[r], seen + globalStep')
             /\ model[r] \in EngineStates => model'[r] \in EngineStates
  <2>1. CASE model[r] = Torn
    BY <1>1, <1>2, <2>1 DEF Trained, AtMost
  <2>2. CASE model[r] # Torn
    <3>1. model[r] \in EngineStates /\ model[r].batches <= seen + globalStep
      BY <1>1, <2>2 DEF AtMost
    <3>2. /\ model[r].batches \in Nat
          /\ model[r].batches + 1 <= seen + globalStep'
          /\ model[r].batches + 1 \in 0..(TotalSteps * MaxRuns)
      <4>1. model[r].batches \in Nat /\ TotalSteps * MaxRuns \in Nat
        BY <1>1, <3>1 DEF EngineStates
      <4> HIDE DEF AtMost
      <4> QED BY ONLY <1>1, <1>2, <1>3, <3>1, <4>1, EngineConstants
    <3>3. model'[r] = [run |-> run, batches |-> model[r].batches + 1]
      BY <1>2, <2>2 DEF Trained
    <3> QED BY <1>1, <3>2, <3>3 DEF EngineStates, AtMost
  <2> QED BY <2>1, <2>2
<1> QED BY <1>2, <1>4 DEF seen

LEMMA TrainEngineInv ==
  ASSUME EngineInv, EngineTrain
  PROVE  EngineInv'
<1> USE EngineConstants
<1>1. /\ pc = "fetch" /\ globalStep' = globalStep + 1
      /\ \A r \in Ranks : pos[r] < EpochLen
      /\ pos' = [r \in Ranks |-> pos[r] + 1]
      /\ \/ pc' = "save" /\ EM!Call
         \/ pc' = "fetch" /\ UNCHANGED managerVars /\ ~MustSave(globalStep')
      /\ UNCHANGED <<dataPt, tracker, tail, run, epoch, resumed>>
  BY DEF EngineTrain
<1>2. /\ globalStep \in Nat /\ globalStep < TotalSteps /\ pos \in [Ranks -> Nat]
      /\ run >= 1 /\ run \in Nat
      /\ EM!Idle /\ doomed = {} /\ tail = NoTail /\ EM!TypeOK
      /\ \A i \in 1..Len(saved) : saved[i] <= globalStep
  BY <1>1, SMTT(30) DEF EngineInv, EngineTypeOK, EngineCounts, EngineResting, EngineMemory, Up
<1>3. /\ UNCHANGED <<shard, dirs, saved, doomed>> /\ EM!TypeOK'
      /\ pc' = "fetch" => EM!Idle'
      /\ pc' = "save" => \A r \in Ranks : phase'[r] \in {"rotate", "mkdir"}
  <2>1. CASE pc' = "save" /\ EM!Call
    BY <1>2, <2>1 DEF EM!Call, EM!TypeOK, EM!Phases
  <2>2. CASE pc' = "fetch" /\ UNCHANGED managerVars
    BY <1>2, <2>2, EngineManagerUnchanged
  <2> QED BY <1>1, <2>1, <2>2
<1>4. EngineTypeOK'
  BY <1>1, <1>2, <1>3, EngineTrained, SMTT(30) DEF EngineInv, EngineTypeOK
<1>5. pc' = "fetch" => globalStep' < TotalSteps
  BY <1>1, <1>2 DEF MustSave
<1>6. EngineCounts'
  BY <1>1, <1>2, <1>3, <1>5, EngineTrained DEF EngineInv, EngineCounts, Up
<1>7. \A i \in 1..Len(saved) : saved[i] < globalStep' /\ saved[i] # 0
  BY <1>1, <1>2, EngineRemembered DEF EM!TypeOK
<1>8. EngineMemory'
  <2>1. \A i \in 1..Len(saved) : saved[i] \in Nat
    BY <1>2, EngineRemembered DEF EM!TypeOK
  <2> QED BY <1>1, <1>2, <1>3, <1>7, <2>1 DEF EngineMemory
<1>9. EngineInManager'
  <2> SUFFICES ASSUME pc' = "save"
               PROVE  EM!SaveInv(globalStep, NoTracker, model)'
    BY DEF EngineInManager
  <2>1. doomed' = {} /\ EM!TypeOK'
    BY <1>2, <1>3
  <2>2. \A r \in Ranks : phase'[r] \notin EM!PastWrite
    BY <1>3 DEF EM!PastWrite
  <2>3. EM!RemembersOlder(globalStep)'
    BY <1>3, <1>7 DEF EM!RemembersOlder
  <2>4. \A i \in 1..(Len(saved') - 1) : saved'[i] # NoTracker
    <3>1. saved' = saved /\ saved \in Seq(Nat)
      BY <1>2, <1>3, EngineRemembered DEF EM!TypeOK
    <3>2. Len(saved) \in Nat
      BY <3>1
    <3> QED BY <1>7, <3>1, <3>2 DEF NoTracker
  <2> QED BY <2>1, <2>2, <2>3, <2>4 DEF EM!SaveInv
<1> QED
  BY <1>1, <1>2, <1>3, <1>4, <1>6, <1>8, <1>9
  DEF EngineInv, EngineResting, EngineInTail, NoTail

(* A start that raises, a rank's epoch, the end of the loop, and a crash.   *)
LEMMA IdleEngineInv ==
  ASSUME EngineInv, EngineStartFails \/ EngineEndLoop \/ (\E r \in Ranks : RankEndEpoch(r)) \/ EngineCrash
  PROVE  EngineInv'
<1> USE EngineConstants
<1> USE DEF EngineInv
<1>1. CASE EngineStartFails
  <2>1. /\ pc' = "failed" /\ run' = run + 1 /\ run < MaxRuns /\ pc \in {"down", "failed"}
        /\ UNCHANGED <<dataPt, tracker, tail, globalStep, model, pos, epoch, resumed>>
        /\ UNCHANGED managerVars
    BY <1>1 DEF EngineStartFails, EngineMayStart
  <2>2. /\ UNCHANGED <<shard, dirs, saved, doomed, phase>> /\ EM!TypeOK'
        /\ EM!Idle' /\ doomed = {} /\ tail = NoTail /\ saved = << >> /\ run \in Nat
    BY <2>1, EngineManagerUnchanged DEF EngineTypeOK, EngineResting
  <2>3. EngineCounts'
    <3> SUFFICES ASSUME NEW s \in Steps, NEW r \in Ranks, shard[s][r] # Absent,
                        shard[s][r] # Torn
                 PROVE  shard[s][r].batches <= TotalSteps * (run + 1)
      BY <2>1, <2>2 DEF EngineCounts, AtMost, Up
    <3>1. shard[s][r] \in EngineStates
      BY DEF EngineTypeOK, EM!TypeOK, EM!Contents
    <3>2. shard[s][r].batches \in Int
      BY <3>1 DEF EngineStates
    <3>3. shard[s][r].batches <= TotalSteps * run
      BY DEF EngineCounts, AtMost
    <3>4. TotalSteps * run <= TotalSteps * (run + 1)
      BY ONLY <2>2, EngineConstants
    <3> QED BY ONLY <2>2, <3>2, <3>3, <3>4, EngineConstants
  <2>4. EngineTypeOK'
    BY <2>1, <2>2 DEF EngineTypeOK
  <2> QED
    BY <2>1, <2>2, <2>3, <2>4
    DEF EngineResting, EngineMemory, EngineInManager, EngineInTail, NoTail
<1>2. CASE EngineEndLoop \/ \E r \in Ranks : RankEndEpoch(r)
  <2>1. /\ pc = "fetch" /\ pc' \in {"fetch", "ended"}
        /\ pos' \in [Ranks -> 0..EpochLen] /\ epoch' \in [Ranks -> 0..TotalEpochs]
        /\ UNCHANGED <<dataPt, tracker, tail, run, globalStep, model, resumed>>
        /\ UNCHANGED managerVars
    <3>1. CASE EngineEndLoop
      BY <3>1 DEF EngineEndLoop, loopVars, EngineTypeOK
    <3>2. CASE \E r \in Ranks : RankEndEpoch(r)
      <4>1. PICK r \in Ranks : RankEndEpoch(r)
        BY <3>2
      <4>2. epoch[r] \in 0..TotalEpochs /\ epoch[r] < TotalEpochs
        BY <4>1 DEF RankEndEpoch, InLoop, EngineTypeOK
      <4> QED BY <4>1, <4>2 DEF RankEndEpoch, EngineTypeOK
    <3> QED BY <1>2, <3>1, <3>2
  <2>2. /\ UNCHANGED <<shard, dirs, saved, doomed, phase>> /\ EM!TypeOK'
        /\ EM!Idle' /\ doomed = {} /\ tail = NoTail
    BY <2>1, EngineManagerUnchanged DEF EngineTypeOK, EngineResting
  <2> QED
    BY <2>1, <2>2
    DEF EngineTypeOK, EngineResting, EngineCounts, EngineMemory, EngineInManager,
        EngineInTail, NoTail, Up
<1>3. CASE EngineCrash
  <2>1. /\ pc' = "down" /\ tail' = NoTail /\ saved' = << >> /\ doomed' = {}
        /\ phase' = [r \in Ranks |-> "idle"] /\ UNCHANGED <<shard, dirs>>
        /\ model' = [r \in Ranks |-> Pretrained] /\ pos' = [r \in Ranks |-> 0]
        /\ UNCHANGED <<dataPt, tracker, run, globalStep, epoch, resumed>>
    BY <1>3 DEF EngineCrash, EM!Exit
  <2>2. EM!TypeOK' /\ EM!Idle' /\ tail' \in [Ranks -> Tails]
    BY <2>1 DEF EngineTypeOK, EM!TypeOK, EM!Idle, EM!Phases, NoTail, Tails
  <2>3. EngineTypeOK'
    BY <2>1, <2>2 DEF EngineTypeOK
  <2> QED
    BY <2>1, <2>2, <2>3
    DEF EngineResting, EngineCounts, EngineMemory, EngineInManager, EngineInTail, Up
<1> QED BY <1>1, <1>2, <1>3

(* No step of any rank inside the engine's save breaks SaveInv or touches  *)
(* the tracked folder, when more than one folder is kept or none is        *)
(* tracked.                                                                *)
LEMMA EngineRankSafe ==
  ASSUME 0 \in Ranks, Steps \subseteq Nat, MaxKeep \in Nat,
         NEW step \in Steps, NEW tracked \in Int, tracked # step,
         MaxKeep # 1 \/ tracked \notin Steps,
         NEW state \in [Ranks -> EngineStates \cup {Torn}], NEW r \in Ranks,
         EM!SaveInv(step, tracked, state), EM!RankStep(r, step, state[r])
  PROVE  /\ EM!SaveInv(step, tracked, state)'
         /\ tracked \in Steps => shard'[tracked] = shard[tracked]
         /\ tracked \in dirs => tracked \in dirs'
<1> USE DEF EM!SaveInv, EM!TypeOK, EM!RemembersOlder, EM!Move, EM!Phases, EM!PastWrite,
            EM!Contents
<1>1. CASE r = 0 /\ EM!Rotate
  <2>1. CASE MaxKeep > 0 /\ Len(saved) >= MaxKeep
    <3> DEFINE k == EM!KeepStart
               t == SubSeq(saved, k + 1, Len(saved))
    <3>1. k \in 1..Len(saved) /\ (k < Len(saved) \/ tracked \notin Steps)
      BY <2>1 DEF EM!KeepStart
    <3>2. /\ saved' = t
          /\ doomed' = {saved[i] : i \in 1..k} \cap dirs
          /\ phase' = [phase EXCEPT ![0] = "remove"] /\ phase[0] = "rotate"
          /\ UNCHANGED <<shard, dirs>>
      BY <1>1, <2>1 DEF EM!Rotate
    <3>3. /\ saved \in Seq(Steps) /\ \A i \in 1..Len(saved) : saved[i] < step
          /\ \A i \in 1..(Len(saved) - 1) : saved[i] # tracked
      BY <3>2
    <3> HIDE DEF k
    <3>4. /\ t \in Seq(Steps)
          /\ \A i \in 1..Len(t) : t[i] < step
          /\ \A i \in 1..(Len(t) - 1) : t[i] # tracked
          /\ \A i \in 1..k : saved[i] \in Steps /\ saved[i] < step /\ saved[i] # tracked
      BY <3>1, <3>3, OldestForgotten
    <3> HIDE DEF t
    <3> QED BY <3>2, <3>4
  <2>2. CASE ~(MaxKeep > 0 /\ Len(saved) >= MaxKeep)
    BY <1>1, <2>2 DEF EM!Rotate
  <2> QED BY <2>1, <2>2
<1>2. CASE r = 0 /\ \E d \in doomed, q \in Ranks : EM!RemoveFile(d, q)
  BY <1>2 DEF EM!RemoveFile
<1>3. CASE r = 0 /\ \E d \in doomed : EM!RemoveDir(d) \/ EM!RemoveFails(d)
  BY <1>3 DEF EM!RemoveDir, EM!RemoveFails
<1>4. CASE EM!Mkdir(r, step)
  BY <1>4 DEF EM!Mkdir
<1>5. CASE EM!BeginWrite(r, step)
  BY <1>5 DEF EM!BeginWrite
<1>6. CASE EM!EndWrite(r, step, state[r])
  BY <1>6 DEF EM!EndWrite
<1>7. CASE r = 0 /\ EM!SaveHf
  BY <1>7 DEF EM!SaveHf
<1>8. CASE EM!Return(r, step)
  <2>1. CASE r = 0
    <3>1. /\ saved' = Append(saved, step) /\ saved' \in Seq(Steps)
          /\ Len(saved') = Len(saved) + 1 /\ saved'[Len(saved')] = step
          /\ \A i \in 1..Len(saved) : saved'[i] = saved[i]
      BY <1>8, <2>1 DEF EM!Return
    <3>2. /\ phase[0] = "append" /\ UNCHANGED <<shard, dirs, doomed>>
          /\ phase' = [phase EXCEPT ![0] = "returned"]
      BY <1>8, <2>1 DEF EM!Return
    <3>3. phase'[0] = "returned"
      BY <3>2
    <3>4. EM!RemembersOlder(step)'
      BY <3>1, <3>2, <3>3
    <3> QED BY <3>1, <3>2, <3>3, <3>4
  <2>2. CASE r # 0
    BY <1>8, <2>2 DEF EM!Return
  <2> QED BY <2>1, <2>2
<1> QED BY <1>1, <1>2, <1>3, <1>4, <1>5, <1>6, <1>7, <1>8 DEF EM!RankStep

(* Nor does a barrier of its ranks.                                        *)
LEMMA EngineBarrierSafe ==
  ASSUME 0 \in Ranks, NEW step \in Steps, NEW tracked \in Int,
         NEW state \in [Ranks -> EngineStates \cup {Torn}],
         EM!SaveInv(step, tracked, state), EM!BarrierStep
  PROVE  EM!SaveInv(step, tracked, state)' /\ UNCHANGED <<shard, dirs>>
<1> USE DEF EM!SaveInv, EM!TypeOK, EM!RemembersOlder, EM!Barrier, EM!Phases, EM!PastWrite
<1>1. CASE EM!EnterBarrier  BY <1>1 DEF EM!EnterBarrier
<1>2. CASE EM!DumpBarrier   BY <1>2 DEF EM!DumpBarrier
<1>3. CASE EM!HfBarrier     BY <1>3 DEF EM!HfBarrier
<1> QED BY <1>1, <1>2, <1>3 DEF EM!BarrierStep

(* The managers write what the ranks hold, and only while no rank has left  *)
(* the engine's barrier.                                                   *)
LEMMA EngineManagerStep ==
  ASSUME EngineInv, Barrier \/ \E r \in Ranks : EngineRank(r)
  PROVE  /\ pc = "save" /\ tail = NoTail
         /\ UNCHANGED <<tracker, pc, tail, run, globalStep, model, pos, epoch, resumed>>
         /\ EM!SaveInv(globalStep, NoTracker, model)'
         /\ \A s \in Steps : \A r \in Ranks :
               shard'[s][r] \in {shard[s][r], Absent, Torn, model[r]}
         /\ dataPt' \in [Steps -> [Ranks -> (1..EpochLen) \cup {Absent, Torn}]]
<1> USE EngineConstants
<1>1. /\ pc = "save"
      /\ UNCHANGED <<tracker, pc, tail, run, globalStep, model, pos, epoch, resumed>>
      /\ \/ EM!BarrierStep /\ dataPt' = dataPt
         \/ \E r \in Ranks : EM!RankStep(r, globalStep, model[r]) /\ dataPt' = dataPt
         \/ \E d \in doomed, q \in Ranks : /\ dataPt' = [dataPt EXCEPT ![d][q] = Absent]
                                           /\ UNCHANGED <<shard, dirs, saved, doomed, phase>>
  BY EngineBarrierSteps, EngineRankSteps
<1>2. tail = NoTail
  <2> SUFFICES ASSUME tail # NoTail PROVE FALSE
    OBVIOUS
  <2>1. doomed = {} /\ \A r \in Ranks : phase[r] = "idle"
    BY <1>1 DEF EngineInv, EngineInTail, EM!Idle
  <2> QED
    BY <1>1, <2>1
    DEF EM!BarrierStep, EM!EnterBarrier, EM!DumpBarrier, EM!HfBarrier, EM!Barrier,
        EM!RankStep, EM!Rotate, EM!Mkdir, EM!BeginWrite, EM!EndWrite, EM!SaveHf,
        EM!Return, EM!Move
<1>3. PICK g, st : g = globalStep /\ st = model
  OBVIOUS
<1>4. /\ EM!SaveInv(g, NoTracker, st) /\ g \in Steps /\ NoTracker \in Int /\ NoTracker # g
      /\ NoTracker \notin Steps /\ st \in [Ranks -> EngineStates \cup {Torn}]
      /\ dataPt \in [Steps -> [Ranks -> (1..EpochLen) \cup {Absent, Torn}]]
      /\ shard \in [Steps -> [Ranks -> EngineStates \cup {Absent, Torn}]]
      /\ doomed \subseteq Steps
  BY <1>1, <1>2, <1>3
  DEF EngineInv, EngineTypeOK, EngineCounts, EngineInManager, EM!TypeOK, EM!Contents
<1>5. CASE EM!BarrierStep /\ dataPt' = dataPt
  <2>1. EM!SaveInv(g, NoTracker, st)' /\ UNCHANGED <<shard, dirs>>
    BY <1>4, <1>5, EngineBarrierSafe
  <2>2. EM!SaveInv(globalStep, NoTracker, model)'
    BY <1>1, <1>3, <2>1 DEF EM!SaveInv
  <2> QED BY <1>1, <1>2, <1>4, <1>5, <2>1, <2>2
<1>6. CASE \E r \in Ranks : EM!RankStep(r, globalStep, model[r]) /\ dataPt' = dataPt
  <2>1. PICK r \in Ranks : EM!RankStep(r, globalStep, model[r]) /\ dataPt' = dataPt
    BY <1>6
  <2>2. EM!RankStep(r, g, st[r])
    BY <1>3, <2>1
  <2>3. EM!SaveInv(g, NoTracker, st)'
    BY <1>4, <2>2, EngineRankSafe
  <2>4. EM!SaveInv(globalStep, NoTracker, model)'
    BY <1>1, <1>3, <2>3 DEF EM!SaveInv
  <2>5. \A s \in Steps : \A q \in Ranks :
           shard'[s][q] \in {shard[s][q], Absent, Torn, model[q]}
    <3>1. \/ shard' = shard
          \/ \E s \in Steps, q \in Ranks : shard' = [shard EXCEPT ![s][q] = Absent]
          \/ shard' = [shard EXCEPT ![g][r] = Torn]
          \/ shard' = [shard EXCEPT ![g][r] = st[r]]
      BY <1>4, <2>2
      DEF EM!RankStep, EM!Rotate, EM!RemoveFile, EM!RemoveDir, EM!RemoveFails, EM!Mkdir,
          EM!BeginWrite, EM!EndWrite, EM!SaveHf, EM!Return
    <3>2. shard \in [Steps -> [Ranks -> EngineStates \cup {Absent, Torn}]]
      BY <1>4
    <3> QED BY ONLY <1>3, <3>1, <3>2
  <2> QED BY <1>1, <1>2, <1>4, <2>1, <2>4, <2>5
<1>7. CASE \E d \in doomed, q \in Ranks : /\ dataPt' = [dataPt EXCEPT ![d][q] = Absent]
                                          /\ UNCHANGED <<shard, dirs, saved, doomed, phase>>
  <2>1. EM!SaveInv(globalStep, NoTracker, model)'
    BY <1>1, <1>3, <1>4, <1>7 DEF EM!SaveInv, EM!TypeOK, EM!RemembersOlder
  <2> QED BY <1>1, <1>2, <1>4, <1>7, <2>1
<1> QED BY <1>1, <1>5, <1>6, <1>7

LEMMA OneMoreStart == \A a, b \in Int : a * (b - 1) + a = a * b
OBVIOUS

LEMMA ManagerEngineInv ==
  ASSUME EngineInv, Barrier \/ \E r \in Ranks : EngineRank(r)
  PROVE  EngineInv'
<1> USE EngineConstants
<1>1. /\ pc = "save" /\ pc' = "save" /\ tail = NoTail /\ tail' = NoTail
      /\ UNCHANGED <<tracker, run, globalStep, model, pos, epoch, resumed>>
      /\ EM!SaveInv(globalStep, NoTracker, model)'
  BY EngineManagerStep
<1>2. EngineTypeOK'
  BY <1>1, EngineManagerStep DEF EngineInv, EngineTypeOK, EM!SaveInv
<1>3. EngineCounts'
  <2> SUFFICES ASSUME NEW s \in Steps, NEW r \in Ranks, shard'[s][r] # Absent,
                      shard'[s][r] # Torn
               PROVE  shard'[s][r].batches <= TotalSteps * run
    BY <1>1 DEF EngineInv, EngineCounts, AtMost, Up
  <2>1. CASE shard'[s][r] = shard[s][r]
    BY <2>1 DEF EngineInv, EngineCounts, AtMost
  <2>2. CASE shard'[s][r] = model[r]
    <3>1. /\ model[r] \in EngineStates
          /\ model[r].batches <= TotalSteps * (run - 1) + globalStep
          /\ run \in Nat /\ globalStep \in Nat /\ globalStep <= TotalSteps
      <4>1. model[r] # Torn /\ model[r] \in EngineStates \cup {Torn}
        BY <2>2 DEF EngineInv, EngineTypeOK
      <4>2. AtMost(model[r], TotalSteps * (run - 1) + globalStep)
        BY <1>1 DEF EngineInv, EngineCounts, Up
      <4>3. run \in Nat /\ globalStep \in Nat /\ globalStep <= TotalSteps
        BY EngineConstants DEF EngineInv, EngineTypeOK
      <4> QED BY ONLY <4>1, <4>2, <4>3 DEF AtMost
    <3>2. TotalSteps * (run - 1) + TotalSteps = TotalSteps * run
      <4>1. TotalSteps \in Int /\ run \in Int
        BY <3>1
      <4> QED BY ONLY <4>1, OneMoreStart
    <3>3. model[r].batches \in Int
      BY <3>1 DEF EngineStates
    <3>4. TotalSteps * (run - 1) \in Int /\ TotalSteps * run \in Int
      BY ONLY <3>1, EngineConstants
    <3>5. model[r].batches <= TotalSteps * run
      BY ONLY <3>1, <3>2, <3>3, <3>4, EngineConstants
    <3> QED BY <2>2, <3>5
  <2> QED BY <2>1, <2>2, EngineManagerStep
<1> QED
  BY <1>1, <1>2, <1>3
  DEF EngineInv, EngineResting, EngineMemory, EngineInManager, EngineInTail

(* Every manager has returned: each rank's shard is of what it holds.       *)
LEMMA CollectEngineInv ==
  ASSUME EngineInv, EngineBarrier
  PROVE  EngineInv'
<1> USE EngineConstants
<1>1. /\ pc = "save" /\ tail = NoTail /\ \A r \in Ranks : phase[r] = "returned"
      /\ phase' = [r \in Ranks |-> "idle"] /\ tail' = [r \in Ranks |-> "data"]
      /\ UNCHANGED <<shard, dirs, saved, doomed, dataPt, tracker, pc, run, globalStep,
                     model, pos, epoch, resumed>>
  BY DEF EngineBarrier, Saving, EM!Collect, loopVars
<1>2. EM!SaveInv(globalStep, NoTracker, model) /\ globalStep \in Steps
  BY <1>1 DEF EngineInv, EngineInManager, EngineCounts
<1>3. shard[globalStep] = model
  <2>1. \A r \in Ranks : shard[globalStep][r] = model[r]
    BY <1>1, <1>2 DEF EM!SaveInv, EM!PastWrite
  <2>2. /\ shard[globalStep] \in [Ranks -> EngineStates \cup {Absent, Torn}]
        /\ model \in [Ranks -> EngineStates \cup {Torn}]
    BY <1>2 DEF EM!SaveInv, EM!TypeOK, EM!Contents, EngineInv, EngineTypeOK
  <2> QED BY <2>1, <2>2
<1>4. doomed = {} /\ EM!Idle'
  BY <1>1, <1>2 DEF EM!SaveInv, EM!Idle
<1>5. EngineTypeOK'
  BY <1>1 DEF EngineInv, EngineTypeOK, EM!TypeOK, EM!Phases, Tails
<1>6. EngineMemory'
  <2>1. /\ saved \in Seq(Steps) /\ globalStep \in Nat
        /\ EM!RemembersOlder(globalStep)
    BY <1>2 DEF EM!SaveInv, EM!TypeOK
  <2>2. \A i \in 1..Len(saved) : saved[i] \in Nat
    BY <2>1, EngineRemembered
  <2> QED BY <1>1, <2>1, <2>2 DEF EngineMemory, EM!RemembersOlder
<1> QED
  BY <1>1, <1>3, <1>4, <1>5, <1>6
  DEF EngineInv, EngineResting, EngineCounts, EngineInManager, EngineInTail, NoTail, Up

(* After it, each rank writes its data file, and rank 0 the tracker.        *)
LEMMA TailEngineInv ==
  ASSUME EngineInv, NEW r \in Ranks, RankTail(r)
  PROVE  EngineInv' /\ pc = "save" /\ tail # NoTail
<1> USE EngineConstants
<1>1. /\ tail[r] \in {"data", "saving_data", "tmp_tracker", "rename"}
      /\ \E to \in {"saving_data", "tmp_tracker", "rename", "barrier"} :
            tail' = [tail EXCEPT ![r] = to]
      /\ UNCHANGED managerVars
      /\ UNCHANGED <<pc, run, globalStep, model, pos, epoch, resumed>>
  BY DEF RankTail, RankBeginSaveData, RankEndSaveData, EngineWriteTmpTracker, EngineRename,
         RankTailStep, loopVars
<1>2. tail # NoTail /\ pc = "save" /\ tail \in [Ranks -> Tails]
  BY <1>1 DEF EngineInv, EngineTypeOK, EngineResting, NoTail
<1>3. /\ EM!Idle /\ doomed = {} /\ shard[globalStep] = model
      /\ \A q \in Ranks : tail[q] # "none"
      /\ tail[0] \in {"tmp_tracker", "rename", "barrier"} => dataPt[globalStep][0] = pos[0]
      /\ globalStep \in Steps /\ \A q \in Ranks : pos[q] >= 1
      /\ pos \in [Ranks -> 0..EpochLen] /\ EM!TypeOK
      /\ dataPt \in [Steps -> [Ranks -> (1..EpochLen) \cup {Absent, Torn}]]
  BY <1>2 DEF EngineInv, EngineTypeOK, EngineCounts, EngineInTail
<1>4. UNCHANGED <<shard, dirs, saved, doomed, phase>> /\ EM!TypeOK' /\ EM!Idle'
  BY <1>1, <1>3, EngineManagerUnchanged
<1>5. \A q \in Ranks : tail'[q] # "none"
  BY <1>1, <1>2, <1>3
<1>6. tail' # NoTail /\ tail' \in [Ranks -> Tails]
  BY <1>1, <1>2, <1>5 DEF NoTail, Tails
<1>7. /\ dataPt' \in [Steps -> [Ranks -> (1..EpochLen) \cup {Absent, Torn}]]
      /\ tracker' \in Steps \cup {NoTracker}
      /\ tail'[0] \in {"tmp_tracker", "rename", "barrier"} => dataPt'[globalStep][0] = pos[0]
  <2>0. tracker \in Steps \cup {NoTracker}
    BY DEF EngineInv, EngineTypeOK
  <2>1. CASE RankBeginSaveData(r)
    BY <1>2, <1>3, <2>0, <2>1 DEF RankBeginSaveData, RankTailStep
  <2>2. CASE RankEndSaveData(r)
    BY <1>2, <1>3, <2>0, <2>2 DEF RankEndSaveData, RankTailStep
  <2>3. CASE r = 0 /\ (EngineWriteTmpTracker \/ EngineRename)
    BY <1>2, <1>3, <2>0, <2>3 DEF EngineWriteTmpTracker, EngineRename, RankTailStep
  <2> QED BY <2>1, <2>2, <2>3 DEF RankTail
<1>8. EngineTypeOK'
  BY <1>1, <1>4, <1>6, <1>7 DEF EngineInv, EngineTypeOK
<1> QED
  BY <1>1, <1>2, <1>3, <1>4, <1>5, <1>6, <1>7, <1>8
  DEF EngineInv, EngineResting, EngineCounts, EngineMemory, EngineInManager, EngineInTail,
      Up

LEMMA SavedEngineInv ==
  ASSUME EngineInv, EngineSaved
  PROVE  EngineInv' /\ pc = "save" /\ tail # NoTail
<1> USE EngineConstants
<1>1. /\ \A r \in Ranks : tail[r] = "barrier"
      /\ tail' = NoTail
      /\ pc' = IF globalStep >= TotalSteps THEN "finished" ELSE "fetch"
      /\ UNCHANGED <<dataPt, tracker, run, globalStep, model, pos, epoch, resumed>>
      /\ UNCHANGED managerVars
  BY DEF EngineSaved, loopVars
<1>2. tail # NoTail /\ pc = "save"
  BY <1>1 DEF EngineInv, EngineTypeOK, EngineResting, NoTail
<1>3. /\ UNCHANGED <<shard, dirs, saved, doomed, phase>> /\ EM!TypeOK' /\ EM!Idle'
      /\ doomed = {}
  BY <1>1, <1>2, EngineManagerUnchanged DEF EngineInv, EngineTypeOK, EngineInTail
<1>4. EngineTypeOK'
  BY <1>1, <1>3 DEF EngineInv, EngineTypeOK, NoTail, Tails
<1> QED
  BY <1>1, <1>2, <1>3, <1>4
  DEF EngineInv, EngineTypeOK, EngineResting, EngineCounts, EngineMemory, EngineInManager,
      EngineInTail, Up

LEMMA NextEngineInv == EngineInv /\ [EngineNext]_vars => EngineInv'
<1> SUFFICES ASSUME EngineInv, [EngineNext]_vars PROVE EngineInv'
  OBVIOUS
<1>1. CASE UNCHANGED vars
  BY <1>1
  DEF vars, managerVars, loopVars, EngineInv, EngineTypeOK, EM!TypeOK, EngineResting,
      EM!Idle, EngineCounts, Up, EngineMemory, EngineInManager, EM!SaveInv,
      EM!RemembersOlder, EngineInTail
<1>2. CASE EngineStartFromScratch \/ EngineStartFromCheckpoint
  BY <1>2, StartEngineInv
<1>3. CASE EngineStartFails \/ EngineEndLoop \/ (\E r \in Ranks : RankEndEpoch(r)) \/ EngineCrash
  BY <1>3, IdleEngineInv
<1>4. CASE EngineTrain
  BY <1>4, TrainEngineInv
<1>5. CASE Barrier \/ \E r \in Ranks : EngineRank(r)
  BY <1>5, ManagerEngineInv
<1>6. CASE EngineBarrier
  BY <1>6, CollectEngineInv
<1>7. CASE \E r \in Ranks : RankTail(r)
  BY <1>7, TailEngineInv
<1>8. CASE EngineSaved
  BY <1>8, SavedEngineInv
<1> QED BY <1>1, <1>2, <1>3, <1>4, <1>5, <1>6, <1>7, <1>8 DEF EngineNext

(* Type correctness of the engine-based trainer.                            *)
THEOREM EngineTypeCorrect == EngineSpec => []EngineTypeOK
<1>1. EngineInv => EngineTypeOK
  BY DEF EngineInv
<1> QED BY <1>1, InitEngineInv, NextEngineInv, PTL DEF EngineSpec

(* What rank 0 publishes by the rename is what every rank holds in memory,  *)
(* whatever was on the disk before, however many folders are kept, and      *)
(* however far the ranks are with their own data files.                     *)
THEOREM EnginePublishesCurrent == EngineSpec => PublishedIsCurrent
<1>1. EngineInv /\ [EngineNext]_vars
        => [EngineRename => /\ shard[globalStep] = model
                               /\ dataPt[globalStep][0] = pos[0]]_vars
  <2> SUFFICES ASSUME EngineInv, EngineRename
               PROVE  shard[globalStep] = model /\ dataPt[globalStep][0] = pos[0]
    OBVIOUS
  <2>1. tail[0] = "rename" /\ 0 \in Ranks
    BY EngineConstants DEF EngineRename, RankTailStep
  <2>2. tail # NoTail /\ pc = "save"
    BY <2>1 DEF EngineInv, EngineTypeOK, EngineResting, NoTail
  <2> QED BY <2>1, <2>2 DEF EngineInv, EngineInTail
<1> QED BY <1>1, InitEngineInv, NextEngineInv, PTL DEF EngineSpec, PublishedIsCurrent

-----------------------------------------------------------------------------
(* Until the first resume *)

(* The first start finds no tracker: it begins from scratch.                *)
LEMMA FirstStart ==
  ASSUME EngineInv, FirstRunInv, run' <= 1,
         EngineStartFromScratch \/ EngineStartFromCheckpoint \/ EngineStartFails
  PROVE  FirstRunInv'
<1> USE EngineConstants
<1>1. /\ run' = run + 1 /\ run \in Nat /\ tracker' = tracker /\ UNCHANGED managerVars
  BY DEF EngineStartFromScratch, EngineStartFromCheckpoint, EngineStartFails, EngineMayStart, EngineInv,
         EngineTypeOK
<1>2. run = 0 /\ pc = "down" /\ tracker = 0 /\ saved = << >>
  BY <1>1 DEF FirstRunInv, EngineInv, EngineResting
<1>3. EngineStartFromScratch
  BY <1>2 DEF EngineStartFromCheckpoint, EngineStartFails, LatestCkpt
<1>4. /\ pc' = "fetch" /\ globalStep' = 0 /\ model' = [r \in Ranks |-> Pretrained]
      /\ saved' = << >>
  BY <1>2, <1>3 DEF EngineStartFromScratch, EnterFit, EngineResumeStep, EngineMayStart, managerVars
<1> QED BY <1>1, <1>2, <1>4 DEF FirstRunInv

(* The tracked folder stays as it is if its shards do.                      *)
LEMMA TrackedUniform ==
  ASSUME FirstRunInv, run <= 1, tracker' = tracker,
         tracker \in Steps => shard'[tracker] = shard[tracker]
  PROVE  (tracker \in Steps => EM!Uniform(tracker))'
BY DEF FirstRunInv, EM!Uniform, EM!Complete

LEMMA FirstTrain ==
  ASSUME EngineInv, FirstRunInv, run <= 1, EngineTrain
  PROVE  FirstRunInv'
<1> USE EngineConstants
<1>1. /\ pc = "fetch" /\ globalStep' = globalStep + 1 /\ pc' \in {"fetch", "save"}
      /\ model' = [r \in Ranks |-> Trained(model[r])]
      /\ UNCHANGED <<tracker, tail, run>>
      /\ tail = NoTail /\ tracker \in Nat /\ globalStep \in Nat /\ doomed = {}
      /\ EM!TypeOK /\ run # 0
  <2>1. /\ pc = "fetch" /\ globalStep' = globalStep + 1 /\ pc' \in {"fetch", "save"}
        /\ model' = [r \in Ranks |-> Trained(model[r])]
        /\ UNCHANGED <<tracker, tail, run>>
    BY DEF EngineTrain
  <2>2. tail = NoTail /\ doomed = {} /\ run # 0
    BY <2>1 DEF EngineInv, EngineResting, EngineCounts, Up
  <2>3. tracker \in Nat /\ globalStep \in Nat /\ EM!TypeOK
    BY DEF EngineInv, EngineTypeOK
  <2> QED BY <2>1, <2>2, <2>3
<1>2. UNCHANGED <<shard, dirs, saved, doomed>>
  BY DEF EngineTrain, EM!Call, managerVars
<1>3. EM!TypeOK' /\ (pc' = "save" => \A r \in Ranks : phase'[r] \in {"rotate", "mkdir"})
  <2>1. CASE pc' = "save" /\ EM!Call
    BY <1>1, <2>1 DEF EM!Call, EM!TypeOK, EM!Phases
  <2>2. CASE pc' = "fetch" /\ UNCHANGED managerVars
    BY <1>1, <2>2, EngineManagerUnchanged
  <2> QED BY <2>1, <2>2 DEF EngineTrain
<1>4. \A r, q \in Ranks : model'[r] \in EngineStates /\ model'[r] = model'[q]
  <2>1. \A r, q \in Ranks : model[r] \in EngineStates /\ model[r] = model[q]
    BY <1>1 DEF FirstRunInv, Up
  <2> QED BY <1>1, <2>1, EngineTrained
<1>5. /\ tracker <= globalStep /\ \A i \in 1..(Len(saved) - 1) : saved[i] # tracker
      /\ \A i \in 1..Len(saved) : saved[i] <= globalStep /\ saved[i] \in Nat
  BY <1>1, EngineRemembered DEF FirstRunInv, EngineInv, EngineMemory, EM!TypeOK
<1>6. pc' = "save" => EM!SaveInv(globalStep, tracker, model)'
  BY <1>1, <1>2, <1>3, <1>5
  DEF EM!SaveInv, EM!PastWrite, EM!RemembersOlder
<1>7. tail[0] # "barrier"
  BY <1>1 DEF NoTail
<1>8. (tracker \in Steps => EM!Uniform(tracker))'
  BY <1>1, <1>2, TrackedUniform
<1> QED BY <1>1, <1>2, <1>4, <1>5, <1>6, <1>7, <1>8 DEF FirstRunInv

(* The managers endanger older folders than the tracked one.                *)
LEMMA FirstManager ==
  ASSUME MaxKeep # 1, EngineInv, FirstRunInv, run <= 1,
         Barrier \/ \E r \in Ranks : EngineRank(r)
  PROVE  FirstRunInv'
<1> USE EngineConstants
<1>1. /\ pc = "save" /\ tail = NoTail
      /\ UNCHANGED <<tracker, pc, tail, run, globalStep, model, pos, epoch, resumed>>
  BY EngineManagerStep
<1>2. /\ \/ EM!BarrierStep
         \/ \E r \in Ranks : EM!RankStep(r, globalStep, model[r])
         \/ UNCHANGED <<shard, dirs, saved, doomed, phase>>
  BY EngineBarrierSteps, EngineRankSteps
<1>3. /\ globalStep \in Steps /\ tracker \in Int /\ tracker < globalStep
      /\ EM!SaveInv(globalStep, tracker, model)
      /\ model \in [Ranks -> EngineStates \cup {Torn}]
  BY <1>1
  DEF FirstRunInv, EngineInv, EngineTypeOK, EngineCounts, NoTail
<1>4. PICK g, t, st : g = globalStep /\ t = tracker /\ st = model
  OBVIOUS
<1>5. /\ g \in Steps /\ t \in Int /\ t # g /\ EM!SaveInv(g, t, st)
      /\ st \in [Ranks -> EngineStates \cup {Torn}]
  BY <1>3, <1>4
<1>6. /\ EM!SaveInv(g, t, st)'
      /\ t \in Steps => shard'[t] = shard[t]
  <2>1. CASE EM!BarrierStep
    BY <1>5, <2>1, EngineBarrierSafe
  <2>2. CASE \E r \in Ranks : EM!RankStep(r, globalStep, model[r])
    <3>1. PICK r \in Ranks : EM!RankStep(r, g, st[r])
      BY <1>4, <2>2
    <3> QED BY <1>5, <3>1, EngineRankSafe
  <2>3. CASE UNCHANGED <<shard, dirs, saved, doomed, phase>>
    BY <1>5, <2>3 DEF EM!SaveInv, EM!TypeOK, EM!RemembersOlder
  <2> QED BY <1>2, <2>1, <2>2, <2>3
<1>7. EM!SaveInv(globalStep, tracker, model)'
  BY <1>1, <1>4, <1>6 DEF EM!SaveInv
<1>8. (tracker \in Steps => EM!Uniform(tracker))'
  BY <1>1, <1>4, <1>6, TrackedUniform
<1> QED BY <1>1, <1>7, <1>8 DEF FirstRunInv, Up

(* The rename makes the folder of this save the tracked one.                *)
LEMMA FirstTail ==
  ASSUME EngineInv, FirstRunInv, run <= 1, NEW r \in Ranks, RankTail(r)
  PROVE  FirstRunInv'
<1> USE EngineConstants
<1>1. /\ pc = "save" /\ tail # NoTail /\ tail' # NoTail
      /\ UNCHANGED <<pc, run, globalStep, model, shard, dirs, saved, doomed, phase>>
      /\ tail \in [Ranks -> Tails]
      /\ run # 0
  <2>1. pc = "save" /\ tail # NoTail
    BY TailEngineInv
  <2>2. tail' # NoTail
    BY <2>1 DEF RankTail, RankBeginSaveData, RankEndSaveData, EngineWriteTmpTracker,
           EngineRename, RankTailStep, NoTail, EngineInv, EngineTypeOK
  <2> QED
    BY <2>1, <2>2
    DEF RankTail, RankBeginSaveData, RankEndSaveData, EngineWriteTmpTracker, EngineRename,
        RankTailStep, loopVars, managerVars, EngineInv, EngineTypeOK, EngineCounts, Up
<1>2. CASE EngineRename /\ r = 0
  <2>1. tracker' = globalStep /\ tail'[0] = "barrier"
    BY <1>1, <1>2 DEF EngineRename, RankTailStep
  <2>2. shard[globalStep] = model
    BY <1>1 DEF EngineInv, EngineInTail
  <2>3. \A p, q \in Ranks : model[p] \in EngineStates /\ model[p] = model[q]
    BY <1>1 DEF FirstRunInv, Up
  <2>4. EM!Uniform(tracker)'
    BY <1>1, <2>1, <2>2, <2>3 DEF EM!Uniform, EM!Complete
  <2> QED BY <1>1, <2>1, <2>3, <2>4 DEF FirstRunInv, Up
<1>3. CASE ~(EngineRename /\ r = 0)
  <2>1. /\ tracker' = tracker
        /\ tail[r] \in {"data", "saving_data", "tmp_tracker"}
        /\ \E to : tail' = [tail EXCEPT ![r] = to] /\ (r = 0 => to # "barrier")
    BY <1>3 DEF RankTail, RankBeginSaveData, RankEndSaveData, EngineWriteTmpTracker,
                EngineRename, RankTailStep
  <2>2. tail'[0] = "barrier" <=> tail[0] = "barrier"
    BY <1>1, <2>1
  <2>3. (tracker \in Steps => EM!Uniform(tracker))'
    BY <1>1, <2>1, TrackedUniform
  <2> QED BY <1>1, <2>1, <2>2, <2>3 DEF FirstRunInv, Up
<1> QED BY <1>2, <1>3

LEMMA FirstRunNext ==
  ASSUME MaxKeep # 1, EngineInv, FirstRunInv, [EngineNext]_vars
  PROVE  FirstRunInv'
<1> USE EngineConstants
<1>1. CASE EngineStartFromScratch \/ EngineStartFromCheckpoint \/ EngineStartFails
  BY <1>1, FirstStart DEF FirstRunInv
<1>2. CASE UNCHANGED run /\ ~(run <= 1)
  BY <1>2 DEF FirstRunInv
<1>3. CASE run <= 1 /\ EngineTrain
  BY <1>3, FirstTrain
<1>4. CASE run <= 1 /\ (Barrier \/ \E r \in Ranks : EngineRank(r))
  BY <1>4, FirstManager
<1>5. CASE run <= 1 /\ \E r \in Ranks : RankTail(r)
  BY <1>5, FirstTail
<1>6. CASE run <= 1 /\ EngineBarrier
  <2>1. /\ pc = "save" /\ tail = NoTail /\ tail' = [r \in Ranks |-> "data"]
        /\ UNCHANGED <<shard, tracker, pc, run, globalStep, model>>
    BY <1>6 DEF EngineBarrier, Saving, EM!Collect, loopVars
  <2>2. tail'[0] = "data" /\ tail[0] = "none" /\ tail' # NoTail
    BY <2>1 DEF NoTail
  <2>3. (tracker \in Steps => EM!Uniform(tracker))'
    BY <1>6, <2>1, TrackedUniform
  <2> QED BY <1>6, <2>1, <2>2, <2>3 DEF FirstRunInv, Up
<1>7. CASE run <= 1 /\ EngineSaved
  <2>1. /\ pc = "save" /\ tail # NoTail /\ tail[0] = "barrier"
        /\ pc' \in {"fetch", "finished"} /\ run # 0
        /\ UNCHANGED <<shard, saved, tracker, run, globalStep, model>>
    BY <1>7, SavedEngineInv DEF EngineSaved, loopVars, managerVars, EngineInv, EngineCounts, Up
  <2>2. /\ tracker = globalStep /\ tracker \in Nat
        /\ \A i \in 1..(Len(saved) - 1) : saved[i] < globalStep
    BY <1>7, <2>1 DEF FirstRunInv, EngineInv, EngineMemory, EngineTypeOK
  <2>3. \A i \in 1..(Len(saved) - 1) : saved[i] # tracker
    <3>1. \A i \in 1..Len(saved) : saved[i] \in Nat
      BY EngineRemembered DEF EngineInv, EngineTypeOK, EM!TypeOK
    <3> QED BY <2>2, <3>1
  <2>4. (tracker \in Steps => EM!Uniform(tracker))'
    BY <1>7, <2>1, TrackedUniform
  <2> QED BY <1>7, <2>1, <2>2, <2>3, <2>4 DEF FirstRunInv, Up
<1>8. CASE run <= 1 /\ (EngineEndLoop \/ (\E r \in Ranks : RankEndEpoch(r)) \/ EngineCrash)
  <2>1. /\ pc' \in {"fetch", "ended", "down"} /\ (pc' = "fetch" => pc = "fetch" /\ saved' = saved)
        /\ (pc' = "fetch" => UNCHANGED <<globalStep, model>>)
        /\ run # 0 /\ UNCHANGED <<shard, tracker, run>>
    BY <1>8 DEF EngineEndLoop, RankEndEpoch, EngineCrash, Up, EM!Exit, loopVars, managerVars,
                EngineInv, EngineCounts
  <2>2. (tracker \in Steps => EM!Uniform(tracker))'
    BY <1>8, <2>1, TrackedUniform
  <2> QED BY <1>8, <2>1, <2>2 DEF FirstRunInv, Up
<1>9. CASE run <= 1 /\ UNCHANGED vars
  BY <1>9
  DEF vars, managerVars, loopVars, FirstRunInv, Up, EM!Uniform, EM!Complete,
      EM!SaveInv, EM!TypeOK, EM!RemembersOlder
<1>10. (EngineNext /\ run' = run) \/ UNCHANGED vars
          \/ EngineStartFromScratch \/ EngineStartFromCheckpoint \/ EngineStartFails
  <2>1. CASE Barrier \/ (\E r \in Ranks : EngineRank(r))
    BY <2>1, EngineManagerStep DEF EngineNext
  <2>2. CASE EngineTrain \/ EngineEndLoop \/ (\E r \in Ranks : RankEndEpoch(r) \/ RankTail(r))
             \/ EngineBarrier \/ EngineSaved \/ EngineCrash
    BY <2>2
    DEF EngineNext, EngineTrain, EngineEndLoop, RankEndEpoch, RankTail, RankBeginSaveData, RankEndSaveData,
        EngineWriteTmpTracker, EngineRename, RankTailStep, EngineBarrier, EngineSaved, EngineCrash,
        loopVars
  <2> QED BY <2>1, <2>2 DEF EngineNext
<1> QED
  <2>1. run \in Nat
    BY DEF EngineInv, EngineTypeOK
  <2>2. CASE UNCHANGED vars
    BY <1>2, <1>9, <2>1, <2>2 DEF vars, loopVars
  <2>3. CASE EngineNext /\ run' = run
    BY <1>1, <1>2, <1>3, <1>4, <1>5, <1>6, <1>7, <1>8, <2>1, <2>3 DEF EngineNext
  <2> QED BY <1>1, <1>10, <2>2, <2>3

(* Until the job first resumes, the folder the tracker names is complete    *)
(* and of one moment, if more than one folder is kept: no later save and no *)
(* rotation touches it, although the ranks' data files may still be missing.*)
THEOREM FirstRunSafe == ASSUME MaxKeep # 1 PROVE EngineSpec => []FirstRunKeepsShards
<1>1. EngineInv /\ FirstRunInv /\ [EngineNext]_vars => (EngineInv /\ FirstRunInv)'
  BY NextEngineInv, FirstRunNext
<1>2. EngineInv /\ FirstRunInv => FirstRunKeepsShards
  BY DEF FirstRunInv, FirstRunKeepsShards, EM!Uniform, EM!Complete
<1> QED BY <1>1, <1>2, InitEngineInv, PTL DEF EngineSpec

-----------------------------------------------------------------------------
(* No save hangs *)

(* A rank that waits in a save waits for one that has something to do, and  *)
(* rank 0 goes on to data.pt and the tracker once its manager is through.   *)
SaveGoesOn ==
  pc = "save" => M!NobodyWaitsInVain /\ (tail # "none" => phase[0] = "returned")

(* In a save the ranks are in the same part of the manager, and outside of  *)
(* it at none.  Nothing of IInv, and no SafeConfiguration, is needed.      *)
AbreastInv ==
  /\ phase \in [Ranks -> M!Phases]
  /\ IF pc = "save" THEN M!Abreast /\ (tail # "none" => phase[0] = "returned")
                    ELSE M!Idle /\ tail = "none"

(* A step of a rank keeps it in its part of the trainer's save, ...        *)
LEMMA TrainerRankAbreast ==
  ASSUME phase \in [Ranks -> M!Phases], M!Abreast,
         NEW r \in Ranks, NEW step, NEW state, M!RankStep(r, step, state)
  PROVE  phase' \in [Ranks -> M!Phases] /\ M!Abreast'
<1> DEFINE Way(p, q) == \/ r = 0 /\ p = "rotate" /\ q = "remove"
                        \/ r = 0 /\ p = "remove" /\ q = "entered"
                        \/ p = "mkdir" /\ q = "entered"
                        \/ p = "write" /\ q = "writing"
                        \/ p = "writing" /\ q = "written"
                        \/ r = 0 /\ p = "hf" /\ q = "hf_wait"
                        \/ p = "append" /\ q = "returned"
<1>1. CASE phase' = phase
  BY <1>1 DEF M!Abreast, M!AllIn
<1>2. ASSUME NEW p, NEW q, M!Move(r, p, q), Way(p, q)
      PROVE  phase' \in [Ranks -> M!Phases] /\ M!Abreast'
  <2>1. /\ phase[r] = p /\ phase'[r] = q /\ q \in M!Phases
        /\ phase' \in [Ranks -> M!Phases]
        /\ \A o \in Ranks \ {r} : phase'[o] = phase[o]
    BY <1>2 DEF M!Move, M!Phases
  <2>2. \A part \in {M!Preparing, M!Dumping, M!Gathering, M!Leaving} :
           p \in part => q \in part
    BY <1>2 DEF M!Preparing, M!Dumping, M!Gathering, M!Leaving
  <2>3. \A part \in {M!Preparing, M!Dumping, M!Gathering, M!Leaving} :
           M!AllIn(part) => M!AllIn(part)'
    BY <2>1, <2>2 DEF M!AllIn
  <2>4. \A o \in Ranks \ {0} : phase'[o] \notin {"rotate", "remove", "hf"}
    BY <1>2, <2>1 DEF M!Abreast
  <2> QED BY <2>1, <2>3, <2>4 DEF M!Abreast
<1>3. \/ phase' = phase
      \/ \E p, q : M!Move(r, p, q) /\ Way(p, q)
  <2>1. CASE r = 0 /\ (M!Rotate \/ M!SaveHf)
    BY <2>1 DEF M!Rotate, M!SaveHf
  <2>2. CASE M!Mkdir(r, step) \/ M!BeginWrite(r, step) \/ M!EndWrite(r, step, state)
             \/ M!Return(r, step)
    BY <2>2 DEF M!Mkdir, M!BeginWrite, M!EndWrite, M!Return
  <2> QED BY <2>1, <2>2 DEF M!RankStep, M!RemoveFile, M!RemoveDir, M!RemoveFails
<1> HIDE DEF Way
<1> QED BY <1>1, <1>2, <1>3

(* ... a barrier takes all of them to the next, ...                        *)
LEMMA TrainerBarrierAbreast ==
  ASSUME phase \in [Ranks -> M!Phases], 0 \in Ranks, M!Abreast, M!BarrierStep
  PROVE  phase' \in [Ranks -> M!Phases] /\ M!Abreast'
BY DEF M!BarrierStep, M!EnterBarrier, M!DumpBarrier, M!HfBarrier, M!Barrier, M!Phases,
       M!Abreast, M!AllIn, M!Preparing, M!Dumping, M!Gathering, M!Leaving

(* ... and in each part somebody can go on, or all wait for one another.   *)
LEMMA TrainerTogether ==
  ASSUME 0 \in Ranks, M!Abreast
  PROVE  M!NobodyWaitsInVain
<1> USE DEF M!Abreast, M!AllIn, M!NobodyWaitsInVain
<1>1. CASE M!AllIn(M!Preparing)
  BY <1>1 DEF M!Preparing
<1>2. CASE M!AllIn(M!Dumping)
  BY <1>2 DEF M!Dumping
<1>3. CASE M!AllIn(M!Gathering)
  BY <1>3 DEF M!Gathering
<1>4. CASE M!AllIn(M!Leaving)
  BY <1>4 DEF M!Leaving
<1> QED BY <1>1, <1>2, <1>3, <1>4

LEMMA StepAbreastInv == AbreastInv /\ [Next]_vars => AbreastInv'
<1> SUFFICES ASSUME AbreastInv, [Next]_vars PROVE AbreastInv'
  OBVIOUS
<1> USE DEF AbreastInv
<1>0. 0 \in Ranks
  BY SFTAssumption
<1>1. phase' = phase => (M!Idle => M!Idle') /\ (M!Abreast => M!Abreast')
  BY DEF M!Idle, M!Abreast, M!AllIn
<1>2. CASE StartFromScratch \/ StartFromCheckpoint \/ EndEpoch
  BY <1>1, <1>2
  DEF StartFromScratch, StartFromCheckpoint, EndEpoch, MayStart, managerVars, InEpoch
<1>3. CASE Train
  <2>1. CASE pc' = "save" /\ M!Call
    <3>1. phase' \in [Ranks -> M!Phases] /\ M!Abreast'
      BY <1>0, <2>1 DEF M!Call, M!Phases, M!Abreast, M!AllIn, M!Preparing
    <3>2. tail' = "none"
      BY <1>3 DEF Train
    <3> QED BY <2>1, <3>1, <3>2
  <2>2. CASE pc' = "fetch" /\ UNCHANGED managerVars
    BY <1>1, <1>3, <2>2 DEF Train, managerVars
  <2> QED BY <1>3, <2>1, <2>2 DEF Train
<1>4. CASE \E r \in Ranks : Rank(r)
  <2>1. PICK r \in Ranks : Rank(r)
    BY <1>4
  <2>2. pc = "save" /\ pc' = pc /\ tail' = tail
    BY <2>1 DEF Rank, Saving
  <2>3. phase' = phase \/ M!RankStep(r, globalStep, model[r])
    BY <2>1
    DEF Rank, Remove, RemoveData, RemoveFolder, managerVars, M!RemoveDir, M!RemoveFails,
        M!RemoveFile, M!RankStep
  <2>4. phase' \in [Ranks -> M!Phases] /\ M!Abreast'
    BY <1>1, <2>2, <2>3, TrainerRankAbreast
  <2>5. phase[0] = "returned" => phase'[0] = "returned"
    BY <1>0, <2>3
    DEF M!RankStep, M!Rotate, M!Mkdir, M!BeginWrite, M!EndWrite, M!SaveHf, M!Return, M!Move,
        M!RemoveDir, M!RemoveFails, M!RemoveFile
  <2> QED BY <2>2, <2>4, <2>5
<1>5. CASE Barrier
  <2>1. pc = "save" /\ pc' = pc /\ tail' = tail /\ M!BarrierStep
    BY <1>5 DEF Barrier, Saving
  <2>2. phase[0] # "returned"
    BY <1>0, <2>1 DEF M!BarrierStep, M!EnterBarrier, M!DumpBarrier, M!HfBarrier, M!Barrier
  <2>3. phase' \in [Ranks -> M!Phases] /\ M!Abreast'
    BY <1>0, <2>1, TrainerBarrierAbreast
  <2> QED BY <2>1, <2>2, <2>3
<1>6. CASE RankZeroTail
  BY <1>1, <1>6
  DEF RankZeroTail, BeginSaveData, EndSaveData, WriteTmpTracker, RenameTracker, TailStep,
      Saving, managerVars
<1>7. CASE Saved \/ Crash
  <2>1. (M!Collect \/ M!Exit) /\ pc' \in {"down", "fetch", "finished"} /\ tail' = "none"
    BY <1>7 DEF Saved, Crash
  <2>2. phase' \in [Ranks -> M!Phases] /\ M!Idle'
    BY <2>1 DEF M!Collect, M!Exit, M!Phases, M!Idle
  <2> QED BY <2>1, <2>2
<1>8. CASE UNCHANGED vars
  BY <1>1, <1>8 DEF vars, managerVars
<1> QED BY <1>2, <1>3, <1>4, <1>5, <1>6, <1>7, <1>8 DEF Next

(* The ranks come to every barrier of a save together, and rank 0 alone has *)
(* work behind them: no save of the trainer blocks.                        *)
THEOREM NoSaveHangs == Spec => []SaveGoesOn
<1>1. Init => AbreastInv
  BY DEF Init, M!Init, AbreastInv, M!Phases, M!Idle
<1>2. AbreastInv => SaveGoesOn
  BY SFTAssumption, TrainerTogether DEF AbreastInv, SaveGoesOn
<1> QED BY <1>1, <1>2, StepAbreastInv, PTL DEF Spec

(* The same for the engine, whose ranks go on each for itself after the     *)
(* manager: to their data files, rank 0 to the tracker, and to the barrier. *)
EngineSaveGoesOn ==
  pc = "save" =>
    \/ tail = NoTail /\ EM!NobodyWaitsInVain
    \/ EM!Idle /\ \/ \E r \in Ranks : tail[r] \in {"data", "saving_data"}
                  \/ tail[0] \in {"tmp_tracker", "rename"}
                  \/ \A r \in Ranks : tail[r] = "barrier"

InTail(r) == {"data", "saving_data", "barrier"}
               \cup (IF r = 0 THEN {"tmp_tracker", "rename"} ELSE {})

EngineAbreastInv ==
  /\ phase \in [Ranks -> EM!Phases]
  /\ IF pc # "save" THEN EM!Idle /\ tail = NoTail
     ELSE \/ tail = NoTail /\ EM!Abreast
          \/ /\ EM!Idle /\ tail # NoTail /\ DOMAIN tail = Ranks
             /\ \A r \in Ranks : tail[r] \in InTail(r)

(* A step of a rank keeps it in its part of the engine's save, ...         *)
LEMMA EngineRankAbreast ==
  ASSUME phase \in [Ranks -> EM!Phases], EM!Abreast,
         NEW r \in Ranks, NEW step, NEW state, EM!RankStep(r, step, state)
  PROVE  phase' \in [Ranks -> EM!Phases] /\ EM!Abreast'
<1> DEFINE Way(p, q) == \/ r = 0 /\ p = "rotate" /\ q = "remove"
                        \/ r = 0 /\ p = "remove" /\ q = "entered"
                        \/ p = "mkdir" /\ q = "entered"
                        \/ p = "write" /\ q = "writing"
                        \/ p = "writing" /\ q = "written"
                        \/ r = 0 /\ p = "hf" /\ q = "hf_wait"
                        \/ p = "append" /\ q = "returned"
<1>1. CASE phase' = phase
  BY <1>1 DEF EM!Abreast, EM!AllIn
<1>2. ASSUME NEW p, NEW q, EM!Move(r, p, q), Way(p, q)
      PROVE  phase' \in [Ranks -> EM!Phases] /\ EM!Abreast'
  <2>1. /\ phase[r] = p /\ phase'[r] = q /\ q \in EM!Phases
        /\ phase' \in [Ranks -> EM!Phases]
        /\ \A o \in Ranks \ {r} : phase'[o] = phase[o]
    BY <1>2 DEF EM!Move, EM!Phases
  <2>2. \A part \in {EM!Preparing, EM!Dumping, EM!Gathering, EM!Leaving} :
           p \in part => q \in part
    BY <1>2 DEF EM!Preparing, EM!Dumping, EM!Gathering, EM!Leaving
  <2>3. \A part \in {EM!Preparing, EM!Dumping, EM!Gathering, EM!Leaving} :
           EM!AllIn(part) => EM!AllIn(part)'
    BY <2>1, <2>2 DEF EM!AllIn
  <2>4. \A o \in Ranks \ {0} : phase'[o] \notin {"rotate", "remove", "hf"}
    BY <1>2, <2>1 DEF EM!Abreast
  <2> QED BY <2>1, <2>3, <2>4 DEF EM!Abreast
<1>3. \/ phase' = phase
      \/ \E p, q : EM!Move(r, p, q) /\ Way(p, q)
  <2>1. CASE r = 0 /\ (EM!Rotate \/ EM!SaveHf)
    BY <2>1 DEF EM!Rotate, EM!SaveHf
  <2>2. CASE EM!Mkdir(r, step) \/ EM!BeginWrite(r, step) \/ EM!EndWrite(r, step, state)
             \/ EM!Return(r, step)
    BY <2>2 DEF EM!Mkdir, EM!BeginWrite, EM!EndWrite, EM!Return
  <2> QED BY <2>1, <2>2 DEF EM!RankStep, EM!RemoveFile, EM!RemoveDir, EM!RemoveFails
<1> HIDE DEF Way
<1> QED BY <1>1, <1>2, <1>3

(* ... a barrier takes all of them to the next, ...                        *)
LEMMA EngineBarrierAbreast ==
  ASSUME phase \in [Ranks -> EM!Phases], 0 \in Ranks, EM!Abreast, EM!BarrierStep
  PROVE  phase' \in [Ranks -> EM!Phases] /\ EM!Abreast'
BY DEF EM!BarrierStep, EM!EnterBarrier, EM!DumpBarrier, EM!HfBarrier, EM!Barrier, EM!Phases,
       EM!Abreast, EM!AllIn, EM!Preparing, EM!Dumping, EM!Gathering, EM!Leaving

(* ... and in each part somebody can go on, or all wait for one another.   *)
LEMMA EngineTogether ==
  ASSUME 0 \in Ranks, EM!Abreast
  PROVE  EM!NobodyWaitsInVain
<1> USE DEF EM!Abreast, EM!AllIn, EM!NobodyWaitsInVain
<1>1. CASE EM!AllIn(EM!Preparing)
  BY <1>1 DEF EM!Preparing
<1>2. CASE EM!AllIn(EM!Dumping)
  BY <1>2 DEF EM!Dumping
<1>3. CASE EM!AllIn(EM!Gathering)
  BY <1>3 DEF EM!Gathering
<1>4. CASE EM!AllIn(EM!Leaving)
  BY <1>4 DEF EM!Leaving
<1> QED BY <1>1, <1>2, <1>3, <1>4

LEMMA StepEngineAbreastInv == EngineAbreastInv /\ [EngineNext]_vars => EngineAbreastInv'
<1> SUFFICES ASSUME EngineAbreastInv, [EngineNext]_vars PROVE EngineAbreastInv'
  OBVIOUS
<1> USE DEF EngineAbreastInv
<1>0. 0 \in Ranks
  BY SFTAssumption
<1>1. phase' = phase => (EM!Idle => EM!Idle') /\ (EM!Abreast => EM!Abreast')
  BY DEF EM!Idle, EM!Abreast, EM!AllIn
<1>2. EM!Idle => ~EM!Abreast
  BY <1>0
  DEF EM!Idle, EM!Abreast, EM!AllIn, EM!Preparing, EM!Dumping, EM!Gathering, EM!Leaving
<1>3. CASE \/ EngineStartFromScratch \/ EngineStartFromCheckpoint \/ EngineStartFails
           \/ EngineEndLoop \/ \E r \in Ranks : RankEndEpoch(r)
  <2>1. phase' = phase /\ tail' = tail /\ pc # "save" /\ pc' # "save"
    BY <1>3
    DEF EngineStartFromScratch, EngineStartFromCheckpoint, EngineStartFails, EngineMayStart,
        EnterFit, EngineEndLoop, RankEndEpoch, managerVars
  <2> QED BY <1>1, <2>1
<1>4. CASE EngineTrain
  <2>1. pc # "save" /\ tail' = tail
    BY <1>4 DEF EngineTrain
  <2>2. CASE pc' = "save" /\ EM!Call
    <3>1. phase' \in [Ranks -> EM!Phases] /\ EM!Abreast'
      BY <1>0, <2>2 DEF EM!Call, EM!Phases, EM!Abreast, EM!AllIn, EM!Preparing
    <3> QED BY <2>1, <2>2, <3>1
  <2>3. CASE pc' = "fetch" /\ UNCHANGED managerVars
    BY <1>1, <2>1, <2>3 DEF managerVars
  <2> QED BY <1>4, <2>2, <2>3 DEF EngineTrain
<1>5. CASE Barrier \/ \E r \in Ranks : EngineRank(r)
  <2>1. pc = "save" /\ pc' = pc /\ tail' = tail
    BY <1>5 DEF Barrier, EngineRank, Saving
  <2>2. \/ phase' = phase
        \/ \E r \in Ranks : EM!RankStep(r, globalStep, model[r])
        \/ EM!BarrierStep
    <3>1. CASE \E r \in Ranks : EngineRank(r)
      BY <3>1
      DEF EngineRank, EngineRemove, RemoveDataOf, EngineRemoveFolder, managerVars,
          EM!RemoveDir, EM!RemoveFails, EM!RemoveFile, EM!RankStep
    <3>2. CASE Barrier
      BY <3>2
      DEF Barrier, M!BarrierStep, M!EnterBarrier, M!DumpBarrier, M!HfBarrier, M!Barrier,
          EM!BarrierStep, EM!EnterBarrier, EM!DumpBarrier, EM!HfBarrier, EM!Barrier
    <3> QED BY <1>5, <3>1, <3>2
  <2>3. ASSUME EM!Idle PROVE phase' = phase
    BY <1>0, <2>2, <2>3
    DEF EM!Idle, EM!RankStep, EM!Rotate, EM!Mkdir, EM!BeginWrite, EM!EndWrite, EM!SaveHf,
        EM!Return, EM!Move, EM!RemoveDir, EM!RemoveFails, EM!RemoveFile, EM!BarrierStep,
        EM!EnterBarrier, EM!DumpBarrier, EM!HfBarrier, EM!Barrier
  <2>4. EM!Abreast => phase' \in [Ranks -> EM!Phases] /\ EM!Abreast'
    BY <1>0, <1>1, <2>2, EngineRankAbreast, EngineBarrierAbreast
  <2> QED BY <1>1, <2>1, <2>3, <2>4
<1>6. CASE EngineBarrier
  <2>1. pc = "save" /\ pc' = pc /\ EM!Collect /\ tail' = [r \in Ranks |-> "data"]
    BY <1>6 DEF EngineBarrier, Saving
  <2>2. phase' \in [Ranks -> EM!Phases] /\ EM!Idle'
    BY <2>1 DEF EM!Collect, EM!Phases, EM!Idle
  <2>3. tail'[0] = "data" /\ tail' # NoTail
    BY <1>0, <2>1 DEF NoTail
  <2> QED BY <2>1, <2>2, <2>3 DEF InTail
<1>7. CASE \E r \in Ranks : RankTail(r)
  <2>0. PICK r \in Ranks : RankTail(r)
    BY <1>7
  <2>1. PICK to \in InTail(r) :
          /\ tail[r] # "none" /\ tail' = [tail EXCEPT ![r] = to]
          /\ phase' = phase /\ pc' = pc
    BY <2>0
    DEF RankTail, RankBeginSaveData, RankEndSaveData, EngineWriteTmpTracker, EngineRename,
        RankTailStep, managerVars, InTail
  <2>2. tail # NoTail
    BY <2>1 DEF NoTail
  <2>3. tail'[r] # "none" /\ tail' # NoTail
    BY <2>1, <2>2 DEF NoTail, InTail
  <2> QED BY <1>1, <2>1, <2>2, <2>3
<1>8. CASE EngineSaved
  <2>1. phase' = phase /\ tail' = NoTail /\ pc' \in {"fetch", "finished"} /\ tail[0] = "barrier"
    BY <1>0, <1>8 DEF EngineSaved, managerVars
  <2>2. tail # NoTail
    BY <1>0, <2>1 DEF NoTail
  <2> QED BY <1>1, <2>1, <2>2
<1>9. CASE EngineCrash
  BY <1>9 DEF EngineCrash, EM!Exit, EM!Phases, EM!Idle
<1>10. CASE UNCHANGED vars
  BY <1>1, <1>10 DEF vars, managerVars
<1> QED BY <1>3, <1>4, <1>5, <1>6, <1>7, <1>8, <1>9, <1>10 DEF EngineNext

(* The engine's ranks write their data files without waiting for another,   *)
(* and all come to the closing barrier: no save of the engine blocks.      *)
THEOREM NoEngineSaveHangs == EngineSpec => []EngineSaveGoesOn
<1>1. EngineInit => EngineAbreastInv
  BY DEF EngineInit, EM!Init, EngineAbreastInv, EM!Phases, EM!Idle
<1>2. ASSUME EngineAbreastInv PROVE EngineSaveGoesOn
  <2>1. 0 \in Ranks
    BY SFTAssumption
  <2>2. CASE tail = NoTail /\ EM!Abreast
    BY <2>1, <2>2, EngineTogether DEF EngineSaveGoesOn
  <2>3. CASE EM!Idle /\ \A r \in Ranks : tail[r] \in InTail(r)
    BY <2>1, <2>3 DEF EngineSaveGoesOn, InTail
  <2> QED BY <1>2, <2>2, <2>3 DEF EngineAbreastInv, EngineSaveGoesOn
<1> QED BY <1>1, <1>2, StepEngineAbreastInv, PTL DEF EngineSpec
=============================================================================
