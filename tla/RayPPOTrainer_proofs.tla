------------------------- MODULE RayPPOTrainer_proofs -------------------------
(***************************************************************************)
(* Proofs about RayPPOTrainer, for every number of ranks, runs and steps:  *)
(* the variables keep their types and the folder the tracker names holds a *)
(* whole checkpoint, when jobs start in mode "auto" and more than one      *)
(* folder is kept; a job that finishes has saved its last step; no save    *)
(* blocks in a barrier.                                                    *)
(***************************************************************************)
EXTENDS RayPPOTrainer, TLAPS

(* With one folder kept, rotation takes the tracked one before the next is *)
(* written; with mode "disable" among the starts, a job that starts over   *)
(* writes into the tracked folder, shard by shard.  Neither theorem holds. *)
SafeConfiguration ==
  /\ Modes \subseteq {"auto"}
  /\ MaxActorKeep # 1
  /\ UseCritic => MaxCriticKeep # 1

-----------------------------------------------------------------------------
(* The inductive invariant, part by part *)

AfterActor == {"save_critic", "save_data", "saving_data", "track", "tracking"}
AfterCritic == AfterActor \ {"save_critic"}

(* What rank 0 of a group remembers of the folders it has saved.           *)
Older(mem) == \A i \in 1..Len(mem) : mem[i] < globalSteps
OlderOrThis(mem) ==
  \A i \in 1..Len(mem) : mem[i] < globalSteps \/ (i = Len(mem) /\ mem[i] = globalSteps)
OnlyLastTracked(mem) == \A i \in 1..(Len(mem) - 1) : mem[i] # tracker

(* The tracker is behind the step in training until that step is saved.    *)
TrackerBehind ==
  Up => /\ globalSteps \in Steps
        /\ tracker < globalSteps \/ (pc = "next" /\ tracker = globalSteps)

(* Every rank of the actor holds one and the same state.                   *)
ActorWhole ==
  Up => /\ actor \in [Ranks -> ActorStates]
        /\ \A r, q \in Ranks : actor[r] = actor[q]

HasBatch == pc \in {"train", "save_actor", "next"} \cup AfterActor => pos \in 1..EpochLen

Looping == Up => epoch < TotalEpochs

(* Outside a save the managers are idle and remove nothing.                *)
Resting ==
  /\ pc # "save_actor" => A!Idle /\ aDoomed = {}
  /\ pc # "save_critic" => C!Idle /\ cDoomed = {}
  /\ pc = "save_critic" => UseCritic

(* In a save, the manager endangers neither the tracked folder nor its own.*)
SavesSafely ==
  /\ pc = "save_actor" => A!SaveInv(globalSteps, tracker, actor)
  /\ pc = "save_critic" => C!SaveInv(globalSteps, tracker, [r \in Ranks |-> "critic"])

ActorMemory ==
  /\ pc \in {"fetch", "train"} => Older(aSaved) /\ OnlyLastTracked(aSaved)
  /\ pc \in AfterActor \cup {"next"} => OlderOrThis(aSaved)
  /\ pc = "next" => OnlyLastTracked(aSaved)

CriticMemory ==
  UseCritic =>
    /\ pc \in {"fetch", "train", "save_actor"} => Older(cSaved) /\ OnlyLastTracked(cSaved)
    /\ pc \in AfterCritic \cup {"next"} => OlderOrThis(cSaved)
    /\ pc = "next" => OnlyLastTracked(cSaved)

(* What is finished of the folder in the making.                           *)
FolderSoFar ==
  /\ pc \in AfterActor => A!Uniform(globalSteps)
  /\ pc \in AfterCritic /\ UseCritic => C!Uniform(globalSteps)
  /\ pc \in {"track", "tracking"} => dataPt[globalSteps] \in 1..EpochLen

IInv ==
  /\ TypeOK
  /\ TrackedIsWhole
  /\ TrackerBehind
  /\ ActorWhole
  /\ HasBatch
  /\ Looping
  /\ Resting
  /\ SavesSafely
  /\ ActorMemory
  /\ CriticMemory
  /\ FolderSoFar

-----------------------------------------------------------------------------
(* Constants and control points that every proof below needs. *)
LEMMA ConstantFacts ==
  /\ 0 \in Ranks
  /\ Steps \subseteq Nat /\ Steps \subseteq Int /\ 0 \notin Steps /\ -1 \notin Steps
  /\ MaxActorKeep \in Nat /\ MaxCriticKeep \in Nat
  /\ Absent \notin ActorStates /\ Torn \notin ActorStates
  /\ Absent \notin CriticStates /\ Torn \notin CriticStates
  /\ Absent \notin Int /\ Torn \notin Int
  /\ Pretrained \in ActorStates
  /\ 1 \in Steps
BY TrainerAssumption DEF Steps, ActorStates, Pretrained

(* A job that was never started satisfies the invariant.                   *)
LEMMA InitIInv == Init => IInv
<1> SUFFICES ASSUME Init PROVE IInv
  OBVIOUS
<1> USE TrainerAssumption, ConstantFacts DEF Init
<1>1. A!TypeOK /\ A!Idle
  BY DEF A!Init, A!TypeOK, A!Idle, A!Phases, A!Contents
<1>2. C!TypeOK /\ C!Idle
  BY DEF C!Init, C!TypeOK, C!Idle, C!Phases, C!Contents
<1>3. TypeOK
  BY <1>1, <1>2 DEF TypeOK, DriverPcs, NoTracker, EmptyTracker
<1>4. tracker \notin Steps
  BY DEF NoTracker
<1>5. Resting
  BY <1>1, <1>2 DEF Resting, A!Init, C!Init
<1> QED
  BY <1>3, <1>4, <1>5
  DEF IInv, TrackedIsWhole, TrackerBehind, ActorWhole, HasBatch, Looping, SavesSafely,
      ActorMemory, CriticMemory, FolderSoFar, Up, AfterActor, AfterCritic

(* The tracked folder exists, so that mode "auto" finds it.                *)
LEMMA TrackedIsFound ==
  ASSUME IInv
  PROVE  LatestCkpt = IF tracker \in Steps THEN tracker ELSE 0
BY ConstantFacts DEF IInv, TrackedIsWhole, LatestCkpt, FolderExists

(* A new start, whatever it finds, keeps the disk and empties the memory.  *)
LEMMA MayStartFacts ==
  ASSUME IInv, MayStart
  PROVE  /\ A!TypeOK' /\ A!Idle' /\ aDoomed' = {} /\ aSaved' = << >>
         /\ C!TypeOK' /\ C!Idle' /\ cDoomed' = {} /\ cSaved' = << >>
         /\ UNCHANGED <<aShard, cShard, dataPt, tracker>>
         /\ run' \in 0..MaxRuns /\ epoch' = 0
<1>1. /\ A!TypeOK' /\ A!Idle' /\ aDoomed' = {} /\ aSaved' = << >>
      /\ UNCHANGED <<aShard, aDirs>>
  BY DEF MayStart, IInv, TypeOK, A!Exit, A!TypeOK, A!Idle, A!Phases
<1>2. /\ C!TypeOK' /\ C!Idle' /\ cDoomed' = {} /\ cSaved' = << >>
      /\ UNCHANGED <<cShard, cDirs>>
  BY DEF MayStart, IInv, TypeOK, C!Exit, C!TypeOK, C!Idle, C!Phases
<1> QED
  BY <1>1, <1>2, TrainerAssumption DEF MayStart, IInv, TypeOK

(* The folder the tracker names is whole in the next state when its shards *)
(* and its data.pt are untouched.                                          *)
LEMMA TrackedStays ==
  ASSUME IInv, tracker' = tracker,
         tracker \in Steps => /\ aShard'[tracker] = aShard[tracker]
                              /\ cShard'[tracker] = cShard[tracker]
                              /\ dataPt'[tracker] = dataPt[tracker]
  PROVE  TrackedIsWhole'
BY DEF IInv, TrackedIsWhole, A!Uniform, A!Complete, C!Uniform, C!Complete

(* A start in mode "auto" keeps the invariant, whether it resumes the tracked  *)
(* folder, begins from scratch, or raises on the empty tracker.             *)
LEMMA StartIInv ==
  ASSUME IInv, SafeConfiguration, Start
  PROVE  IInv'
<1> USE TrainerAssumption, ConstantFacts
<1>1. PICK mode \in Modes : \/ StartFromScratch(mode)
                            \/ \E s \in Steps : StartFromCheckpoint(mode, s)
                            \/ StartFails(mode)
  BY DEF Start
<1>2. mode = "auto"
  BY DEF SafeConfiguration
<1>3. MayStart
  BY <1>1 DEF StartFromScratch, StartFromCheckpoint, StartFails
<1>4. TrackedIsWhole'
  BY <1>3, MayStartFacts, TrackedStays
<1>5. CASE StartFromScratch(mode)
  <2>1. tracker = NoTracker
    BY <1>2, <1>5, TrackedIsFound DEF StartFromScratch, IInv, TypeOK
  <2>2. /\ actor' = [r \in Ranks |-> Pretrained]
        /\ pos' = 0 /\ globalSteps' = 1 /\ pc' = "fetch"
    BY <1>5 DEF StartFromScratch
  <2>3. TypeOK'
    BY <1>3, <2>2, MayStartFacts DEF IInv, TypeOK, DriverPcs
  <2> QED
    BY <1>3, <1>4, <2>1, <2>2, <2>3, MayStartFacts
    DEF IInv, TrackerBehind, ActorWhole, HasBatch, Looping, Resting, SavesSafely, Older,
        OnlyLastTracked, ActorMemory, CriticMemory, FolderSoFar, Up, AfterActor,
        AfterCritic, NoTracker
<1>6. CASE \E s \in Steps : StartFromCheckpoint(mode, s)
  <2>1. PICK s \in Steps : StartFromCheckpoint(mode, s)
    BY <1>6
  <2>2. s = tracker
    BY <1>2, <2>1, TrackedIsFound DEF StartFromCheckpoint, ResumeFolder
  <2>3. /\ actor' = aShard[s] /\ globalSteps' = s + 1 /\ pc' = "fetch"
        /\ s < MaxStep
        /\ pos' = IF dataPt[s] = Absent THEN 0 ELSE dataPt[s]
    BY <2>1 DEF StartFromCheckpoint
  <2>4. /\ aShard[s] \in [Ranks -> ActorStates]
        /\ \A r, q \in Ranks : aShard[s][r] = aShard[s][q]
        /\ dataPt[s] \in 1..EpochLen
    BY <2>2 DEF IInv, TypeOK, TrackedIsWhole, A!Uniform, A!Complete, A!TypeOK
  <2>5. globalSteps' \in Steps /\ pos' \in 0..EpochLen
    BY <2>3, <2>4 DEF Steps
  <2>6. TypeOK'
    BY <1>3, <2>3, <2>4, <2>5, MayStartFacts DEF IInv, TypeOK, DriverPcs, Steps
  <2> QED
    BY SMTT(30), <1>3, <1>4, <2>2, <2>3, <2>4, <2>5, <2>6, MayStartFacts
    DEF IInv, TrackerBehind, ActorWhole, HasBatch, Looping, Resting, SavesSafely, Older,
        OnlyLastTracked, ActorMemory, CriticMemory, FolderSoFar, Up, AfterActor,
        AfterCritic
<1>7. CASE StartFails(mode)
  <2>1. pc' = "failed" /\ UNCHANGED <<globalSteps, actor, pos>>
    BY <1>7 DEF StartFails
  <2>2. TypeOK'
    BY <1>3, <2>1, MayStartFacts DEF IInv, TypeOK, DriverPcs
  <2> QED
    BY <1>3, <1>4, <2>1, <2>2, MayStartFacts
    DEF IInv, TrackerBehind, ActorWhole, HasBatch, Looping, Resting, SavesSafely,
        ActorMemory, CriticMemory, FolderSoFar, Up, AfterActor, AfterCritic
<1> QED BY <1>1, <1>5, <1>6, <1>7

-----------------------------------------------------------------------------
(* What stays as it is when a step leaves the managers alone. *)
LEMMA ManagersUnchanged ==
  ASSUME IInv
  PROVE  /\ UNCHANGED actorVars => /\ A!TypeOK' /\ (A!Idle => A!Idle')
                                   /\ \A s \in Steps : A!Uniform(s) => A!Uniform(s)'
         /\ UNCHANGED criticVars => /\ C!TypeOK' /\ (C!Idle => C!Idle')
                                    /\ \A s \in Steps : C!Uniform(s) => C!Uniform(s)'
BY DEF IInv, TypeOK, actorVars, criticVars, A!TypeOK, C!TypeOK, A!Idle, C!Idle,
       A!Uniform, A!Complete, C!Uniform, C!Complete

(* Drawing a batch, and ending an epoch, leave the disk and the model alone. *)
LEMMA FetchIInv ==
  ASSUME IInv, Fetch \/ EndEpoch
  PROVE  IInv'
<1> USE TrainerAssumption, ConstantFacts
<1>1. /\ pc = "fetch" /\ pc' \in {"train", "fetch", "ended"}
      /\ UNCHANGED <<actorVars, criticVars, dataPt, tracker, run, globalSteps, actor>>
  BY DEF Fetch, EndEpoch, AfterEpoch, Goto
<1>2. /\ pos' \in 0..EpochLen /\ epoch' \in 0..TotalEpochs
      /\ pc' = "train" => pos' \in 1..EpochLen
      /\ pc' # "ended" => epoch' < TotalEpochs
  BY DEF Fetch, EndEpoch, AfterEpoch, Goto, IInv, TypeOK, Looping, Up
<1>3. UNCHANGED <<aShard, cShard, aSaved, cSaved, aDoomed, cDoomed>>
  BY <1>1 DEF actorVars, criticVars
<1>4. TypeOK'
  BY <1>1, <1>2, ManagersUnchanged DEF IInv, TypeOK, DriverPcs
<1>5. TrackedIsWhole'
  BY <1>1, <1>3, TrackedStays
<1>6. Resting'
  BY <1>1, <1>3, ManagersUnchanged DEF IInv, Resting
<1> QED
  BY <1>1, <1>2, <1>3, <1>4, <1>5, <1>6
  DEF IInv, TrackerBehind, ActorWhole, HasBatch, Looping, SavesSafely, Older,
      OnlyLastTracked, ActorMemory, CriticMemory, OlderOrThis, FolderSoFar, Up, AfterActor,
      AfterCritic

(* What the managers remember are steps, hence numbers.                     *)
LEMMA RememberedAreNat ==
  ASSUME NEW mem \in Seq(Steps), NEW i \in 1..Len(mem)
  PROVE  mem[i] \in Nat
<1>1. mem[i] \in Steps
  OBVIOUS
<1> QED BY <1>1, ConstantFacts

(* The step counter moves past every folder there is.                       *)
LEMMA NextStepIInv ==
  ASSUME IInv, NextStep
  PROVE  IInv'
<1> USE TrainerAssumption, ConstantFacts
<1>1. /\ pc = "next" /\ pc' \in {"finished", "fetch"}
      /\ globalSteps' = globalSteps + 1 /\ globalSteps < MaxStep
      /\ UNCHANGED <<actorVars, criticVars, dataPt, tracker, run, actor, pos, epoch>>
  BY DEF NextStep, Goto
<1>2. UNCHANGED <<aShard, cShard, aSaved, cSaved, aDoomed, cDoomed>>
  BY <1>1 DEF actorVars, criticVars
<1>3. TypeOK'
  BY <1>1, ManagersUnchanged DEF IInv, TypeOK, DriverPcs
<1>4. TrackedIsWhole'
  BY <1>1, <1>2, TrackedStays
<1>5. Resting'
  BY <1>1, <1>2, ManagersUnchanged DEF IInv, Resting
<1>6. /\ globalSteps' \in Steps
      /\ tracker < globalSteps'
  BY <1>1 DEF IInv, TypeOK, TrackerBehind, Up, Steps, NoTracker, EmptyTracker
<1>7. /\ Older(aSaved)' /\ OnlyLastTracked(aSaved)'
      /\ UseCritic => Older(cSaved)' /\ OnlyLastTracked(cSaved)'
  <2>1. /\ OlderOrThis(aSaved) /\ OnlyLastTracked(aSaved)
        /\ UseCritic => OlderOrThis(cSaved) /\ OnlyLastTracked(cSaved)
        /\ aSaved \in Seq(Steps) /\ cSaved \in Seq(Steps) /\ globalSteps \in Nat
    BY <1>1 DEF IInv, ActorMemory, CriticMemory, TypeOK, A!TypeOK, C!TypeOK
  <2>2. ASSUME NEW mem \in Seq(Steps), OlderOrThis(mem), NEW i \in 1..Len(mem)
        PROVE  mem[i] < globalSteps + 1
    <3>1. globalSteps \in Nat /\ mem[i] \in Nat
      BY <2>1, RememberedAreNat
    <3>2. mem[i] < globalSteps \/ mem[i] = globalSteps
      BY <2>2 DEF OlderOrThis
    <3> QED BY <3>1, <3>2
  <2> QED
    BY <1>1, <1>2, <2>1, <2>2 DEF Older, OnlyLastTracked
<1>8. Looping'
  BY <1>1 DEF IInv, TypeOK, Looping, Up
<1> QED
  BY <1>1, <1>2, <1>3, <1>4, <1>5, <1>6, <1>7, <1>8
  DEF IInv, TrackerBehind, ActorWhole, HasBatch, SavesSafely,
      ActorMemory, CriticMemory, FolderSoFar, Up, AfterActor, AfterCritic

(* A crash costs the memory only: the tracked folder stays whole.           *)
LEMMA CrashIInv ==
  ASSUME IInv, Crash
  PROVE  IInv'
<1> USE TrainerAssumption, ConstantFacts
<1>1. /\ pc' = "down" /\ actor' = [r \in Ranks |-> Pretrained] /\ pos' = 0
      /\ UNCHANGED <<dataPt, tracker, run, globalSteps, epoch>>
      /\ A!Exit /\ C!Exit
  BY DEF Crash
<1>2. A!TypeOK' /\ A!Idle' /\ aDoomed' = {} /\ UNCHANGED aShard
  BY <1>1 DEF IInv, TypeOK, A!Exit, A!TypeOK, A!Idle, A!Phases
<1>3. C!TypeOK' /\ C!Idle' /\ cDoomed' = {} /\ UNCHANGED cShard
  BY <1>1 DEF IInv, TypeOK, C!Exit, C!TypeOK, C!Idle, C!Phases
<1>4. TypeOK'
  BY <1>1, <1>2, <1>3 DEF IInv, TypeOK, DriverPcs
<1>5. TrackedIsWhole'
  BY <1>1, <1>2, <1>3, TrackedStays
<1> QED
  BY <1>1, <1>2, <1>3, <1>4, <1>5
  DEF IInv, TrackerBehind, ActorWhole, HasBatch, Looping, Resting, SavesSafely,
      ActorMemory, CriticMemory, FolderSoFar, Up, AfterActor, AfterCritic

(* The update gives all ranks one state, and a save may begin from it.      *)
LEMMA TrainIInv ==
  ASSUME IInv, Train
  PROVE  IInv'
<1> USE TrainerAssumption, ConstantFacts
<1>1. /\ pc = "train"
      /\ \/ pc' = "save_actor" /\ A!Call
         \/ pc' = "next" /\ UNCHANGED actorVars
      /\ UNCHANGED <<criticVars, dataPt, tracker, run, globalSteps, pos, epoch>>
  BY DEF Train, Goto
<1>2. /\ actor' \in [Ranks -> ActorStates]
      /\ \A r, q \in Ranks : actor'[r] = actor'[q]
  <2>1. /\ run \in 0..MaxRuns /\ globalSteps \in 0..MaxStep
        /\ actor \in [Ranks -> ActorStates]
        /\ \A r, q \in Ranks : actor[r] = actor[q]
    BY <1>1 DEF IInv, TypeOK, ActorWhole, Up
  <2>2. actor' = IF CriticWarmup <= globalSteps
                 THEN [r \in Ranks |-> [run |-> run, step |-> globalSteps]]
                 ELSE actor
    BY DEF Train
  <2>3. [run |-> run, step |-> globalSteps] \in ActorStates
    BY <2>1 DEF ActorStates
  <2> QED BY <2>1, <2>2, <2>3
<1>3. UNCHANGED <<aShard, cShard, aSaved, cSaved, aDoomed, cDoomed, aDirs>>
  BY <1>1 DEF actorVars, criticVars, A!Call
<1>4. A!TypeOK'
  <2>1. CASE A!Call
    BY <2>1 DEF IInv, TypeOK, A!Call, A!TypeOK, A!Phases
  <2> QED BY <1>1, <2>1, ManagersUnchanged
<1>5. TypeOK'
  BY <1>1, <1>2, <1>4, ManagersUnchanged DEF IInv, TypeOK, DriverPcs
<1>6. TrackedIsWhole'
  BY <1>1, <1>3, TrackedStays
<1>7. Resting'
  BY <1>1, <1>3, ManagersUnchanged DEF IInv, Resting
<1>8. /\ Older(aSaved)' /\ OnlyLastTracked(aSaved)'
      /\ UseCritic => Older(cSaved)' /\ OnlyLastTracked(cSaved)'
  BY <1>1, <1>3 DEF IInv, ActorMemory, CriticMemory, Older, OnlyLastTracked
<1>9. SavesSafely'
  <2>1. CASE A!Call /\ pc' = "save_actor"
    <3>1. \A r \in Ranks : aPhase'[r] \in {"rotate", "mkdir"}
      BY <2>1 DEF A!Call
    <3>2. aDoomed' = {}
      BY <1>1, <1>3 DEF IInv, Resting
    <3>3. A!SaveInv(globalSteps, tracker, actor)'
      BY <1>4, <1>8, <3>1, <3>2
      DEF A!SaveInv, A!PastWrite, A!RemembersOlder, Older, OnlyLastTracked
    <3> QED BY <2>1, <3>3 DEF SavesSafely
  <2>2. CASE pc' = "next"
    BY <2>2 DEF SavesSafely
  <2> QED BY <1>1, <2>1, <2>2
<1> QED
  BY <1>1, <1>2, <1>3, <1>5, <1>6, <1>7, <1>8, <1>9
  DEF IInv, TrackerBehind, ActorWhole, HasBatch, Looping, Older, OlderOrThis,
      ActorMemory, CriticMemory, FolderSoFar, Up, AfterActor, AfterCritic

-----------------------------------------------------------------------------
(* _save_checkpoint *)

(* Rotation: rank 0 forgets the oldest k folders it remembers.              *)
LEMMA OldestForgotten ==
  ASSUME NEW S, S \subseteq Nat, NEW s \in Seq(S), NEW k \in 1..Len(s), NEW step, NEW tracked,
         \A i \in 1..Len(s) : s[i] < step,
         \A i \in 1..(Len(s) - 1) : s[i] # tracked,
         k < Len(s) \/ tracked \notin S
  PROVE  LET t == SubSeq(s, k + 1, Len(s))
         IN  /\ t \in Seq(S)
             /\ \A i \in 1..Len(t) : t[i] < step
             /\ \A i \in 1..(Len(t) - 1) : t[i] # tracked
             /\ \A i \in 1..k : s[i] \in S /\ s[i] < step /\ s[i] # tracked
<1> DEFINE t == SubSeq(s, k + 1, Len(s))
<1>1. t \in Seq(S) /\ Len(t) = Len(s) - k /\ \A i \in 1..Len(t) : t[i] = s[i + k]
  OBVIOUS
<1> HIDE DEF t
<1>2. \A i \in 1..Len(t) : t[i] < step
  BY <1>1
<1>3. \A i \in 1..(Len(t) - 1) : t[i] # tracked
  <2> SUFFICES ASSUME NEW i \in 1..(Len(t) - 1) PROVE t[i] # tracked
    OBVIOUS
  <2>1. i + k \in 1..(Len(s) - 1) /\ i \in 1..Len(t)
    BY <1>1
  <2> QED BY <1>1, <2>1
<1>4. \A i \in 1..k : s[i] \in S /\ s[i] < step /\ s[i] # tracked
  OBVIOUS
<1> QED BY <1>1, <1>2, <1>3, <1>4 DEF t

(* No step of any rank inside the actor's save breaks SaveInv or touches   *)
(* the tracked folder, when more than one folder is kept or none is        *)
(* tracked.                                                                *)
LEMMA ActorRankSafe ==
  ASSUME 0 \in Ranks, Steps \subseteq Nat, MaxActorKeep \in Nat,
         NEW step \in Steps, NEW tracked \in Int, tracked # step,
         MaxActorKeep # 1 \/ tracked \notin Steps,
         NEW state \in [Ranks -> ActorStates \cup {Torn}], NEW r \in Ranks,
         A!SaveInv(step, tracked, state), A!RankStep(r, step, state[r])
  PROVE  /\ A!SaveInv(step, tracked, state)'
         /\ tracked \in Steps => aShard'[tracked] = aShard[tracked]
         /\ tracked \in aDirs => tracked \in aDirs'
<1> USE DEF A!SaveInv, A!TypeOK, A!RemembersOlder, A!Move, A!Phases, A!PastWrite,
            A!Contents
<1>1. CASE r = 0 /\ A!Rotate
  <2>1. CASE MaxActorKeep > 0 /\ Len(aSaved) >= MaxActorKeep
    <3> DEFINE k == A!KeepStart
               t == SubSeq(aSaved, k + 1, Len(aSaved))
    <3>1. k \in 1..Len(aSaved) /\ (k < Len(aSaved) \/ tracked \notin Steps)
      BY <2>1 DEF A!KeepStart
    <3>2. /\ aSaved' = t
          /\ aDoomed' = {aSaved[i] : i \in 1..k} \cap aDirs
          /\ aPhase' = [aPhase EXCEPT ![0] = "remove"] /\ aPhase[0] = "rotate"
          /\ UNCHANGED <<aShard, aDirs>>
      BY <1>1, <2>1 DEF A!Rotate
    <3>3. /\ aSaved \in Seq(Steps) /\ \A i \in 1..Len(aSaved) : aSaved[i] < step
          /\ \A i \in 1..(Len(aSaved) - 1) : aSaved[i] # tracked
      BY <3>2
    <3> HIDE DEF k
    <3>4. /\ t \in Seq(Steps)
          /\ \A i \in 1..Len(t) : t[i] < step
          /\ \A i \in 1..(Len(t) - 1) : t[i] # tracked
          /\ \A i \in 1..k : aSaved[i] \in Steps /\ aSaved[i] < step /\ aSaved[i] # tracked
      BY <3>1, <3>3, OldestForgotten
    <3> HIDE DEF t
    <3> QED BY <3>2, <3>4
  <2>2. CASE ~(MaxActorKeep > 0 /\ Len(aSaved) >= MaxActorKeep)
    BY <1>1, <2>2 DEF A!Rotate
  <2> QED BY <2>1, <2>2
<1>2. CASE r = 0 /\ \E d \in aDoomed, q \in Ranks : A!RemoveFile(d, q)
  BY <1>2 DEF A!RemoveFile
<1>3. CASE r = 0 /\ \E d \in aDoomed : A!RemoveDir(d) \/ A!RemoveFails(d)
  BY <1>3 DEF A!RemoveDir, A!RemoveFails
<1>4. CASE A!Mkdir(r, step)
  BY <1>4 DEF A!Mkdir
<1>5. CASE A!BeginWrite(r, step)
  BY <1>5 DEF A!BeginWrite
<1>6. CASE A!EndWrite(r, step, state[r])
  BY <1>6 DEF A!EndWrite
<1>7. CASE r = 0 /\ A!SaveHf
  BY <1>7 DEF A!SaveHf
<1>8. CASE A!Return(r, step)
  <2>1. CASE r = 0
    <3>1. /\ aSaved' = Append(aSaved, step) /\ aSaved' \in Seq(Steps)
          /\ Len(aSaved') = Len(aSaved) + 1 /\ aSaved'[Len(aSaved')] = step
          /\ \A i \in 1..Len(aSaved) : aSaved'[i] = aSaved[i]
      BY <1>8, <2>1 DEF A!Return
    <3>2. /\ aPhase[0] = "append" /\ UNCHANGED <<aShard, aDirs, aDoomed>>
          /\ aPhase' = [aPhase EXCEPT ![0] = "returned"]
      BY <1>8, <2>1 DEF A!Return
    <3>3. aPhase'[0] = "returned"
      BY <3>2
    <3>4. A!RemembersOlder(step)'
      BY <3>1, <3>2, <3>3
    <3> QED BY <3>1, <3>2, <3>3, <3>4
  <2>2. CASE r # 0
    BY <1>8, <2>2 DEF A!Return
  <2> QED BY <2>1, <2>2
<1> QED BY <1>1, <1>2, <1>3, <1>4, <1>5, <1>6, <1>7, <1>8 DEF A!RankStep

(* Nor does a barrier of its ranks.                                        *)
LEMMA ActorBarrierSafe ==
  ASSUME 0 \in Ranks, NEW step \in Steps, NEW tracked \in Int,
         NEW state \in [Ranks -> ActorStates \cup {Torn}],
         A!SaveInv(step, tracked, state), A!BarrierStep
  PROVE  A!SaveInv(step, tracked, state)' /\ UNCHANGED <<aShard, aDirs>>
<1> USE DEF A!SaveInv, A!TypeOK, A!RemembersOlder, A!Barrier, A!Phases, A!PastWrite
<1>1. CASE A!EnterBarrier  BY <1>1 DEF A!EnterBarrier
<1>2. CASE A!DumpBarrier   BY <1>2 DEF A!DumpBarrier
<1>3. CASE A!HfBarrier     BY <1>3 DEF A!HfBarrier
<1> QED BY <1>1, <1>2, <1>3 DEF A!BarrierStep

(* No step of any rank inside the critic's save breaks SaveInv or touches  *)
(* the tracked folder, when more than one folder is kept or none is        *)
(* tracked.                                                                *)
LEMMA CriticRankSafe ==
  ASSUME 0 \in Ranks, Steps \subseteq Nat, MaxCriticKeep \in Nat,
         NEW step \in Steps, NEW tracked \in Int, tracked # step,
         MaxCriticKeep # 1 \/ tracked \notin Steps,
         NEW state \in [Ranks -> CriticStates \cup {Torn}], NEW r \in Ranks,
         C!SaveInv(step, tracked, state), C!RankStep(r, step, state[r])
  PROVE  /\ C!SaveInv(step, tracked, state)'
         /\ tracked \in Steps => cShard'[tracked] = cShard[tracked]
         /\ tracked \in cDirs => tracked \in cDirs'
<1> USE DEF C!SaveInv, C!TypeOK, C!RemembersOlder, C!Move, C!Phases, C!PastWrite,
            C!Contents
<1>1. CASE r = 0 /\ C!Rotate
  <2>1. CASE MaxCriticKeep > 0 /\ Len(cSaved) >= MaxCriticKeep
    <3> DEFINE k == C!KeepStart
               t == SubSeq(cSaved, k + 1, Len(cSaved))
    <3>1. k \in 1..Len(cSaved) /\ (k < Len(cSaved) \/ tracked \notin Steps)
      BY <2>1 DEF C!KeepStart
    <3>2. /\ cSaved' = t
          /\ cDoomed' = {cSaved[i] : i \in 1..k} \cap cDirs
          /\ cPhase' = [cPhase EXCEPT ![0] = "remove"] /\ cPhase[0] = "rotate"
          /\ UNCHANGED <<cShard, cDirs>>
      BY <1>1, <2>1 DEF C!Rotate
    <3>3. /\ cSaved \in Seq(Steps) /\ \A i \in 1..Len(cSaved) : cSaved[i] < step
          /\ \A i \in 1..(Len(cSaved) - 1) : cSaved[i] # tracked
      BY <3>2
    <3> HIDE DEF k
    <3>4. /\ t \in Seq(Steps)
          /\ \A i \in 1..Len(t) : t[i] < step
          /\ \A i \in 1..(Len(t) - 1) : t[i] # tracked
          /\ \A i \in 1..k : cSaved[i] \in Steps /\ cSaved[i] < step /\ cSaved[i] # tracked
      BY <3>1, <3>3, OldestForgotten
    <3> HIDE DEF t
    <3> QED BY <3>2, <3>4
  <2>2. CASE ~(MaxCriticKeep > 0 /\ Len(cSaved) >= MaxCriticKeep)
    BY <1>1, <2>2 DEF C!Rotate
  <2> QED BY <2>1, <2>2
<1>2. CASE r = 0 /\ \E d \in cDoomed, q \in Ranks : C!RemoveFile(d, q)
  BY <1>2 DEF C!RemoveFile
<1>3. CASE r = 0 /\ \E d \in cDoomed : C!RemoveDir(d) \/ C!RemoveFails(d)
  BY <1>3 DEF C!RemoveDir, C!RemoveFails
<1>4. CASE C!Mkdir(r, step)
  BY <1>4 DEF C!Mkdir
<1>5. CASE C!BeginWrite(r, step)
  BY <1>5 DEF C!BeginWrite
<1>6. CASE C!EndWrite(r, step, state[r])
  BY <1>6 DEF C!EndWrite
<1>7. CASE r = 0 /\ C!SaveHf
  BY <1>7 DEF C!SaveHf
<1>8. CASE C!Return(r, step)
  <2>1. CASE r = 0
    <3>1. /\ cSaved' = Append(cSaved, step) /\ cSaved' \in Seq(Steps)
          /\ Len(cSaved') = Len(cSaved) + 1 /\ cSaved'[Len(cSaved')] = step
          /\ \A i \in 1..Len(cSaved) : cSaved'[i] = cSaved[i]
      BY <1>8, <2>1 DEF C!Return
    <3>2. /\ cPhase[0] = "append" /\ UNCHANGED <<cShard, cDirs, cDoomed>>
          /\ cPhase' = [cPhase EXCEPT ![0] = "returned"]
      BY <1>8, <2>1 DEF C!Return
    <3>3. cPhase'[0] = "returned"
      BY <3>2
    <3>4. C!RemembersOlder(step)'
      BY <3>1, <3>2, <3>3
    <3> QED BY <3>1, <3>2, <3>3, <3>4
  <2>2. CASE r # 0
    BY <1>8, <2>2 DEF C!Return
  <2> QED BY <2>1, <2>2
<1> QED BY <1>1, <1>2, <1>3, <1>4, <1>5, <1>6, <1>7, <1>8 DEF C!RankStep

(* Nor does a barrier of its ranks.                                        *)
LEMMA CriticBarrierSafe ==
  ASSUME 0 \in Ranks, NEW step \in Steps, NEW tracked \in Int,
         NEW state \in [Ranks -> CriticStates \cup {Torn}],
         C!SaveInv(step, tracked, state), C!BarrierStep
  PROVE  C!SaveInv(step, tracked, state)' /\ UNCHANGED <<cShard, cDirs>>
<1> USE DEF C!SaveInv, C!TypeOK, C!RemembersOlder, C!Barrier, C!Phases, C!PastWrite
<1>1. CASE C!EnterBarrier  BY <1>1 DEF C!EnterBarrier
<1>2. CASE C!DumpBarrier   BY <1>2 DEF C!DumpBarrier
<1>3. CASE C!HfBarrier     BY <1>3 DEF C!HfBarrier
<1> QED BY <1>1, <1>2, <1>3 DEF C!BarrierStep

(* No rank's step or barrier inside the actor's save endangers the tracked  *)
(* folder.                                                                 *)
LEMMA ActorStepIInv ==
  ASSUME IInv, SafeConfiguration,
         ActorBarrier \/ \E r \in Ranks : ActorRank(r)
  PROVE  IInv' /\ (tracker \in Steps => aShard'[tracker] = aShard[tracker])
<1> USE TrainerAssumption, ConstantFacts
<1>1. /\ pc = "save_actor"
      /\ A!BarrierStep \/ \E r \in Ranks : A!RankStep(r, globalSteps, actor[r])
      /\ UNCHANGED <<criticVars, dataPt, tracker, pc, loopVars>>
  BY DEF ActorBarrier, ActorRank
<1>2. UNCHANGED <<run, globalSteps, actor, pos, epoch, cSaved, cDoomed, cShard>>
  BY <1>1 DEF loopVars, criticVars
<1>3. PICK g, t, st : g = globalSteps /\ t = tracker /\ st = actor
  OBVIOUS
<1>4. /\ g \in Steps /\ t \in Int /\ t # g /\ st \in [Ranks -> ActorStates]
      /\ A!SaveInv(g, t, st)
  <2>1. A!SaveInv(globalSteps, tracker, actor) /\ Up
    BY <1>1 DEF IInv, SavesSafely, Up
  <2>2. globalSteps \in Steps /\ tracker \in Int /\ tracker # globalSteps
    BY <1>1, <2>1 DEF IInv, TypeOK, TrackerBehind, NoTracker, EmptyTracker
  <2>3. actor \in [Ranks -> ActorStates]
    BY <2>1 DEF IInv, ActorWhole
  <2> QED BY <1>3, <2>1, <2>2, <2>3
<1>5. /\ A!SaveInv(g, t, st)'
      /\ t \in Steps => aShard'[t] = aShard[t]
  <2>1. CASE A!BarrierStep
    BY <1>4, <2>1, ActorBarrierSafe
  <2>2. CASE \E r \in Ranks : A!RankStep(r, globalSteps, actor[r])
    <3>1. PICK r \in Ranks : A!RankStep(r, g, st[r])
      BY <1>3, <2>2
    <3> QED BY <1>4, <3>1, ActorRankSafe DEF SafeConfiguration
  <2> QED BY <1>1, <2>1, <2>2
<1>6. A!SaveInv(globalSteps, tracker, actor)' /\ A!TypeOK'
  BY <1>1, <1>2, <1>3, <1>5 DEF A!SaveInv
<1>7. TypeOK'
  BY <1>1, <1>2, <1>6, ManagersUnchanged DEF IInv, TypeOK
<1>8. TrackedIsWhole'
  BY <1>1, <1>2, <1>3, <1>5, TrackedStays
<1>9. Resting'
  BY <1>1, <1>2, ManagersUnchanged DEF IInv, Resting
<1>10. SavesSafely'
  BY <1>1, <1>6 DEF SavesSafely
<1> QED
  BY <1>1, <1>2, <1>3, <1>5, <1>7, <1>8, <1>9, <1>10
  DEF IInv, TrackerBehind, ActorWhole, HasBatch, Looping, Older, OnlyLastTracked,
      ActorMemory, CriticMemory, FolderSoFar, Up, AfterActor, AfterCritic

(* Nor inside the critic's save, which comes after the actor's.             *)
LEMMA CriticStepIInv ==
  ASSUME IInv, SafeConfiguration,
         CriticBarrier \/ \E r \in Ranks : CriticRank(r)
  PROVE  IInv'
<1> USE TrainerAssumption, ConstantFacts
<1>1. /\ pc = "save_critic"
      /\ C!BarrierStep \/ \E r \in Ranks : C!RankStep(r, globalSteps, "critic")
      /\ UNCHANGED <<actorVars, dataPt, tracker, pc, loopVars>>
  BY DEF CriticBarrier, CriticRank
<1>2. UNCHANGED <<run, globalSteps, actor, pos, epoch, aSaved, aDoomed, aShard>>
  BY <1>1 DEF loopVars, actorVars
<1>3. PICK g, t, st : g = globalSteps /\ t = tracker /\ st = [r \in Ranks |-> "critic"]
  OBVIOUS
<1>4. /\ g \in Steps /\ t \in Int /\ t # g /\ st \in [Ranks -> CriticStates]
      /\ C!SaveInv(g, t, st) /\ UseCritic
  BY <1>1, <1>3
  DEF IInv, TypeOK, TrackerBehind, SavesSafely, Resting, Up, NoTracker, EmptyTracker,
      CriticStates
<1>5. /\ C!SaveInv(g, t, st)'
      /\ t \in Steps => cShard'[t] = cShard[t]
  <2>1. CASE C!BarrierStep
    BY <1>4, <2>1, CriticBarrierSafe
  <2>2. CASE \E r \in Ranks : C!RankStep(r, globalSteps, "critic")
    <3>1. PICK r \in Ranks : C!RankStep(r, g, st[r])
      BY <1>3, <2>2
    <3> QED BY <1>4, <3>1, CriticRankSafe DEF SafeConfiguration
  <2> QED BY <1>1, <2>1, <2>2
<1>6. C!SaveInv(globalSteps, tracker, [r \in Ranks |-> "critic"])' /\ C!TypeOK'
  BY <1>1, <1>2, <1>3, <1>5 DEF C!SaveInv
<1>7. TypeOK'
  BY <1>1, <1>2, <1>6, ManagersUnchanged DEF IInv, TypeOK
<1>8. TrackedIsWhole'
  BY <1>1, <1>2, <1>3, <1>5, TrackedStays
<1>9. Resting'
  BY <1>1, <1>2, ManagersUnchanged DEF IInv, Resting
<1>10. SavesSafely'
  BY <1>1, <1>6 DEF SavesSafely
<1>11. A!Uniform(globalSteps)'
  BY <1>1, <1>2 DEF IInv, FolderSoFar, AfterActor, A!Uniform, A!Complete
<1> QED
  BY <1>1, <1>2, <1>7, <1>8, <1>9, <1>10, <1>11
  DEF IInv, TrackerBehind, ActorWhole, HasBatch, Looping, OlderOrThis,
      ActorMemory, CriticMemory, FolderSoFar, Up, AfterActor, AfterCritic

(* The controller has every rank's answer: the shards of the step are there.*)
LEMMA ActorSavedIInv ==
  ASSUME IInv, ActorSaved
  PROVE  IInv'
<1> USE TrainerAssumption, ConstantFacts
<1>1. /\ pc = "save_actor" /\ pc' = IF UseCritic THEN "save_critic" ELSE "save_data"
      /\ A!Collect
      /\ IF UseCritic THEN C!Call ELSE UNCHANGED criticVars
      /\ UNCHANGED <<dataPt, tracker, loopVars>>
  BY DEF ActorSaved, Goto
<1>2. UNCHANGED <<run, globalSteps, actor, pos, epoch, cSaved, cDoomed, cShard, cDirs,
                  aSaved, aDoomed, aShard, aDirs>>
  BY <1>1 DEF loopVars, criticVars, A!Collect, C!Call
<1>3. /\ A!SaveInv(globalSteps, tracker, actor)
      /\ \A r \in Ranks : aPhase[r] = "returned"
      /\ aPhase' = [r \in Ranks |-> "idle"]
  BY <1>1 DEF IInv, SavesSafely, A!Collect
<1>4. A!TypeOK' /\ A!Idle' /\ aDoomed' = {}
  BY <1>2, <1>3 DEF A!SaveInv, A!TypeOK, A!Idle, A!Phases
<1>5. C!TypeOK' /\ (~UseCritic => C!Idle')
  <2>1. CASE UseCritic
    BY <1>1, <1>2, <2>1 DEF IInv, TypeOK, C!TypeOK, C!Call, C!Phases
  <2>2. CASE ~UseCritic
    BY <1>1, <2>2, ManagersUnchanged DEF IInv, Resting
  <2> QED BY <2>1, <2>2
<1>6. A!Uniform(globalSteps)'
  <2>1. \A r \in Ranks : aShard[globalSteps][r] = actor[r]
    BY <1>3 DEF A!SaveInv, A!PastWrite
  <2>2. actor \in [Ranks -> ActorStates] /\ \A r, q \in Ranks : actor[r] = actor[q]
    BY <1>1 DEF IInv, ActorWhole, Up
  <2> QED BY <1>2, <2>1, <2>2 DEF A!Uniform, A!Complete
<1>7. OlderOrThis(aSaved)'
  BY <1>2, <1>3 DEF A!SaveInv, A!RemembersOlder, OlderOrThis
<1>8. UseCritic => Older(cSaved)' /\ OnlyLastTracked(cSaved)'
  BY <1>1, <1>2 DEF IInv, CriticMemory, Older, OnlyLastTracked
<1>9. cDoomed' = {} /\ C!Idle
  BY <1>1, <1>2 DEF IInv, Resting
<1>10. SavesSafely'
  <2>1. CASE UseCritic
    <3>1. \A r \in Ranks : cPhase'[r] \in {"rotate", "mkdir"}
      BY <1>1, <2>1 DEF C!Call
    <3>2. C!SaveInv(globalSteps, tracker, [r \in Ranks |-> "critic"])'
      BY <1>5, <1>8, <1>9, <2>1, <3>1
      DEF C!SaveInv, C!PastWrite, C!RemembersOlder, Older, OnlyLastTracked
    <3> QED BY <1>1, <3>2 DEF SavesSafely
  <2>2. CASE ~UseCritic
    BY <1>1, <2>2 DEF SavesSafely
  <2> QED BY <2>1, <2>2
<1>11. TypeOK'
  BY <1>1, <1>2, <1>4, <1>5 DEF IInv, TypeOK, DriverPcs
<1>12. TrackedIsWhole'
  BY <1>1, <1>2, TrackedStays
<1>13. Resting'
  BY <1>1, <1>4, <1>5, <1>9 DEF Resting
<1> QED
  BY <1>1, <1>2, <1>6, <1>7, <1>10, <1>11, <1>12, <1>13
  DEF IInv, TrackerBehind, ActorWhole, HasBatch, Looping,
      ActorMemory, CriticMemory, FolderSoFar, Up, AfterActor, AfterCritic

(* The critic's shards of the step are there, and data.pt comes next.       *)
LEMMA CriticSavedIInv ==
  ASSUME IInv, CriticSaved
  PROVE  IInv'
<1> USE TrainerAssumption, ConstantFacts
<1>1. /\ pc = "save_critic" /\ pc' = "save_data" /\ UseCritic
      /\ C!Collect
      /\ UNCHANGED <<actorVars, dataPt, tracker, loopVars>>
  BY DEF CriticSaved, Goto, IInv, Resting
<1>2. UNCHANGED <<run, globalSteps, actor, pos, epoch, cSaved, cDoomed, cShard, cDirs,
                  aSaved, aDoomed, aShard, aDirs>>
  BY <1>1 DEF loopVars, actorVars, C!Collect
<1>3. /\ C!SaveInv(globalSteps, tracker, [r \in Ranks |-> "critic"])
      /\ \A r \in Ranks : cPhase[r] = "returned"
      /\ cPhase' = [r \in Ranks |-> "idle"]
  BY <1>1 DEF IInv, SavesSafely, C!Collect
<1>4. C!TypeOK' /\ C!Idle' /\ cDoomed' = {}
  BY <1>2, <1>3 DEF C!SaveInv, C!TypeOK, C!Idle, C!Phases
<1>5. C!Uniform(globalSteps)'
  <2>1. \A r \in Ranks : cShard[globalSteps][r] = "critic"
    BY <1>3 DEF C!SaveInv, C!PastWrite
  <2> QED BY <1>2, <2>1 DEF C!Uniform, C!Complete, CriticStates
<1>6. OlderOrThis(cSaved)'
  BY <1>2, <1>3 DEF C!SaveInv, C!RemembersOlder, OlderOrThis
<1>7. TypeOK'
  BY <1>1, <1>2, <1>4, ManagersUnchanged DEF IInv, TypeOK, DriverPcs
<1>8. TrackedIsWhole'
  BY <1>1, <1>2, TrackedStays
<1>9. Resting'
  BY <1>1, <1>2, <1>4, ManagersUnchanged DEF IInv, Resting
<1>10. A!Uniform(globalSteps)'
  BY <1>1, <1>2 DEF IInv, FolderSoFar, AfterActor, A!Uniform, A!Complete
<1> QED
  BY <1>1, <1>2, <1>5, <1>6, <1>7, <1>8, <1>9, <1>10
  DEF IInv, TrackerBehind, ActorWhole, HasBatch, Looping, SavesSafely, OlderOrThis,
      ActorMemory, CriticMemory, FolderSoFar, Up, AfterActor, AfterCritic

(* data.pt is written in a folder the tracker does not name yet.            *)
LEMMA SaveDataIInv ==
  ASSUME IInv, BeginSaveData \/ EndSaveData
  PROVE  IInv'
<1> USE TrainerAssumption, ConstantFacts
<1>1. /\ \/ pc = "save_data" /\ pc' = "saving_data"
            /\ dataPt' = [dataPt EXCEPT ![globalSteps] = Torn]
         \/ pc = "saving_data" /\ pc' = "track"
            /\ dataPt' = [dataPt EXCEPT ![globalSteps] = pos]
      /\ UNCHANGED <<actorVars, criticVars, tracker, loopVars>>
  BY DEF BeginSaveData, EndSaveData, Goto
<1>2. UNCHANGED <<run, globalSteps, actor, pos, epoch, aSaved, aDoomed, aShard,
                  cSaved, cDoomed, cShard>>
  BY <1>1 DEF loopVars, actorVars, criticVars
<1>3. /\ globalSteps \in Steps /\ tracker # globalSteps
      /\ pos \in 1..EpochLen
      /\ dataPt \in [Steps -> (1..EpochLen) \cup {Absent, Torn}]
  BY <1>1 DEF IInv, TypeOK, TrackerBehind, HasBatch, AfterActor, Up, NoTracker, EmptyTracker
<1>4. /\ dataPt' \in [Steps -> (1..EpochLen) \cup {Absent, Torn}]
      /\ tracker \in Steps => dataPt'[tracker] = dataPt[tracker]
      /\ pc' = "track" => dataPt'[globalSteps] \in 1..EpochLen
  BY <1>1, <1>3
<1>5. TypeOK'
  BY <1>1, <1>2, <1>4, ManagersUnchanged DEF IInv, TypeOK, DriverPcs
<1>6. TrackedIsWhole'
  BY <1>1, <1>2, <1>4, TrackedStays
<1>7. Resting'
  BY <1>1, <1>2, ManagersUnchanged DEF IInv, Resting
<1>8. A!Uniform(globalSteps)' /\ (UseCritic => C!Uniform(globalSteps)')
  BY <1>1, <1>2
  DEF IInv, FolderSoFar, AfterActor, AfterCritic, A!Uniform, A!Complete, C!Uniform, C!Complete
<1> QED
  BY <1>1, <1>2, <1>4, <1>5, <1>6, <1>7, <1>8
  DEF IInv, TrackerBehind, ActorWhole, HasBatch, Looping, SavesSafely, OlderOrThis,
      ActorMemory, CriticMemory, FolderSoFar, Up, AfterActor, AfterCritic

(* The number in the tracker is the step whose folder is complete.         *)
LEMMA TrackerIInv ==
  ASSUME IInv, OpenTracker \/ WriteTracker
  PROVE  IInv'
<1> USE TrainerAssumption, ConstantFacts
<1>1. /\ \/ pc = "track" /\ pc' = "tracking" /\ tracker' = EmptyTracker
         \/ pc = "tracking" /\ pc' = "next" /\ tracker' = globalSteps
      /\ UNCHANGED <<actorVars, criticVars, dataPt, loopVars>>
  BY DEF OpenTracker, WriteTracker, Goto
<1>2. UNCHANGED <<run, globalSteps, actor, pos, epoch, aSaved, aDoomed, aShard,
                  cSaved, cDoomed, cShard>>
  BY <1>1 DEF loopVars, actorVars, criticVars
<1>3. globalSteps \in Steps
  BY <1>1 DEF IInv, TrackerBehind, Up
<1>4. TypeOK'
  BY <1>1, <1>2, <1>3, ManagersUnchanged DEF IInv, TypeOK, DriverPcs
<1>5. /\ A!Uniform(globalSteps)' /\ (UseCritic => C!Uniform(globalSteps)')
      /\ dataPt'[globalSteps] \in 1..EpochLen
  BY <1>1, <1>2
  DEF IInv, FolderSoFar, AfterActor, AfterCritic, A!Uniform, A!Complete, C!Uniform, C!Complete
<1>6. TrackedIsWhole'
  <2>1. CASE tracker' = EmptyTracker
    BY <2>1 DEF TrackedIsWhole, EmptyTracker
  <2>2. CASE tracker' = globalSteps
    BY <1>2, <1>5, <2>2 DEF TrackedIsWhole, A!Uniform, A!Complete, C!Uniform, C!Complete
  <2> QED BY <1>1, <2>1, <2>2
<1>7. Resting'
  BY <1>1, <1>2, ManagersUnchanged DEF IInv, Resting
<1>8. OlderOrThis(aSaved)' /\ (UseCritic => OlderOrThis(cSaved)')
  BY <1>1, <1>2 DEF IInv, ActorMemory, CriticMemory, AfterActor, AfterCritic, OlderOrThis
<1>9. pc' = "next" => /\ OnlyLastTracked(aSaved)'
                      /\ UseCritic => OnlyLastTracked(cSaved)'
  <2>1. ASSUME NEW mem \in Seq(Steps), OlderOrThis(mem), NEW i \in 1..(Len(mem) - 1)
        PROVE  mem[i] # globalSteps
    <3>1. Len(mem) \in Nat
      OBVIOUS
    <3>2. i \in 1..Len(mem) /\ i # Len(mem)
      BY <3>1
    <3>3. mem[i] \in Nat /\ globalSteps \in Nat
      BY <1>3, <3>2, RememberedAreNat
    <3> QED BY <2>1, <3>2, <3>3 DEF OlderOrThis
  <2>2. /\ aSaved \in Seq(Steps) /\ cSaved \in Seq(Steps)
        /\ OlderOrThis(aSaved) /\ (UseCritic => OlderOrThis(cSaved))
    BY <1>1
    DEF IInv, TypeOK, A!TypeOK, C!TypeOK, ActorMemory, CriticMemory, AfterActor, AfterCritic
  <2> QED BY <1>1, <1>2, <2>1, <2>2 DEF OnlyLastTracked
<1> QED
  BY <1>1, <1>2, <1>3, <1>4, <1>5, <1>6, <1>7, <1>8, <1>9
  DEF IInv, TrackerBehind, ActorWhole, HasBatch, Looping, SavesSafely,
      ActorMemory, CriticMemory, FolderSoFar, Up, AfterActor, AfterCritic, EmptyTracker

(* A stuttering step changes nothing.                                       *)
LEMMA StutterIInv ==
  ASSUME IInv, UNCHANGED vars
  PROVE  IInv'
<1>1. UNCHANGED <<actorVars, criticVars, dataPt, tracker, pc, loopVars>>
  BY DEF vars
<1>2. UNCHANGED <<aShard, aDirs, aSaved, aDoomed, aPhase, cShard, cDirs, cSaved, cDoomed,
                  cPhase, dataPt, tracker, pc, run, globalSteps, actor, pos, epoch>>
  BY <1>1 DEF actorVars, criticVars, loopVars
<1>3. (/\ TypeOK /\ TrackedIsWhole)'
  BY <1>1, <1>2, ManagersUnchanged, TrackedStays DEF IInv, TypeOK
<1>4. (/\ TrackerBehind /\ ActorWhole /\ HasBatch /\ Looping)'
  BY <1>2 DEF IInv, TrackerBehind, ActorWhole, HasBatch, Looping, Up
<1>5. Resting'
  BY <1>1, <1>2, ManagersUnchanged DEF IInv, Resting
<1>6. SavesSafely'
  BY <1>2
  DEF IInv, SavesSafely, A!SaveInv, C!SaveInv, A!TypeOK, C!TypeOK, A!RemembersOlder,
      C!RemembersOlder
<1>7. (ActorMemory /\ CriticMemory)'
  BY <1>2 DEF IInv, ActorMemory, CriticMemory, Older, OlderOrThis, OnlyLastTracked
<1>8. FolderSoFar'
  BY <1>2 DEF IInv, FolderSoFar, A!Uniform, A!Complete, C!Uniform, C!Complete
<1> QED BY <1>3, <1>4, <1>5, <1>6, <1>7, <1>8 DEF IInv

(* IInv is inductive: no step of the driver, of a rank, or of a crash       *)
(* leaves it.                                                              *)
LEMMA NextIInv ==
  ASSUME IInv, SafeConfiguration, [Next]_vars
  PROVE  IInv'
BY StartIInv, FetchIInv, TrainIInv, NextStepIInv, ActorStepIInv, CriticStepIInv,
   ActorSavedIInv, CriticSavedIInv, SaveDataIInv, TrackerIInv, CrashIInv, StutterIInv
DEF Next, Driver

-----------------------------------------------------------------------------
(* The variables of RayPPOTrainer keep their types, for every job that      *)
(* starts in mode "auto" and keeps more than one folder.                    *)
THEOREM TypeCorrect ==
  ASSUME SafeConfiguration
  PROVE  Spec => []TypeOK
<1>1. IInv => TypeOK
  BY DEF IInv
<1> QED BY <1>1, InitIInv, NextIInv, PTL DEF Spec

(* Whatever the interleaving of ranks, removals, crashes and restarts, the  *)
(* folder that latest_checkpointed_iteration.txt names holds a whole and    *)
(* uniform checkpoint of actor, critic and dataloader.                      *)
THEOREM TrackedAlwaysWhole ==
  ASSUME SafeConfiguration
  PROVE  Spec => []TrackedIsWhole
<1>1. IInv => TrackedIsWhole
  BY DEF IInv
<1> QED BY <1>1, InitIInv, NextIInv, PTL DEF Spec

(* The ranks of the actor never train on shards of two different saves.     *)
THEOREM AlwaysOneModel ==
  ASSUME SafeConfiguration
  PROVE  Spec => []OneModel
<1>1. IInv => OneModel
  BY ConstantFacts DEF IInv, OneModel, ActorWhole
<1> QED BY <1>1, InitIInv, NextIInv, PTL DEF Spec

-----------------------------------------------------------------------------
(* RayPPOTrainer implements ResumePoint: a step of the driver, of a rank or *)
(* of a crash is a step of the abstract job, or changes nothing in it.      *)

(* What the folder in the making holds is the job's own state.             *)
FolderIsTheJobs ==
  /\ pc \in AfterActor => aShard[globalSteps] = actor
  /\ pc \in {"track", "tracking"} => dataPt[globalSteps] = pos

PInv == IInv /\ FolderIsTheJobs

LEMMA ActorSavedIsTheJobs ==
  ASSUME IInv, ActorSaved
  PROVE  FolderIsTheJobs'
<1>1. /\ pc = "save_actor" /\ pc' \in {"save_critic", "save_data"}
      /\ A!Collect
      /\ UNCHANGED <<globalSteps, actor>>
  BY DEF ActorSaved, Goto, loopVars
<1>2. /\ A!SaveInv(globalSteps, tracker, actor)
      /\ \A r \in Ranks : aPhase[r] = "returned"
      /\ aShard' = aShard
  BY <1>1 DEF IInv, SavesSafely, A!Collect
<1>3. globalSteps \in Steps /\ actor \in [Ranks -> ActorStates]
  BY <1>1 DEF IInv, TrackerBehind, ActorWhole, Up
<1>4. /\ aShard[globalSteps] \in [Ranks -> A!Contents]
      /\ \A r \in Ranks : aShard[globalSteps][r] = actor[r]
  BY <1>2, <1>3 DEF A!SaveInv, A!TypeOK, A!PastWrite
<1>5. aShard[globalSteps] = actor
  BY <1>3, <1>4
<1> QED BY <1>1, <1>2, <1>5 DEF FolderIsTheJobs

LEMMA NextFolderIsTheJobs ==
  ASSUME PInv, SafeConfiguration, [Next]_vars
  PROVE  FolderIsTheJobs'
<1> USE DEF PInv
<1>1. CASE \/ Start \/ Fetch \/ EndEpoch \/ Train \/ NextStep \/ Crash
          \/ ActorBarrier \/ \E r \in Ranks : ActorRank(r)
  <2>1. pc' \notin AfterActor
    BY <1>1
    DEF Start, StartFromScratch, StartFromCheckpoint, StartFails, Fetch, EndEpoch,
        AfterEpoch, Train, NextStep, Crash, ActorBarrier, ActorRank, Goto, AfterActor
  <2> QED BY <2>1 DEF FolderIsTheJobs, AfterActor
<1>2. CASE ActorSaved
  BY <1>2, ActorSavedIsTheJobs
<1>3. CASE \/ CriticBarrier \/ CriticSaved
          \/ \E r \in Ranks : CriticRank(r)
  <2>1. /\ pc \in AfterActor /\ pc' \in {"save_critic", "save_data"}
        /\ UNCHANGED <<aShard, globalSteps, actor>>
    BY <1>3 DEF CriticBarrier, CriticSaved, CriticRank, Goto, AfterActor, loopVars, actorVars
  <2> QED BY <2>1 DEF FolderIsTheJobs
<1>4. CASE BeginSaveData \/ EndSaveData
  <2>1. /\ pc \in AfterActor
        /\ \/ pc' = "saving_data"
           \/ pc' = "track" /\ dataPt' = [dataPt EXCEPT ![globalSteps] = pos]
        /\ UNCHANGED <<aShard, globalSteps, actor, pos>>
    BY <1>4 DEF BeginSaveData, EndSaveData, Goto, AfterActor, loopVars, actorVars
  <2>2. globalSteps \in Steps /\ dataPt \in [Steps -> (1..EpochLen) \cup {Absent, Torn}]
    BY <2>1 DEF IInv, TypeOK, TrackerBehind, Up, AfterActor
  <2> QED BY <2>1, <2>2 DEF FolderIsTheJobs
<1>5. CASE OpenTracker \/ WriteTracker
  <2>1. /\ pc \in {"track", "tracking"} /\ pc' \in {"tracking", "next"}
        /\ UNCHANGED <<aShard, globalSteps, actor, pos, dataPt>>
    BY <1>5 DEF OpenTracker, WriteTracker, Goto, loopVars, actorVars
  <2> QED BY <2>1 DEF FolderIsTheJobs, AfterActor
<1>6. CASE UNCHANGED vars
  BY <1>6 DEF FolderIsTheJobs, vars, loopVars, actorVars
<1> QED BY <1>1, <1>2, <1>3, <1>4, <1>5, <1>6 DEF Next, Driver

(* PInv is inductive.                                                       *)
LEMMA PInvIsInductive ==
  ASSUME SafeConfiguration
  PROVE  (Init => PInv) /\ (PInv /\ [Next]_vars => PInv')
<1>1. Init => PInv
  BY InitIInv DEF PInv, FolderIsTheJobs, Init, AfterActor
<1> QED BY <1>1, NextIInv, NextFolderIsTheJobs DEF PInv

(* The resume point, given that the tracked folder is whole.               *)
Point ==
  IF tracker = NoTracker THEN FreshState
  ELSE IF tracker = EmptyTracker THEN UnreadableState
  ELSE [model |-> aShard[tracker], done |-> tracker, pos |-> dataPt[tracker]]

LEMMA PointIs == IInv => DiskState = Point
<1> SUFFICES ASSUME IInv PROVE DiskState = Point
  OBVIOUS
<1>1. tracker \in Steps => /\ LatestCkpt = tracker /\ tracker # 0 /\ tracker # -1
                           /\ Restorable(tracker) /\ dataPt[tracker] # Absent
  BY TrackedIsFound, ConstantFacts
  DEF IInv, TrackedIsWhole, Restorable, A!Uniform, C!Uniform
<1>2. tracker \in Steps \cup {NoTracker, EmptyTracker}
  BY DEF IInv, TypeOK
<1> QED BY <1>1, <1>2 DEF DiskState, Point, NoTracker, EmptyTracker

(* A job that is up is in a state of its own, apart from the two marks.    *)
LEMMA JobIsUp == IInv /\ Up => JobState # DownState
<1> SUFFICES ASSUME IInv, Up PROVE JobState.done # DownState.done
  OBVIOUS
<1>1. globalSteps \in Nat \ {0}
  BY TrainerAssumption DEF IInv, TrackerBehind, Steps
<1> QED BY <1>1 DEF JobState, DownState, FreshState, DoneSteps

(* A step that leaves the tracker and its folder alone is work of the job,  *)
(* or its end.                                                             *)
LEMMA WorksOrStops ==
  ASSUME IInv, IInv', tracker' = tracker,
         tracker \in Steps => /\ aShard'[tracker] = aShard[tracker]
                              /\ dataPt'[tracker] = dataPt[tracker]
  PROVE  /\ DiskState' = DiskState
         /\ Up => RP!Work \/ RP!Stop
         /\ ~Up' => RP!Stop
<1>1. DiskState' = DiskState
  <2>1. (IInv => DiskState = Point)'
    BY PointIs, PTL
  <2>2. tracker \in Steps \cup {NoTracker, EmptyTracker}
    BY DEF IInv, TypeOK
  <2> QED BY <2>1, <2>2, PointIs DEF Point, FreshState, UnreadableState, NoTracker, EmptyTracker
<1>2. Up' => JobState' # DownState
  <2>1. (IInv /\ Up => JobState # DownState)'
    BY JobIsUp, PTL
  <2> QED BY <2>1 DEF DownState, FreshState
<1> QED BY <1>1, <1>2, JobIsUp DEF RP!Work, RP!Stop, DownState, FreshState

(* Every step of the system is one of the abstract job.                     *)
LEMMA StepRefines ==
  ASSUME PInv, PInv', SafeConfiguration, [Next]_vars
  PROVE  [RP!Next]_RP!vars
<1> USE DEF PInv
<1>1. CASE \/ Fetch \/ EndEpoch \/ Train \/ NextStep \/ Crash
          \/ ActorSaved \/ CriticSaved \/ CriticBarrier \/ \E r \in Ranks : CriticRank(r)
  <2>1. Up /\ UNCHANGED <<tracker, dataPt, aShard>>
    BY <1>1
    DEF Up, Fetch, EndEpoch, Train, NextStep, Crash, ActorSaved, CriticSaved, CriticBarrier,
        CriticRank, Goto, actorVars, A!Call, A!Exit, A!Collect
  <2> QED BY <2>1, WorksOrStops DEF RP!Next
<1>2. CASE ActorBarrier \/ \E r \in Ranks : ActorRank(r)
  <2>1. Up /\ UNCHANGED <<tracker, dataPt>>
    BY <1>2 DEF Up, ActorBarrier, ActorRank
  <2>2. tracker \in Steps => aShard'[tracker] = aShard[tracker]
    BY <1>2, ActorStepIInv
  <2> QED BY <2>1, <2>2, WorksOrStops DEF RP!Next
<1>3. CASE Start
  <2>1. PICK mode \in Modes : \/ StartFromScratch(mode)
                              \/ \E s \in Steps : StartFromCheckpoint(mode, s)
                              \/ StartFails(mode)
    BY <1>3 DEF Start
  <2>2. mode = "auto" /\ MayStart
    BY <2>1 DEF SafeConfiguration, StartFromScratch, StartFromCheckpoint, StartFails
  <2>3. ~Up /\ UNCHANGED <<tracker, dataPt, aShard>>
    BY <2>2, MayStartFacts DEF MayStart, Up
  <2>4. DiskState' = DiskState /\ (~Up' => RP!Stop)
    BY <2>3, WorksOrStops
  <2>5. CASE StartFromScratch(mode)
    <3>1. tracker = NoTracker
      BY <2>2, <2>5, TrackedIsFound, ConstantFacts DEF StartFromScratch, IInv, TypeOK
    <3>2. DiskState = FreshState /\ DiskState # UnreadableState
      BY <3>1, PointIs DEF Point, FreshState, UnreadableState
    <3>3. Up' /\ JobState' = FreshState
      BY <2>5 DEF StartFromScratch, Up, JobState, DoneSteps, FreshState
    <3> QED BY <2>3, <2>4, <3>1, <3>2, <3>3 DEF RP!Next, RP!Restart
  <2>6. CASE \E s \in Steps : StartFromCheckpoint(mode, s)
    <3>1. PICK s \in Steps : StartFromCheckpoint(mode, s)
      BY <2>6
    <3>2. s = tracker
      BY <2>2, <3>1, TrackedIsFound, ConstantFacts DEF StartFromCheckpoint, ResumeFolder
    <3>3. /\ s \in Nat \ {0} /\ s # NoTracker /\ s # EmptyTracker
          /\ dataPt[s] # Absent
      BY <3>2, TrainerAssumption, ConstantFacts
      DEF IInv, TrackedIsWhole, Steps, NoTracker, EmptyTracker
    <3>4. /\ DiskState = [model |-> aShard[s], done |-> s, pos |-> dataPt[s]]
          /\ DiskState.done # UnreadableState.done
      BY <3>2, <3>3, PointIs DEF Point, UnreadableState, FreshState
    <3>5. Up' /\ JobState' = [model |-> aShard[s], done |-> s, pos |-> dataPt[s]]
      BY <3>1, <3>3 DEF StartFromCheckpoint, Up, JobState, DoneSteps
    <3> QED BY <2>3, <2>4, <3>4, <3>5 DEF RP!Next, RP!Restart
  <2>7. CASE StartFails(mode)
    BY <2>4, <2>7 DEF StartFails, Up, RP!Next
  <2> QED BY <2>1, <2>5, <2>6, <2>7
<1>4. CASE BeginSaveData \/ EndSaveData
  <2>1. /\ Up /\ tracker' = tracker /\ aShard' = aShard
        /\ pc \in {"save_data", "saving_data"}
        /\ \E d : dataPt' = [dataPt EXCEPT ![globalSteps] = d]
    BY <1>4 DEF BeginSaveData, EndSaveData, Goto, Up, actorVars
  <2>2. tracker # globalSteps /\ dataPt \in [Steps -> (1..EpochLen) \cup {Absent, Torn}]
    BY <2>1, ConstantFacts DEF IInv, TypeOK, TrackerBehind, NoTracker, EmptyTracker
  <2>3. tracker \in Steps => dataPt'[tracker] = dataPt[tracker]
    BY <2>1, <2>2
  <2> QED BY <2>1, <2>3, WorksOrStops DEF RP!Next
<1>5. CASE OpenTracker \/ WriteTracker
  <2>1. /\ Up /\ Up' /\ JobState' = JobState /\ JobState # DownState
        /\ UNCHANGED <<aShard, dataPt, globalSteps, actor, pos>>
    BY <1>5, JobIsUp
    DEF OpenTracker, WriteTracker, Goto, Up, JobState, DoneSteps, loopVars, actorVars
  <2>2. (IInv => DiskState = Point)'
    BY PointIs, PTL
  <2>3. CASE OpenTracker
    <3>1. tracker' = EmptyTracker /\ DiskState' = UnreadableState
      BY <2>2, <2>3 DEF OpenTracker, Point, NoTracker, EmptyTracker, UnreadableState, FreshState
    <3> QED BY <2>1, <3>1 DEF RP!Next, RP!Withdraw
  <2>4. CASE WriteTracker
    <3>1. tracker' = globalSteps /\ pc = "tracking"
      BY <2>4 DEF WriteTracker, Goto
    <3>2. globalSteps \in Nat \ {0}
      BY <2>1, TrainerAssumption DEF IInv, TrackerBehind, Steps
    <3>3. DiskState' = [model |-> aShard[globalSteps], done |-> globalSteps,
                        pos |-> dataPt[globalSteps]]
      BY <2>1, <2>2, <3>1, <3>2 DEF Point, NoTracker, EmptyTracker
    <3>4. JobState = [model |-> aShard[globalSteps], done |-> globalSteps,
                      pos |-> dataPt[globalSteps]]
      BY <3>1 DEF JobState, DoneSteps, FolderIsTheJobs, AfterActor
    <3>5. tracker' # EmptyTracker
      BY <3>1, <3>2 DEF EmptyTracker
    <3> QED BY <2>1, <3>3, <3>4, <3>5 DEF RP!Next, RP!Publish
  <2> QED BY <1>5, <2>3, <2>4
<1>6. CASE UNCHANGED vars
  <2>1. UNCHANGED <<tracker, dataPt, aShard, pc, actor, globalSteps, pos>>
    BY <1>6 DEF vars, actorVars, loopVars
  <2>2. DiskState' = DiskState
    BY <2>1, WorksOrStops
  <2> QED BY <2>1, <2>2 DEF RP!vars, Up, JobState, DoneSteps
<1> QED BY <1>1, <1>2, <1>3, <1>4, <1>5, <1>6 DEF Next, Driver

(* ImplementsResumePoint: a job that starts in mode "auto" and keeps more   *)
(* than one folder only ever resumes from what it published last, complete  *)
(* and as it was, and only publishing replaces or withdraws it.             *)
THEOREM RefinesResumePoint ==
  ASSUME SafeConfiguration
  PROVE  Spec => ImplementsResumePoint
<1>1. Init => RP!Init
  <2> SUFFICES ASSUME Init PROVE RP!Init
    OBVIOUS
  <2>1. IInv
    BY InitIInv
  <2> QED BY <2>1, PointIs DEF Init, Point, RP!Init, Up, NoTracker, EmptyTracker
<1>2. Init => PInv
  BY PInvIsInductive
<1>3. PInv /\ [Next]_vars => PInv'
  BY PInvIsInductive
<1>4. PInv /\ PInv' /\ [Next]_vars => [RP!Next]_RP!vars
  BY StepRefines
<1> QED BY <1>1, <1>2, <1>3, <1>4, PTL DEF Spec, ImplementsResumePoint, RP!Spec

-----------------------------------------------------------------------------
(* A job that returns from fit has saved its last step.                    *)

(* The trainer saves, and total_training_steps is no more than the epochs  *)
(* hold: it is len(train_dataloader) * total_epochs unless it is set.      *)
RunsToTheEnd == SaveFreq > 0 /\ TotalSteps <= TotalEpochs * EpochLen

(* The batches this start has behind it, as the epoch loop counts them.    *)
Batches == epoch * EpochLen + pos

(* A dataloader position on disk is not ahead of its step, so that a job   *)
(* never runs out of epochs before its step counter has got to them; and   *)
(* past the last step there is only the loop of a job that resumed there.  *)
CountInv ==
  /\ \A s \in Steps : dataPt[s] \in 1..EpochLen => dataPt[s] <= s
  /\ Up => Batches <= DoneSteps
  /\ pc = "fetch" /\ globalSteps > TotalSteps => tracker = globalSteps - 1
  /\ pc = "next" /\ IsLastStep => tracker = globalSteps
  /\ FinishedIsSaved

(* Products of natural numbers, which grow with their factors.             *)
LEMMA EpochProduct ==
  ASSUME NEW e \in Nat
  PROVE  /\ e * EpochLen \in Nat
         /\ (e + 1) * EpochLen = e * EpochLen + EpochLen
         /\ TotalEpochs <= e + 1 => TotalEpochs * EpochLen <= e * EpochLen + EpochLen
<1>1. EpochLen \in Nat /\ TotalEpochs \in Nat
  BY TrainerAssumption
<1>2. e * EpochLen \in Nat /\ (e + 1) * EpochLen = e * EpochLen + EpochLen
  BY <1>1
<1>3. ASSUME TotalEpochs <= e + 1
      PROVE  TotalEpochs * EpochLen <= e * EpochLen + EpochLen
  <2>1. PICK d \in Nat : e + 1 = TotalEpochs + d
    <3>1. e + 1 - TotalEpochs \in Nat /\ e + 1 = TotalEpochs + (e + 1 - TotalEpochs)
      BY <1>1, <1>3
    <3> QED BY <3>1
  <2>2. (e + 1) * EpochLen = TotalEpochs * EpochLen + d * EpochLen
    BY <1>1, <2>1
  <2>3. d * EpochLen \in Nat /\ TotalEpochs * EpochLen \in Nat
    BY <1>1
  <2> QED BY <1>1, <1>2, <2>2, <2>3
<1> QED BY <1>2, <1>3

LEMMA InitCountInv == Init => CountInv
BY TrainerAssumption, ConstantFacts
DEF Init, CountInv, FinishedIsSaved, Up

(* A resume puts the step counter behind the folder's step, and the data    *)
(* behind the folder's position.                                           *)
LEMMA StartCountInv ==
  ASSUME IInv, CountInv, SafeConfiguration, RunsToTheEnd, Start
  PROVE  CountInv'
<1> USE TrainerAssumption, ConstantFacts
<1>1. PICK mode \in Modes : \/ StartFromScratch(mode)
                            \/ \E s \in Steps : StartFromCheckpoint(mode, s)
                            \/ StartFails(mode)
  BY DEF Start
<1>2. mode = "auto"
  BY DEF SafeConfiguration
<1>3. MayStart
  BY <1>1 DEF StartFromScratch, StartFromCheckpoint, StartFails
<1>4. UNCHANGED <<dataPt, tracker>> /\ epoch' = 0
  BY <1>3 DEF MayStart
<1>5. epoch' * EpochLen = 0
  BY <1>4
<1>6. CASE StartFromScratch(mode)
  <2>1. globalSteps' = 1 /\ pos' = 0 /\ pc' = "fetch"
    BY <1>6 DEF StartFromScratch
  <2> QED
    BY <1>4, <1>5, <2>1 DEF CountInv, FinishedIsSaved, Batches, DoneSteps, Up
<1>7. CASE \E s \in Steps : StartFromCheckpoint(mode, s)
  <2>1. PICK s \in Steps : StartFromCheckpoint(mode, s)
    BY <1>7
  <2>2. s = tracker /\ s \in Nat
    BY <1>2, <2>1, TrackedIsFound DEF StartFromCheckpoint, ResumeFolder
  <2>3. /\ globalSteps' = s + 1 /\ pc' = "fetch"
        /\ pos' = IF dataPt[s] = Absent THEN 0 ELSE dataPt[s]
    BY <2>1 DEF StartFromCheckpoint
  <2>4. dataPt[s] \in 1..EpochLen /\ dataPt[s] <= s
    BY <2>2 DEF IInv, TrackedIsWhole, CountInv
  <2>5. pos' = dataPt[s]
    BY <2>3, <2>4
  <2> QED
    BY <1>4, <1>5, <2>2, <2>3, <2>4, <2>5
    DEF CountInv, FinishedIsSaved, Batches, DoneSteps, Up
<1>8. CASE StartFails(mode)
  BY <1>4, <1>8 DEF StartFails, CountInv, FinishedIsSaved, Up
<1> QED BY <1>1, <1>6, <1>7, <1>8

(* Drawing a batch moves the dataloader and the step together.             *)
LEMMA FetchCountInv ==
  ASSUME IInv, CountInv, Fetch
  PROVE  CountInv'
<1>1. /\ pc = "fetch" /\ pc' = "train" /\ pos' = pos + 1
      /\ UNCHANGED <<dataPt, tracker, globalSteps, epoch>>
  BY DEF Fetch, Goto
<1>2. /\ epoch * EpochLen \in Nat /\ pos \in Nat /\ globalSteps \in Nat
  BY TrainerAssumption, EpochProduct DEF IInv, TypeOK
<1>3. epoch * EpochLen + pos <= globalSteps - 1
  BY <1>1 DEF CountInv, Batches, DoneSteps, Up
<1>4. (Up => Batches <= DoneSteps)'
  BY <1>1, <1>2, <1>3 DEF Batches, DoneSteps
<1> QED BY <1>1, <1>4 DEF CountInv, FinishedIsSaved

(* The loop that runs out of epochs has counted all their steps.           *)
LEMMA EndEpochCountInv ==
  ASSUME IInv, CountInv, RunsToTheEnd, EndEpoch
  PROVE  CountInv'
<1>1. /\ pc = "fetch" /\ pc' \in {"fetch", "ended"}
      /\ pc' = "ended" => epoch + 1 >= TotalEpochs
      /\ pos = EpochLen /\ pos' = 0 /\ epoch' = epoch + 1
      /\ UNCHANGED <<dataPt, tracker, globalSteps>>
  <2>1. epoch \in Nat /\ TotalEpochs \in Nat
    BY TrainerAssumption DEF IInv, TypeOK
  <2> QED BY <2>1 DEF EndEpoch, AfterEpoch, Goto
<1>2. /\ epoch * EpochLen \in Nat /\ EpochLen \in Nat /\ globalSteps \in Nat
      /\ TotalSteps \in Nat /\ epoch \in Nat /\ TotalEpochs \in Nat
      /\ TotalEpochs * EpochLen \in Nat
  BY TrainerAssumption, EpochProduct DEF IInv, TypeOK
<1>3. epoch * EpochLen + EpochLen <= globalSteps - 1
  BY <1>1 DEF CountInv, Batches, DoneSteps, Up
<1>4. (Up => Batches <= DoneSteps)'
  <2>1. epoch' * EpochLen = epoch * EpochLen + EpochLen
    BY <1>1, <1>2, EpochProduct
  <2> QED BY <1>1, <1>2, <1>3, <2>1 DEF Batches, DoneSteps, Up
<1>5. pc' = "ended" => tracker' = globalSteps' - 1 /\ globalSteps' > TotalSteps
  <2> SUFFICES ASSUME pc' = "ended"
               PROVE  globalSteps > TotalSteps
    BY <1>1 DEF CountInv
  <2>1. TotalEpochs * EpochLen <= epoch * EpochLen + EpochLen
    BY <1>1, <1>2, EpochProduct
  <2> QED BY <1>2, <1>3, <2>1 DEF RunsToTheEnd
<1> QED BY <1>1, <1>4, <1>5 DEF CountInv, FinishedIsSaved

(* Only a step that is not the last goes on without a save.                *)
LEMMA TrainCountInv ==
  ASSUME IInv, CountInv, RunsToTheEnd, Train
  PROVE  CountInv'
<1>1. /\ pc = "train" /\ pc' \in {"save_actor", "next"}
      /\ UNCHANGED <<dataPt, tracker, globalSteps, pos, epoch>>
      /\ pc' = "next" => \E esi \in {FALSE, EsiMayExpire} : ~MustSave(esi)
  BY DEF Train, Goto
<1>2. pc' = "next" => ~IsLastStep
  BY <1>1 DEF MustSave, RunsToTheEnd
<1> QED
  BY <1>1, <1>2 DEF CountInv, FinishedIsSaved, Batches, DoneSteps, IsLastStep, Up

LEMMA NextStepCountInv ==
  ASSUME IInv, CountInv, NextStep
  PROVE  CountInv'
<1>1. /\ pc = "next"
      /\ \/ pc' = "finished" /\ IsLastStep
         \/ pc' = "fetch" /\ ~IsLastStep
      /\ globalSteps' = globalSteps + 1
      /\ UNCHANGED <<dataPt, tracker, pos, epoch>>
  BY DEF NextStep, Goto
<1>2. globalSteps \in Nat /\ TotalSteps \in Nat
  BY TrainerAssumption DEF IInv, TypeOK
<1>3. globalSteps' - 1 = globalSteps
  BY <1>1, <1>2
<1>4. (Up => Batches <= DoneSteps)'
  BY <1>1, <1>3 DEF CountInv, Batches, DoneSteps, Up
<1> QED
  BY <1>1, <1>2, <1>3, <1>4 DEF CountInv, FinishedIsSaved, IsLastStep

(* The position a save writes is not ahead of the step it saves.           *)
LEMMA SaveCountInv ==
  ASSUME IInv, CountInv, BeginSaveData \/ EndSaveData \/ OpenTracker \/ WriteTracker
  PROVE  CountInv'
<1>1. /\ pc \in {"save_data", "saving_data", "track", "tracking"}
      /\ pc' \in {"saving_data", "track", "tracking", "next"}
      /\ UNCHANGED <<globalSteps, pos, epoch>>
      /\ pc' = "next" => tracker' = globalSteps
  BY DEF BeginSaveData, EndSaveData, OpenTracker, WriteTracker, Goto, loopVars
<1>2. globalSteps \in Steps /\ pos \in 1..EpochLen /\ pos <= globalSteps
  <2>1. /\ epoch * EpochLen \in Nat /\ pos \in Nat /\ globalSteps \in Nat
    BY TrainerAssumption, EpochProduct DEF IInv, TypeOK
  <2>2. epoch * EpochLen + pos <= globalSteps
    BY <1>1 DEF CountInv, Batches, DoneSteps, Up
  <2>3. globalSteps \in Steps /\ pos \in 1..EpochLen
    BY <1>1 DEF IInv, TrackerBehind, HasBatch, Up, AfterActor
  <2> QED BY <2>1, <2>2, <2>3
<1>3. \/ dataPt' = dataPt
      \/ dataPt' = [dataPt EXCEPT ![globalSteps] = Torn]
      \/ dataPt' = [dataPt EXCEPT ![globalSteps] = pos]
  BY DEF BeginSaveData, EndSaveData, OpenTracker, WriteTracker
<1>4. ASSUME NEW s \in Steps, dataPt'[s] \in 1..EpochLen
      PROVE  dataPt'[s] <= s
  <2>1. Torn \notin 1..EpochLen
    BY ConstantFacts, TrainerAssumption
  <2>2. dataPt \in [Steps -> (1..EpochLen) \cup {Absent, Torn}]
    BY DEF IInv, TypeOK
  <2> QED BY <1>2, <1>3, <1>4, <2>1, <2>2 DEF CountInv
<1> QED
  BY <1>1, <1>4 DEF CountInv, FinishedIsSaved, Batches, DoneSteps, Up

(* The ranks' own steps, and a crash, count nothing.                       *)
LEMMA OtherCountInv ==
  ASSUME IInv, CountInv,
         \/ ActorBarrier \/ CriticBarrier \/ ActorSaved \/ CriticSaved
         \/ \E r \in Ranks : ActorRank(r) \/ CriticRank(r)
         \/ Crash
         \/ UNCHANGED vars
  PROVE  CountInv'
<1>1. CASE UNCHANGED vars
  BY <1>1
  DEF vars, loopVars, CountInv, FinishedIsSaved, Batches, DoneSteps, IsLastStep, Up
<1>2. CASE Crash
  BY <1>2 DEF Crash, CountInv, FinishedIsSaved, Up
<1>3. CASE \/ ActorBarrier \/ CriticBarrier \/ ActorSaved \/ CriticSaved
           \/ \E r \in Ranks : ActorRank(r) \/ CriticRank(r)
  <2>1. /\ pc \in {"save_actor", "save_critic"}
        /\ pc' \in {"save_actor", "save_critic", "save_data"}
        /\ UNCHANGED <<dataPt, tracker, globalSteps, pos, epoch>>
    BY <1>3
    DEF ActorBarrier, CriticBarrier, ActorSaved, CriticSaved, ActorRank, CriticRank, Goto,
        loopVars
  <2> QED BY <2>1 DEF CountInv, FinishedIsSaved, Batches, DoneSteps, Up
<1> QED BY <1>1, <1>2, <1>3

LEMMA NextCountInv ==
  ASSUME IInv, CountInv, SafeConfiguration, RunsToTheEnd, [Next]_vars
  PROVE  CountInv'
BY StartCountInv, FetchCountInv, EndEpochCountInv, TrainCountInv, NextStepCountInv,
   SaveCountInv, OtherCountInv
DEF Next, Driver

(* A job that returns from fit has saved its last step, and it returns only *)
(* from there: no crash, and no resume, makes it run out of epochs before   *)
(* total_training_steps, or leaves a tracker that is behind the last step.  *)
THEOREM FinishedAlwaysSaved ==
  ASSUME SafeConfiguration, RunsToTheEnd
  PROVE  Spec => []FinishedIsSaved
<1>1. CountInv => FinishedIsSaved
  BY DEF CountInv
<1> QED BY <1>1, InitIInv, NextIInv, InitCountInv, NextCountInv, PTL DEF Spec

-----------------------------------------------------------------------------
(* No save hangs *)

(* Whoever waits in a save of the actor or of the critic waits for a rank  *)
(* that has something to do.                                               *)
SavesGoOn ==
  /\ pc = "save_actor" => A!NobodyWaitsInVain
  /\ pc = "save_critic" => C!NobodyWaitsInVain

(* In a save the ranks are in the same part of save_checkpoint, and outside *)
(* of it at none.  This needs nothing of IInv, and no SafeConfiguration.   *)
AbreastInv ==
  /\ aPhase \in [Ranks -> A!Phases] /\ cPhase \in [Ranks -> C!Phases]
  /\ IF pc = "save_actor" THEN A!Abreast ELSE A!Idle
  /\ IF pc = "save_critic" THEN C!Abreast ELSE C!Idle

(* A step of a rank keeps it in its part of the actor's save, ...          *)
LEMMA ActorRankAbreast ==
  ASSUME aPhase \in [Ranks -> A!Phases], A!Abreast,
         NEW r \in Ranks, NEW step, NEW state, A!RankStep(r, step, state)
  PROVE  aPhase' \in [Ranks -> A!Phases] /\ A!Abreast'
<1> DEFINE Way(p, q) == \/ r = 0 /\ p = "rotate" /\ q = "remove"
                        \/ r = 0 /\ p = "remove" /\ q = "entered"
                        \/ p = "mkdir" /\ q = "entered"
                        \/ p = "write" /\ q = "writing"
                        \/ p = "writing" /\ q = "written"
                        \/ r = 0 /\ p = "hf" /\ q = "hf_wait"
                        \/ p = "append" /\ q = "returned"
<1>1. CASE aPhase' = aPhase
  BY <1>1 DEF A!Abreast, A!AllIn
<1>2. ASSUME NEW p, NEW q, A!Move(r, p, q), Way(p, q)
      PROVE  aPhase' \in [Ranks -> A!Phases] /\ A!Abreast'
  <2>1. /\ aPhase[r] = p /\ aPhase'[r] = q /\ q \in A!Phases
        /\ aPhase' \in [Ranks -> A!Phases]
        /\ \A o \in Ranks \ {r} : aPhase'[o] = aPhase[o]
    BY <1>2 DEF A!Move, A!Phases
  <2>2. \A part \in {A!Preparing, A!Dumping, A!Gathering, A!Leaving} :
           p \in part => q \in part
    BY <1>2 DEF A!Preparing, A!Dumping, A!Gathering, A!Leaving
  <2>3. \A part \in {A!Preparing, A!Dumping, A!Gathering, A!Leaving} :
           A!AllIn(part) => A!AllIn(part)'
    BY <2>1, <2>2 DEF A!AllIn
  <2>4. \A o \in Ranks \ {0} : aPhase'[o] \notin {"rotate", "remove", "hf"}
    BY <1>2, <2>1 DEF A!Abreast
  <2> QED BY <2>1, <2>3, <2>4 DEF A!Abreast
<1>3. \/ aPhase' = aPhase
      \/ \E p, q : A!Move(r, p, q) /\ Way(p, q)
  <2>1. CASE r = 0 /\ (A!Rotate \/ A!SaveHf)
    BY <2>1 DEF A!Rotate, A!SaveHf
  <2>2. CASE A!Mkdir(r, step) \/ A!BeginWrite(r, step) \/ A!EndWrite(r, step, state)
             \/ A!Return(r, step)
    BY <2>2 DEF A!Mkdir, A!BeginWrite, A!EndWrite, A!Return
  <2> QED BY <2>1, <2>2 DEF A!RankStep, A!RemoveFile, A!RemoveDir, A!RemoveFails
<1> HIDE DEF Way
<1> QED BY <1>1, <1>2, <1>3

(* ... a barrier takes all of them to the next, ...                        *)
LEMMA ActorBarrierAbreast ==
  ASSUME aPhase \in [Ranks -> A!Phases], 0 \in Ranks, A!Abreast, A!BarrierStep
  PROVE  aPhase' \in [Ranks -> A!Phases] /\ A!Abreast'
BY DEF A!BarrierStep, A!EnterBarrier, A!DumpBarrier, A!HfBarrier, A!Barrier, A!Phases,
       A!Abreast, A!AllIn, A!Preparing, A!Dumping, A!Gathering, A!Leaving

(* ... and in each part somebody can go on, or all wait for one another.   *)
LEMMA ActorTogether ==
  ASSUME 0 \in Ranks, A!Abreast
  PROVE  A!NobodyWaitsInVain
<1> USE DEF A!Abreast, A!AllIn, A!NobodyWaitsInVain
<1>1. CASE A!AllIn(A!Preparing)
  BY <1>1 DEF A!Preparing
<1>2. CASE A!AllIn(A!Dumping)
  BY <1>2 DEF A!Dumping
<1>3. CASE A!AllIn(A!Gathering)
  BY <1>3 DEF A!Gathering
<1>4. CASE A!AllIn(A!Leaving)
  BY <1>4 DEF A!Leaving
<1> QED BY <1>1, <1>2, <1>3, <1>4

(* A step of a rank keeps it in its part of the critic's save, ...         *)
LEMMA CriticRankAbreast ==
  ASSUME cPhase \in [Ranks -> C!Phases], C!Abreast,
         NEW r \in Ranks, NEW step, NEW state, C!RankStep(r, step, state)
  PROVE  cPhase' \in [Ranks -> C!Phases] /\ C!Abreast'
<1> DEFINE Way(p, q) == \/ r = 0 /\ p = "rotate" /\ q = "remove"
                        \/ r = 0 /\ p = "remove" /\ q = "entered"
                        \/ p = "mkdir" /\ q = "entered"
                        \/ p = "write" /\ q = "writing"
                        \/ p = "writing" /\ q = "written"
                        \/ r = 0 /\ p = "hf" /\ q = "hf_wait"
                        \/ p = "append" /\ q = "returned"
<1>1. CASE cPhase' = cPhase
  BY <1>1 DEF C!Abreast, C!AllIn
<1>2. ASSUME NEW p, NEW q, C!Move(r, p, q), Way(p, q)
      PROVE  cPhase' \in [Ranks -> C!Phases] /\ C!Abreast'
  <2>1. /\ cPhase[r] = p /\ cPhase'[r] = q /\ q \in C!Phases
        /\ cPhase' \in [Ranks -> C!Phases]
        /\ \A o \in Ranks \ {r} : cPhase'[o] = cPhase[o]
    BY <1>2 DEF C!Move, C!Phases
  <2>2. \A part \in {C!Preparing, C!Dumping, C!Gathering, C!Leaving} :
           p \in part => q \in part
    BY <1>2 DEF C!Preparing, C!Dumping, C!Gathering, C!Leaving
  <2>3. \A part \in {C!Preparing, C!Dumping, C!Gathering, C!Leaving} :
           C!AllIn(part) => C!AllIn(part)'
    BY <2>1, <2>2 DEF C!AllIn
  <2>4. \A o \in Ranks \ {0} : cPhase'[o] \notin {"rotate", "remove", "hf"}
    BY <1>2, <2>1 DEF C!Abreast
  <2> QED BY <2>1, <2>3, <2>4 DEF C!Abreast
<1>3. \/ cPhase' = cPhase
      \/ \E p, q : C!Move(r, p, q) /\ Way(p, q)
  <2>1. CASE r = 0 /\ (C!Rotate \/ C!SaveHf)
    BY <2>1 DEF C!Rotate, C!SaveHf
  <2>2. CASE C!Mkdir(r, step) \/ C!BeginWrite(r, step) \/ C!EndWrite(r, step, state)
             \/ C!Return(r, step)
    BY <2>2 DEF C!Mkdir, C!BeginWrite, C!EndWrite, C!Return
  <2> QED BY <2>1, <2>2 DEF C!RankStep, C!RemoveFile, C!RemoveDir, C!RemoveFails
<1> HIDE DEF Way
<1> QED BY <1>1, <1>2, <1>3

(* ... a barrier takes all of them to the next, ...                        *)
LEMMA CriticBarrierAbreast ==
  ASSUME cPhase \in [Ranks -> C!Phases], 0 \in Ranks, C!Abreast, C!BarrierStep
  PROVE  cPhase' \in [Ranks -> C!Phases] /\ C!Abreast'
BY DEF C!BarrierStep, C!EnterBarrier, C!DumpBarrier, C!HfBarrier, C!Barrier, C!Phases,
       C!Abreast, C!AllIn, C!Preparing, C!Dumping, C!Gathering, C!Leaving

(* ... and in each part somebody can go on, or all wait for one another.   *)
LEMMA CriticTogether ==
  ASSUME 0 \in Ranks, C!Abreast
  PROVE  C!NobodyWaitsInVain
<1> USE DEF C!Abreast, C!AllIn, C!NobodyWaitsInVain
<1>1. CASE C!AllIn(C!Preparing)
  BY <1>1 DEF C!Preparing
<1>2. CASE C!AllIn(C!Dumping)
  BY <1>2 DEF C!Dumping
<1>3. CASE C!AllIn(C!Gathering)
  BY <1>3 DEF C!Gathering
<1>4. CASE C!AllIn(C!Leaving)
  BY <1>4 DEF C!Leaving
<1> QED BY <1>1, <1>2, <1>3, <1>4

LEMMA SavesBeginAbreast ==
  /\ \A p : A!Call /\ aPhase' = p => p \in [Ranks -> A!Phases] /\ A!Abreast'
  /\ \A p : C!Call /\ cPhase' = p => p \in [Ranks -> C!Phases] /\ C!Abreast'
BY TrainerAssumption
DEF A!Call, A!Phases, A!Abreast, A!AllIn, A!Preparing, C!Call, C!Phases, C!Abreast, C!AllIn,
    C!Preparing

LEMMA SavesEndIdle ==
  /\ A!Collect \/ A!Exit => aPhase' \in [Ranks -> A!Phases] /\ A!Idle'
  /\ C!Collect \/ C!Exit => cPhase' \in [Ranks -> C!Phases] /\ C!Idle'
BY DEF A!Collect, A!Exit, A!Phases, A!Idle, C!Collect, C!Exit, C!Phases, C!Idle

LEMMA StepAbreastInv == AbreastInv /\ [Next]_vars => AbreastInv'
<1> SUFFICES ASSUME AbreastInv, [Next]_vars PROVE AbreastInv'
  OBVIOUS
<1> USE DEF AbreastInv
<1>0. 0 \in Ranks
  BY TrainerAssumption
<1>1. aPhase' = aPhase => (A!Idle => A!Idle') /\ (A!Abreast => A!Abreast')
  BY DEF A!Idle, A!Abreast, A!AllIn
<1>2. cPhase' = cPhase => (C!Idle => C!Idle') /\ (C!Abreast => C!Abreast')
  BY DEF C!Idle, C!Abreast, C!AllIn
<1>3. CASE Start \/ Crash
  <2>1. A!Exit /\ C!Exit /\ pc' \in {"down", "failed", "fetch"}
    BY <1>3 DEF Start, StartFromScratch, StartFromCheckpoint, StartFails, MayStart, Crash
  <2> QED BY <2>1, SavesEndIdle
<1>4. CASE UNCHANGED <<aPhase, cPhase>> /\ pc \notin {"save_actor", "save_critic"}
           /\ pc' \notin {"save_actor", "save_critic"}
  BY <1>1, <1>2, <1>4
<1>5. CASE UNCHANGED <<aPhase, cPhase, pc>>
  BY <1>1, <1>2, <1>5
<1>6. CASE Train
  <2>1. CASE A!Call
    <3>1. pc = "train" /\ pc' = "save_actor" /\ cPhase' = cPhase
      BY <1>6, <2>1, <1>0 DEF Train, Goto, criticVars, A!Call, A!Idle, actorVars
    <3> QED BY <1>2, <2>1, <3>1, SavesBeginAbreast
  <2>2. CASE ~A!Call
    BY <1>4, <1>6, <2>2 DEF Train, Goto, actorVars, criticVars
  <2> QED BY <2>1, <2>2
<1>7. CASE ActorSaved
  <2>1. pc = "save_actor" /\ A!Collect
    BY <1>7 DEF ActorSaved, Goto
  <2>2. \/ pc' = "save_critic" /\ C!Call
        \/ pc' = "save_data" /\ cPhase' = cPhase
    BY <1>7 DEF ActorSaved, Goto, criticVars
  <2> QED BY <1>2, <2>1, <2>2, SavesBeginAbreast, SavesEndIdle
<1>8. CASE CriticSaved
  <2>1. pc = "save_critic" /\ C!Collect /\ pc' = "save_data" /\ aPhase' = aPhase
    BY <1>8 DEF CriticSaved, Goto, actorVars
  <2> QED BY <1>1, <2>1, SavesEndIdle
<1>9. CASE ActorBarrier \/ \E r \in Ranks : ActorRank(r)
  <2>1. pc = "save_actor" /\ pc' = pc /\ cPhase' = cPhase
    BY <1>9 DEF ActorBarrier, ActorRank, criticVars
  <2>2. aPhase' \in [Ranks -> A!Phases] /\ A!Abreast'
    BY <1>0, <1>9, <2>1, ActorRankAbreast, ActorBarrierAbreast DEF ActorBarrier, ActorRank
  <2> QED BY <1>2, <2>1, <2>2
<1>10. CASE CriticBarrier \/ \E r \in Ranks : CriticRank(r)
  <2>1. pc = "save_critic" /\ pc' = pc /\ aPhase' = aPhase
    BY <1>10 DEF CriticBarrier, CriticRank, actorVars
  <2>2. cPhase' \in [Ranks -> C!Phases] /\ C!Abreast'
    BY <1>0, <1>10, <2>1, CriticRankAbreast, CriticBarrierAbreast DEF CriticBarrier, CriticRank
  <2> QED BY <1>1, <2>1, <2>2
<1>11. CASE Fetch \/ EndEpoch \/ NextStep \/ BeginSaveData \/ EndSaveData \/ OpenTracker
            \/ WriteTracker
  BY <1>4, <1>11
  DEF Fetch, EndEpoch, NextStep, BeginSaveData, EndSaveData, OpenTracker, WriteTracker, Goto,
      AfterEpoch, actorVars, criticVars
<1>12. CASE UNCHANGED vars
  BY <1>5, <1>12 DEF vars, actorVars, criticVars
<1> QED
  BY <1>3, <1>6, <1>7, <1>8, <1>9, <1>10, <1>11, <1>12 DEF Next, Driver

(* save_checkpoint's barriers are its waits: the ranks of the actor, and    *)
(* those of the critic, come to each of them together, whatever rank 0     *)
(* alone does before it, so no save blocks in torch.distributed.barrier(). *)
THEOREM NoSaveHangs == Spec => []SavesGoOn
<1>1. Init => AbreastInv
  BY DEF Init, A!Init, C!Init, AbreastInv, A!Phases, C!Phases, A!Idle, C!Idle
<1>2. AbreastInv => SavesGoOn
  BY TrainerAssumption, ActorTogether, CriticTogether DEF AbreastInv, SavesGoOn
<1> QED BY <1>1, <1>2, StepAbreastInv, PTL DEF Spec
=============================================================================
